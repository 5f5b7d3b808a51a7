-------------------------- MODULE RepoProvision_proofs ------------------------
(***************************************************************************)
(* The catalog and the creation of repos and templates, proved for any     *)
(* sets of operations, workers, volumes, ids and requests.                 *)
(*                                                                         *)
(* The invariant has two layers.  One is about everything: what is made is *)
(* never unmade (requests, directories, rows), fences belong to the        *)
(* operation and the repo they name, and a worker about to commit knows    *)
(* what is in its directory.  The other is about each operation whose      *)
(* lease has never run out under a worker, whatever has happened to the    *)
(* others and wherever workers have stopped: it has at most one worker,    *)
(* which owns it, and what that worker has read of its fence is still      *)
(* true.                                                                   *)
(***************************************************************************)
EXTENDS RepoProvision, TLAPS

RepoTypes == {"repo_create", "template_create", "template_clone"}

Made(o) == op[o].state # "absent"

OperationInv(o) == Made(o) => op[o].req \in Requests

WorkerInv(w) ==
    /\ worker[w].pc = "idle" <=> worker[w].op = NoOp
    /\ worker[w].op # NoOp => Made(worker[w].op)
    /\ worker[w].pc = "depend" => Req(w).type \notin RepoTypes
    /\ worker[w].pc = "succeed" /\ Req(w).type \in RepoTypes =>
          /\ worker[w].jvs # "none"
          /\ dir[Req(w).target][worker[w].volume] = worker[w].jvs

FenceInv(i) ==
    /\ fence[i] # NoOp =>
          /\ Made(fence[i])
          /\ op[fence[i]].req.type = "repo_create" /\ op[fence[i]].req.target = i
    /\ wfence[i] # NoOp =>
          /\ Made(wfence[i]) /\ op[wfence[i]].state \notin Terminal
          /\ op[wfence[i]].req.type = "template_create"
          /\ op[wfence[i]].req.source = i
          /\ wfence[i] \in marked

RowInv(i) ==
    Exists(i) => row[i].jvs # "none" /\ dir[i][row[i].volume] = row[i].jvs

MakerInv(i, v) ==
    dir[i][v] \in Ops =>
        /\ Made(dir[i][v])
        /\ op[dir[i][v]].req.type = "repo_create" => op[dir[i][v]].req.target = i

\* The layer of the operations that have not stalled.
SoleWorker(w) == worker[w].op # NoOp => Owns(w) \/ op[worker[w].op].stalled

FenceView(w) ==
    LET own == fence[Req(w).target] = worker[w].op
    IN  /\ worker[w].op # NoOp /\ ~op[worker[w].op].stalled
        /\ Req(w).type = "repo_create"
        =>
          /\ worker[w].pc \in {"metadata", "acquire"} => (worker[w].held = "own" <=> own)
          /\ worker[w].pc = "storage" => own
          /\ worker[w].pc = "fail" => ~own

FenceOpen(i) ==
    fence[i] # NoOp =>
        op[fence[i]].state \notin Terminal \/ op[fence[i]].stalled

DirInv(i, v) ==
    LET o == dir[i][v]
    IN  o \in Ops /\ op[o].req.type = "repo_create" /\ ~op[o].stalled =>
          \/ /\ fence[i] = o
             /\ op[o].state \in {"running", "operator_intervention_required"}
          \/ /\ op[o].state = "succeeded" /\ Exists(i)
             /\ row[i].jvs = o \/ row[i].volume # v

History ==
    /\ \A o \in Ops : OperationInv(o)
    /\ \A w \in Workers : WorkerInv(w)
    /\ \A i \in Ids : FenceInv(i) /\ RowInv(i)
    /\ \A i \in Ids, v \in Volumes : MakerInv(i, v)

Clean ==
    /\ \A w \in Workers : SoleWorker(w) /\ FenceView(w)
    /\ \A i \in Ids : FenceOpen(i)
    /\ \A i \in Ids, v \in Volumes : DirInv(i, v)

IndInv == TypeOK /\ History /\ Clean

USE NullAssumption, VolumeAssumption, FaultAssumption, RequestAssumption,
    FormAssumption, SeedAssumption

------------------------------------------------------------------------------
(* Types.                                                                   *)

LEMMA ConstantTypes ==
    /\ IdleWorker \in WorkerRecord /\ IdleWorker.pc = "idle" /\ IdleWorker.op = NoOp
    /\ NoOperation \in OperationRecord /\ Home \in Volumes
  <1>1. (CHOOSE v \in Volumes : TRUE) \in Volumes
      OBVIOUS
  <1> QED
      BY <1>1 DEF IdleWorker, WorkerRecord, Steps, NoOperation, OperationRecord, Home

\* What a request that was admitted is about.
LEMMA RequestForm ==
    ASSUME NEW r \in Requests
    PROVE  /\ r \in Request /\ r # NoRequest
           /\ r.type \in RepoTypes => r.target \in Ids
           /\ r.type \in {"template_create", "template_clone"} => r.source \in Ids
           /\ r.volume \in Volumes /\ r.status \in VolumeStatuses
           /\ r.type = "namespace_volume_binding_put" => r.status \in {"active", "disabled"}
  BY DEF Request, Types, CatalogTypes, RepoTypes

\* A worker that is replaced in the table.
LEMMA WorkerReplaced ==
    ASSUME worker \in [Workers -> WorkerRecord], NEW w \in Workers, NEW m \in WorkerRecord,
           worker' = [worker EXCEPT ![w] = m]
    PROVE  /\ worker' \in [Workers -> WorkerRecord] /\ worker'[w] = m
           /\ \A v \in Workers \ {w} : worker'[v] = worker[v]
  OBVIOUS

LEMMA GoneTo ==
    ASSUME worker \in [Workers -> WorkerRecord], NEW w \in Workers, NEW pc \in Steps,
           Goto(w, pc)
    PROVE  /\ worker' \in [Workers -> WorkerRecord]
           /\ worker'[w].pc = pc /\ worker'[w].op = worker[w].op
           /\ worker'[w].held = worker[w].held /\ worker'[w].volume = worker[w].volume
           /\ worker'[w].jvs = worker[w].jvs
           /\ \A v \in Workers \ {w} : worker'[v] = worker[v]
  BY DEF Goto, WorkerRecord

LEMMA Left ==
    ASSUME worker \in [Workers -> WorkerRecord], NEW w \in Workers, Leave(w)
    PROVE  /\ worker' \in [Workers -> WorkerRecord] /\ worker'[w] = IdleWorker
           /\ \A v \in Workers \ {w} : worker'[v] = worker[v]
  BY ConstantTypes DEF Leave

\* What a step of worker w on its operation may rely on.
LEMMA AtWork ==
    ASSUME IndInv, NEW w \in Workers, worker[w].op # NoOp
    PROVE  /\ worker[w] \in WorkerRecord /\ worker[w].op \in Ops /\ Made(worker[w].op)
           /\ op[worker[w].op] \in OperationRecord
           /\ Req(w) \in Requests
           /\ Req(w).type \in RepoTypes => Req(w).target \in Ids
           /\ Req(w).type \in {"template_create", "template_clone"} => Req(w).source \in Ids
  <1>1. worker[w] \in WorkerRecord /\ WorkerInv(w)
      BY DEF IndInv, TypeOK, CatalogTypeOK, History
  <1>2. worker[w].op \in Ops /\ Made(worker[w].op)
      BY <1>1 DEF WorkerRecord, WorkerInv
  <1>3. op[worker[w].op] \in OperationRecord /\ OperationInv(worker[w].op)
      BY <1>2 DEF IndInv, TypeOK, CatalogTypeOK, History
  <1>4. Req(w) \in Requests
      BY <1>2, <1>3 DEF OperationInv, Req
  <1> QED
      BY <1>1, <1>2, <1>3, <1>4, RequestForm

------------------------------------------------------------------------------
(* What no step undoes.                                                     *)

OpsKeep ==
    \A o \in Ops :
        Made(o) => /\ op'[o].req = op[o].req /\ op'[o].state # "absent"
                   /\ op[o].state \in Settled => op'[o].state = op[o].state
                   /\ op[o].stalled => op'[o].stalled

DirKeep == \A i \in Ids, v \in Volumes : dir[i][v] # "none" => dir'[i][v] = dir[i][v]

RowKeep == \A i \in Ids : Exists(i) => row'[i] = row[i]

\* A worker that another one's step leaves alone.
LEMMA WorkerKept ==
    ASSUME IndInv, OpsKeep, DirKeep, NEW w \in Workers, worker'[w] = worker[w]
    PROVE  WorkerInv(w)'
  <1>1. WorkerInv(w) /\ worker[w] \in WorkerRecord
      BY DEF IndInv, History, TypeOK, CatalogTypeOK
  <1>2. CASE worker[w].op = NoOp
      BY <1>1, <1>2 DEF WorkerInv
  <1>3. CASE worker[w].op # NoOp
      <2>1. /\ worker[w].op \in Ops /\ Made(worker[w].op)
            /\ Req(w).type \in RepoTypes => Req(w).target \in Ids
          BY <1>3, AtWork
      <2>2. Made(worker[w].op)' /\ Req(w)' = Req(w)
          BY <2>1 DEF OpsKeep, Made, Req
      <2>3. worker[w].volume \in Volumes
          BY <1>1 DEF WorkerRecord
      <2> QED
          BY <1>1, <1>3, <2>1, <2>2, <2>3 DEF WorkerInv, DirKeep
  <1> QED
      BY <1>2, <1>3

\* Fences, rows and directories that a step leaves alone.
LEMMA FenceKept ==
    ASSUME IndInv, OpsKeep, NEW i \in Ids,
           fence'[i] \in {fence[i], NoOp}, wfence'[i] \in {wfence[i], NoOp},
           marked \subseteq marked',
           wfence'[i] # NoOp => op'[wfence[i]].state \notin Terminal
    PROVE  FenceInv(i)'
  <1>1. FenceInv(i) /\ fence[i] \in Ops \cup {NoOp} /\ wfence[i] \in Ops \cup {NoOp}
      BY DEF IndInv, History, TypeOK
  <1> QED
      BY <1>1 DEF FenceInv, OpsKeep, Made

LEMMA RowKept ==
    ASSUME IndInv, DirKeep, NEW i \in Ids, row'[i] = row[i]
    PROVE  RowInv(i)'
  <1>1. RowInv(i) /\ row[i].volume \in Volumes
      BY DEF IndInv, History, TypeOK, Row
  <1> QED
      BY <1>1 DEF RowInv, Exists, DirKeep

LEMMA MakerKept ==
    ASSUME IndInv, OpsKeep, NEW i \in Ids, NEW v \in Volumes, dir'[i][v] = dir[i][v]
    PROVE  MakerInv(i, v)'
  <1>1. MakerInv(i, v)
      BY DEF IndInv, History
  <1> QED
      BY <1>1 DEF MakerInv, OpsKeep, Made

\* The request of an operation that goes on.
LEMMA OperationKept ==
    ASSUME IndInv, NEW o \in Ops, op'[o].state = op[o].state, op'[o].req = op[o].req
    PROVE  OperationInv(o)'
  <1>1. OperationInv(o)
      BY DEF IndInv, History
  <1> QED
      BY <1>1 DEF OperationInv, Made

------------------------------------------------------------------------------
(* The operations that have not stalled.                                    *)

\* No two workers have the same one.
LEMMA OneWorkerEach ==
    ASSUME IndInv, NEW v \in Workers, NEW w \in Workers, v # w,
           worker[w].op # NoOp, ~op[worker[w].op].stalled
    PROVE  worker[v].op # worker[w].op
  BY DEF IndInv, Clean, SoleWorker, Owns

\* A worker that another one's step leaves alone, and its operation with it.
LEMMA ViewKept ==
    ASSUME IndInv, OpsKeep, NEW v \in Workers, worker'[v] = worker[v],
           worker[v].op # NoOp => op'[worker[v].op] = op[worker[v].op],
           worker[v].op # NoOp /\ Req(v).type = "repo_create" =>
               (fence'[Req(v).target] = worker[v].op <=> fence[Req(v).target] = worker[v].op)
    PROVE  SoleWorker(v)' /\ FenceView(v)'
  <1>1. SoleWorker(v) /\ FenceView(v)
      BY DEF IndInv, Clean
  <1>2. SoleWorker(v)'
      BY <1>1 DEF SoleWorker, Owns
  <1>3. CASE worker[v].op = NoOp
      BY <1>2, <1>3 DEF FenceView
  <1>4. CASE worker[v].op # NoOp
      <2>1. Req(v)' = Req(v)
          BY <1>4 DEF Req
      <2> QED
          BY <1>1, <1>2, <1>4, <2>1 DEF FenceView
  <1> QED
      BY <1>3, <1>4

\* A worker whose operation has stalled, or stalls.
LEMMA ViewStalled ==
    ASSUME NEW v \in Workers, op'[worker'[v].op].stalled
    PROVE  SoleWorker(v)' /\ FenceView(v)'
  BY DEF SoleWorker, FenceView

\* The other workers, when a step of w changes the record of its operation and
\* no other and leaves the lifecycle fences of the others alone.
LEMMA ViewOfOthers ==
    ASSUME IndInv, OpsKeep, NEW w \in Workers, NEW v \in Workers \ {w},
           worker[w].op # NoOp, worker'[v] = worker[v],
           \A p \in Ops \ {worker[w].op} : op'[p] = op[p],
           \A i \in Ids, p \in Ops \ {worker[w].op} : fence'[i] = p <=> fence[i] = p
    PROVE  SoleWorker(v)' /\ FenceView(v)'
  <1>1. /\ worker[v].op # NoOp => worker[v].op \in Ops
        /\ worker[v].op # NoOp /\ Req(v).type = "repo_create" => Req(v).target \in Ids
      BY AtWork DEF RepoTypes
  <1>2. worker[w].op \in Ops /\ Made(worker[w].op)
      BY AtWork
  <1>3. CASE op[worker[w].op].stalled /\ worker[v].op = worker[w].op
      <2>1. op'[worker[v].op].stalled
          BY <1>2, <1>3 DEF OpsKeep
      <2> QED
          BY <2>1, ViewStalled
  <1>4. CASE worker[v].op # worker[w].op
      BY <1>1, <1>4, ViewKept
  <1>5. CASE ~op[worker[w].op].stalled
      BY <1>4, <1>5, OneWorkerEach
  <1> QED
      BY <1>3, <1>4, <1>5

\* An operation that goes on, or has ended, with the directory it made.
LEMMA DirKept ==
    ASSUME IndInv, OpsKeep, RowKeep, NEW i \in Ids, NEW v \in Volumes,
           dir'[i][v] = dir[i][v],
           fence[i] = dir[i][v] /\ dir[i][v] \in Ops /\ ~op[dir[i][v]].stalled =>
               /\ op[dir[i][v]].state = "running" =>
                     /\ fence'[i] = fence[i]
                     /\ op'[dir[i][v]].state \in {"running", "operator_intervention_required"}
               /\ op[dir[i][v]].state = "operator_intervention_required" =>
                     fence'[i] = fence[i]
    PROVE  DirInv(i, v)'
  <1>1. DirInv(i, v) /\ MakerInv(i, v)
      BY DEF IndInv, Clean, History
  <1>2. CASE dir[i][v] \notin Ops
      BY <1>2 DEF DirInv
  <1>3. CASE dir[i][v] \in Ops
      <2>1. /\ Made(dir[i][v]) /\ op'[dir[i][v]].req = op[dir[i][v]].req
            /\ op[dir[i][v]].state \in Settled => op'[dir[i][v]].state = op[dir[i][v]].state
            /\ op[dir[i][v]].stalled => op'[dir[i][v]].stalled
          BY <1>1, <1>3 DEF MakerInv, OpsKeep
      <2>2. Exists(i) => row'[i] = row[i]
          BY DEF RowKeep
      <2>3. CASE op[dir[i][v]].req.type = "repo_create" /\ fence[i] = dir[i][v]
                 /\ op[dir[i][v]].state \in {"running", "operator_intervention_required"}
                 /\ ~op[dir[i][v]].stalled
          BY <1>3, <2>1, <2>3 DEF DirInv, Settled
      <2>4. CASE /\ op[dir[i][v]].req.type = "repo_create"
                 /\ op[dir[i][v]].state = "succeeded" /\ Exists(i)
                 /\ row[i].jvs = dir[i][v] \/ row[i].volume # v
          BY <1>3, <2>1, <2>2, <2>4 DEF DirInv, Settled, Terminal, Exists
      <2>5. CASE op[dir[i][v]].req.type # "repo_create" \/ op[dir[i][v]].stalled
          BY <2>1, <2>5 DEF DirInv
      <2> QED
          BY <1>1, <1>3, <2>3, <2>4, <2>5 DEF DirInv
  <1> QED
      BY <1>2, <1>3

------------------------------------------------------------------------------
(* Steps that change the memory of one worker.                              *)

LEMMA WorkerMove ==
    ASSUME IndInv, NEW w \in Workers, TypeOK', UNCHANGED <<namespace, op, audited, repoVars>>,
           \A v \in Workers \ {w} : worker'[v] = worker[v],
           WorkerInv(w)', SoleWorker(w)', FenceView(w)'
    PROVE  IndInv'
  <1>0. UNCHANGED <<row, dir, fence, fences, wfence, marked>>
      BY DEF repoVars
  <1>1. OpsKeep /\ DirKeep /\ RowKeep
      BY <1>0 DEF OpsKeep, DirKeep, RowKeep, Made
  <1>2. History'
      <2>1. \A v \in Workers : WorkerInv(v)'
          BY <1>1, WorkerKept
      <2>2. ASSUME NEW i \in Ids PROVE FenceInv(i)' /\ RowInv(i)'
          <3>1. FenceInv(i) /\ RowInv(i)
              BY DEF IndInv, History
          <3> QED
              BY <1>0, <3>1 DEF FenceInv, RowInv, Made, Exists
      <2>3. \A i \in Ids, v \in Volumes : MakerInv(i, v)'
          BY <1>0, <1>1, MakerKept
      <2>4. \A o \in Ops : OperationInv(o)'
          BY OperationKept
      <2> QED
          BY <2>1, <2>2, <2>3, <2>4 DEF History
  <1>3. Clean'
      <2>1. ASSUME NEW v \in Workers PROVE SoleWorker(v)' /\ FenceView(v)'
          <3>1. CASE v = w
              BY <3>1
          <3>2. CASE v # w
              BY <1>0, <1>1, <3>2, ViewKept
          <3> QED
              BY <3>1, <3>2
      <2>2. ASSUME NEW i \in Ids PROVE FenceOpen(i)'
          BY <1>0 DEF IndInv, Clean, FenceOpen
      <2>3. ASSUME NEW i \in Ids, NEW v \in Volumes PROVE DirInv(i, v)'
          BY <1>0 DEF IndInv, Clean, DirInv, Exists
      <2> QED
          BY <2>1, <2>2, <2>3 DEF Clean
  <1> QED
      BY <1>2, <1>3 DEF IndInv

\* A worker gives its operation up, or is stopped.
LEMMA LeaveInv ==
    ASSUME IndInv, NEW w \in Workers, Leave(w), UNCHANGED <<rows, op, audited, repoVars>>,
           faults' = faults \/ (faults < MaxFaults /\ faults' = faults + 1)
    PROVE  IndInv'
  <1>1. /\ worker' \in [Workers -> WorkerRecord] /\ worker'[w] = IdleWorker
        /\ \A v \in Workers \ {w} : worker'[v] = worker[v]
      BY Left DEF IndInv, TypeOK, CatalogTypeOK
  <1>2. faults' \in 0..MaxFaults
      BY DEF IndInv, TypeOK, CatalogTypeOK
  <1>3. TypeOK' /\ UNCHANGED namespace
      BY <1>1, <1>2 DEF IndInv, TypeOK, CatalogTypeOK, rows, repoVars
  <1>4. WorkerInv(w)' /\ SoleWorker(w)' /\ FenceView(w)'
      BY <1>1, ConstantTypes DEF WorkerInv, SoleWorker, FenceView
  <1> QED
      BY <1>1, <1>2, <1>3, <1>4, WorkerMove

\* A worker goes on with its operation.
LEMMA GoOnInv ==
    ASSUME IndInv, NEW w \in Workers, worker[w].op # NoOp,
           UNCHANGED <<rows, op, audited, faults, repoVars>>,
           worker' \in [Workers -> WorkerRecord],
           \A v \in Workers \ {w} : worker'[v] = worker[v],
           worker'[w].op = worker[w].op, worker'[w].pc \notin {"idle", "depend"},
           worker'[w].pc = "succeed" /\ Req(w).type \in RepoTypes =>
               /\ worker'[w].jvs # "none"
               /\ dir[Req(w).target][worker'[w].volume] = worker'[w].jvs,
           Req(w).type = "repo_create" /\ ~op[worker[w].op].stalled /\ FenceView(w) =>
               /\ worker'[w].pc \in {"metadata", "acquire"} =>
                     (worker'[w].held = "own" <=> fence[Req(w).target] = worker[w].op)
               /\ worker'[w].pc = "storage" => fence[Req(w).target] = worker[w].op
               /\ worker'[w].pc = "fail" => fence[Req(w).target] # worker[w].op
    PROVE  IndInv'
  <1>1. TypeOK' /\ UNCHANGED namespace
      BY DEF IndInv, TypeOK, CatalogTypeOK, rows, repoVars
  <1>2. UNCHANGED <<dir, fence>> /\ Made(worker[w].op) /\ Req(w)' = Req(w)
      BY AtWork DEF repoVars, Req
  <1>3. WorkerInv(w)'
      BY <1>2 DEF WorkerInv, Made
  <1>4. SoleWorker(w)' /\ FenceView(w)'
      <2>1. SoleWorker(w) /\ FenceView(w)
          BY DEF IndInv, Clean
      <2>2. SoleWorker(w)'
          BY <2>1 DEF SoleWorker, Owns
      <2>3. FenceView(w)'
          BY <1>2, <2>1 DEF FenceView
      <2> QED
          BY <2>2, <2>3
  <1> QED
      BY <1>1, <1>3, <1>4, WorkerMove

\* The reads and decisions of the executors.
LEMMA ReadingInv ==
    ASSUME IndInv, NEW w \in Workers, worker[w].op # NoOp,
           \/ /\ Req(w).type = "repo_create"
              /\ ListHeldFences(w) \/ LoadMetadata(w) \/ RepoCreateRefused(w)
           \/ /\ Req(w).type = "template_create"
              /\ \/ ValidateSource(w) \/ CheckWriterSessions(w) \/ SaveSource(w)
                 \/ MarkRefused(w) \/ TemplateRefused(w)
           \/ Req(w).type = "template_clone" /\ (ValidateTemplate(w) \/ TemplateRefused(w))
           \/ /\ \/ ReadDependencies(w) \/ BindingRefused(w)
                 \/ \E types \in SUBSET CatalogTypes : CatalogRefused(w, types)
              /\ UNCHANGED repoVars
    PROVE  IndInv'
  <1>0. /\ worker \in [Workers -> WorkerRecord] /\ worker[w] \in WorkerRecord
        /\ binding.volume \in Volumes
      BY DEF IndInv, TypeOK, CatalogTypeOK
  <1>1. CASE RepoCreateRefused(w) \/ MarkRefused(w) \/ TemplateRefused(w)
      <2>1. Leave(w) /\ UNCHANGED <<rows, op, audited, faults, repoVars>>
          BY <1>1 DEF RepoCreateRefused, MarkRefused, TemplateRefused
      <2> QED
          BY <2>1, LeaveInv
  <1>2. CASE ListHeldFences(w) /\ Req(w).type = "repo_create"
      <2> DEFINE h == CASE fence[Req(w).target] = NoOp -> "none"
                        [] fence[Req(w).target] = worker[w].op -> "own"
                        [] OTHER -> "other"
      <2>1. UNCHANGED <<rows, op, audited, faults, repoVars>>
          BY <1>2 DEF ListHeldFences
      <2>2. worker' = [worker EXCEPT ![w].pc = "metadata", ![w].held = h]
          BY <1>2 DEF ListHeldFences
      <2>3. h \in {"none", "own", "other"} /\ (h = "own" <=> fence[Req(w).target] = worker[w].op)
          OBVIOUS
      <2> HIDE DEF h
      <2>4. /\ worker' \in [Workers -> WorkerRecord]
            /\ worker'[w].pc = "metadata" /\ worker'[w].op = worker[w].op /\ worker'[w].held = h
            /\ \A v \in Workers \ {w} : worker'[v] = worker[v]
          BY <1>0, <2>2, <2>3 DEF WorkerRecord, Steps
      <2> QED
          BY <2>1, <2>3, <2>4, GoOnInv
  <1>3. CASE LoadMetadata(w) /\ Req(w).type = "repo_create"
      <2>1. UNCHANGED <<rows, op, audited, faults, repoVars>> /\ worker[w].pc = "metadata"
          BY <1>3 DEF LoadMetadata, AtStep
      <2>2. CASE worker' = [worker EXCEPT ![w].pc = "acquire", ![w].volume = binding.volume]
          <3>1. /\ worker' \in [Workers -> WorkerRecord]
                /\ worker'[w].pc = "acquire" /\ worker'[w].op = worker[w].op
                /\ worker'[w].held = worker[w].held
                /\ \A v \in Workers \ {w} : worker'[v] = worker[v]
              BY <1>0, <2>2 DEF WorkerRecord, Steps
          <3> QED
              BY <2>1, <3>1, GoOnInv DEF FenceView
      <2>3. CASE Goto(w, IF worker[w].held = "own" THEN "intervene" ELSE "fail")
          <3> DEFINE pc == IF worker[w].held = "own" THEN "intervene" ELSE "fail"
          <3>1. pc \in Steps /\ pc \in {"intervene", "fail"} /\ (pc = "fail" <=> worker[w].held # "own")
              BY DEF Steps
          <3> HIDE DEF pc
          <3>2. /\ worker' \in [Workers -> WorkerRecord]
                /\ worker'[w].pc = pc /\ worker'[w].op = worker[w].op
                /\ \A v \in Workers \ {w} : worker'[v] = worker[v]
              BY <1>0, <2>3, <3>1, GoneTo DEF pc
          <3> QED
              BY <1>3, <2>1, <3>1, <3>2, GoOnInv DEF FenceView
      <2> QED
          BY <1>3, <2>2, <2>3 DEF LoadMetadata
  <1>4. ASSUME NEW pc \in {"fail", "save", "clone", "intervene"}, Goto(w, pc),
               Req(w).type \in {"template_create", "template_clone"},
               UNCHANGED <<rows, op, audited, faults, repoVars>>
        PROVE  IndInv'
      <2>1. /\ worker' \in [Workers -> WorkerRecord]
            /\ worker'[w].pc = pc /\ worker'[w].op = worker[w].op
            /\ \A v \in Workers \ {w} : worker'[v] = worker[v]
          BY <1>0, <1>4, GoneTo DEF Steps
      <2> QED
          BY <1>4, <2>1, GoOnInv
  <1>5. CASE ValidateSource(w) /\ Req(w).type = "template_create"
      <2> DEFINE pc == IF NamesFence(w) THEN "sessions" ELSE "mark"
      <2>1. UNCHANGED <<rows, op, audited, faults, repoVars>>
          BY <1>5 DEF ValidateSource
      <2>2. CASE worker' = [worker EXCEPT ![w].pc = pc, ![w].volume = binding.volume]
          <3>1. pc \in {"sessions", "mark"}
              OBVIOUS
          <3>2. worker' = [worker EXCEPT ![w].pc = pc, ![w].volume = binding.volume]
              BY <2>2
          <3> HIDE DEF pc
          <3>3. /\ worker' \in [Workers -> WorkerRecord]
                /\ worker'[w].pc = pc /\ worker'[w].op = worker[w].op
                /\ \A v \in Workers \ {w} : worker'[v] = worker[v]
              BY <1>0, <3>1, <3>2 DEF WorkerRecord, Steps
          <3> QED
              BY <1>5, <2>1, <3>1, <3>3, GoOnInv
      <2>3. CASE Goto(w, "fail")
          BY <1>4, <1>5, <2>1, <2>3
      <2> QED
          BY <1>5, <2>2, <2>3 DEF ValidateSource
  <1>6. CASE CheckWriterSessions(w) /\ Req(w).type = "template_create"
      BY <1>4, <1>6 DEF CheckWriterSessions
  <1>7. CASE SaveSource(w) /\ Req(w).type = "template_create"
      BY <1>4, <1>7 DEF SaveSource
  <1>8. CASE ValidateTemplate(w) /\ Req(w).type = "template_clone"
      <2>1. UNCHANGED <<rows, op, audited, faults, repoVars>>
          BY <1>8 DEF ValidateTemplate
      <2>2. CASE worker' = [worker EXCEPT ![w].pc = "clone", ![w].volume = binding.volume]
          <3>1. /\ worker' \in [Workers -> WorkerRecord]
                /\ worker'[w].pc = "clone" /\ worker'[w].op = worker[w].op
                /\ \A v \in Workers \ {w} : worker'[v] = worker[v]
              BY <1>0, <2>2 DEF WorkerRecord, Steps
          <3> QED
              BY <1>8, <2>1, <3>1, GoOnInv
      <2>3. CASE Goto(w, "fail")
          BY <1>4, <1>8, <2>1, <2>3
      <2> QED
          BY <1>8, <2>2, <2>3 DEF ValidateTemplate
  <1>9. CASE ReadDependencies(w) /\ UNCHANGED repoVars
      <2> DEFINE pc == IF BindingDependencies(Req(w).volume) THEN "succeed" ELSE "fail"
      <2>1. UNCHANGED <<rows, op, audited, faults>> /\ worker[w].pc = "depend" /\ Goto(w, pc)
          BY <1>9 DEF ReadDependencies, AtStep
      <2>2. pc \in {"succeed", "fail"}
          OBVIOUS
      <2> HIDE DEF pc
      <2>3. Req(w).type \notin RepoTypes /\ Req(w).type # "repo_create"
          BY <2>1 DEF IndInv, History, WorkerInv, RepoTypes
      <2>4. /\ worker' \in [Workers -> WorkerRecord]
            /\ worker'[w].pc = pc /\ worker'[w].op = worker[w].op
            /\ \A v \in Workers \ {w} : worker'[v] = worker[v]
          BY <1>0, <2>1, <2>2, GoneTo DEF Steps
      <2> QED
          BY <1>9, <2>1, <2>2, <2>3, <2>4, GoOnInv
  <1>10. CASE /\ BindingRefused(w) \/ \E types \in SUBSET CatalogTypes : CatalogRefused(w, types)
              /\ UNCHANGED repoVars
      <2>1. Leave(w) /\ UNCHANGED <<rows, op, audited, faults>>
          BY <1>10 DEF BindingRefused, CatalogRefused
      <2> QED
          BY <1>10, <2>1, LeaveInv
  <1> QED
      BY <1>1, <1>2, <1>3, <1>5, <1>6, <1>7, <1>8, <1>9, <1>10

------------------------------------------------------------------------------
(* Fences and directories.                                                  *)

\* The fence row of a repo_create.
LEMMA AcquireFenceInv ==
    ASSUME IndInv, NEW w \in Workers, worker[w].op # NoOp, Req(w).type = "repo_create",
           AcquireFence(w)
    PROVE  IndInv'
  <1> DEFINE o == worker[w].op
             i == Req(w).target
  <1>0. /\ worker \in [Workers -> WorkerRecord] /\ worker[w] \in WorkerRecord
        /\ fence \in [Ids -> Ops \cup {NoOp}] /\ TypeOK
      BY DEF IndInv, TypeOK, CatalogTypeOK
  <1>1. o \in Ops /\ Made(o) /\ i \in Ids /\ worker[w].pc = "acquire"
      BY AtWork DEF RepoTypes, AcquireFence, AtStep
  <1>2. UNCHANGED <<rows, op, audited, faults, row, dir, wfence, marked>>
      BY DEF AcquireFence
  <1>3. CASE worker[w].held = "own" /\ Goto(w, "storage") /\ UNCHANGED <<fence, fences>>
      <2>1. /\ worker' \in [Workers -> WorkerRecord]
            /\ worker'[w].pc = "storage" /\ worker'[w].op = worker[w].op
            /\ \A v \in Workers \ {w} : worker'[v] = worker[v]
          BY <1>0, <1>3, GoneTo DEF Steps
      <2> QED
          BY <1>1, <1>2, <1>3, <2>1, GoOnInv DEF FenceView, repoVars
  <1>4. CASE worker[w].held = "other" /\ Goto(w, "fail") /\ UNCHANGED <<fence, fences>>
      <2>1. /\ worker' \in [Workers -> WorkerRecord]
            /\ worker'[w].pc = "fail" /\ worker'[w].op = worker[w].op
            /\ \A v \in Workers \ {w} : worker'[v] = worker[v]
          BY <1>0, <1>4, GoneTo DEF Steps
      <2> QED
          BY <1>1, <1>2, <1>4, <2>1, GoOnInv DEF FenceView, repoVars
  <1>5. CASE Leave(w) /\ UNCHANGED <<fence, fences>>
      BY <1>2, <1>5, LeaveInv DEF repoVars
  <1>6. CASE /\ worker[w].held = "none" /\ ~FenceRowConflicts(o, i)
             /\ fence' = [fence EXCEPT ![i] = o]
             /\ fences' = fences \cup {o}
             /\ Goto(w, "storage")
      <2>1. /\ worker' \in [Workers -> WorkerRecord]
            /\ worker'[w].pc = "storage" /\ worker'[w].op = o
            /\ \A v \in Workers \ {w} : worker'[v] = worker[v]
          BY <1>0, <1>6, GoneTo DEF Steps
      <2>2. fence[i] = NoOp /\ fence'[i] = o /\ \A j \in Ids \ {i} : fence'[j] = fence[j]
          BY <1>0, <1>1, <1>6 DEF FenceRowConflicts
      <2>3. TypeOK'
          BY <1>0, <1>1, <1>2, <1>6, <2>1 DEF TypeOK, CatalogTypeOK, rows
      <2>4. OpsKeep /\ DirKeep /\ RowKeep
          BY <1>2 DEF OpsKeep, DirKeep, RowKeep, Made
      <2>5. History'
          <3>1. ASSUME NEW v \in Workers PROVE WorkerInv(v)'
              <4>1. CASE v = w
                  BY <1>1, <1>2, <2>1, <4>1 DEF WorkerInv, Made
              <4>2. CASE v # w
                  BY <2>1, <2>4, <4>2, WorkerKept
              <4> QED
                  BY <4>1, <4>2
          <3>2. ASSUME NEW j \in Ids PROVE FenceInv(j)' /\ RowInv(j)'
              <4>1. FenceInv(j) /\ RowInv(j)
                  BY DEF IndInv, History
              <4>2. RowInv(j)'
                  BY <1>2, <4>1 DEF RowInv, Exists
              <4>3. CASE j # i
                  BY <1>2, <2>2, <4>1, <4>2, <4>3 DEF FenceInv, Made
              <4>4. CASE j = i
                  BY <1>1, <1>2, <2>2, <4>1, <4>2, <4>4 DEF FenceInv, Made, Req
              <4> QED
                  BY <4>3, <4>4
          <3>3. \A j \in Ids, v \in Volumes : MakerInv(j, v)'
              BY <1>2, <2>4, MakerKept
          <3>4. \A p \in Ops : OperationInv(p)'
              BY <1>2, OperationKept
          <3> QED
              BY <3>1, <3>2, <3>3, <3>4 DEF History
      <2>6. Clean'
          <3>0. SoleWorker(w)
              BY DEF IndInv, Clean
          <3>1. ASSUME NEW v \in Workers PROVE SoleWorker(v)' /\ FenceView(v)'
              <4>1. CASE v = w
                  <5>1. SoleWorker(w)'
                      BY <1>2, <2>1, <3>0 DEF SoleWorker, Owns
                  <5>2. Req(w)' = Req(w)
                      BY <1>2, <2>1 DEF Req
                  <5> QED
                      BY <2>1, <2>2, <4>1, <5>1, <5>2 DEF FenceView
              <4>2. CASE v # w
                  <5>1. \A k \in Ids, p \in Ops \ {o} : fence'[k] = p <=> fence[k] = p
                      BY <2>2
                  <5> QED
                      BY <1>2, <2>1, <2>4, <4>2, <5>1, ViewOfOthers
              <4> QED
                  BY <4>1, <4>2
          <3>2. ASSUME NEW j \in Ids PROVE FenceOpen(j)'
              <4>1. FenceOpen(j) /\ (op[o].state = "running" \/ op[o].stalled)
                  BY <3>0 DEF IndInv, Clean, SoleWorker, Owns
              <4> QED
                  BY <1>2, <2>2, <4>1 DEF FenceOpen, Terminal
          <3>3. ASSUME NEW j \in Ids, NEW v \in Volumes PROVE DirInv(j, v)'
              <4>1. fence[j] = dir[j][v] /\ dir[j][v] \in Ops => j # i
                  BY <2>2
              <4> QED
                  BY <1>2, <2>2, <2>4, <4>1, DirKept
          <3> QED
              BY <3>1, <3>2, <3>3 DEF Clean
      <2> QED
          BY <2>3, <2>5, <2>6 DEF IndInv
  <1> QED
      BY <1>3, <1>4, <1>5, <1>6 DEF AcquireFence

\* JVS makes a directory where there was none.
LEMMA MakeInv ==
    ASSUME IndInv, NEW w \in Workers, worker[w].op # NoOp,
           \/ Req(w).type = "repo_create" /\ worker[w].pc = "storage"
           \/ Req(w).type \in {"template_create", "template_clone"},
           MakeDirectory(w, Req(w).target),
           \/ worker' = [worker EXCEPT ![w].pc = "succeed", ![w].jvs = worker[w].op]
           \/ Goto(w, "intervene"),
           UNCHANGED <<rows, op, audited, faults, row, fence, fences, wfence, marked>>
    PROVE  IndInv'
  <1> DEFINE o == worker[w].op
             i == Req(w).target
             x == worker[w].volume
  <1>0. /\ worker \in [Workers -> WorkerRecord] /\ worker[w] \in WorkerRecord
        /\ dir \in [Ids -> [Volumes -> Makers]] /\ TypeOK /\ x \in Volumes
      BY DEF IndInv, TypeOK, CatalogTypeOK, WorkerRecord
  <1>1. o \in Ops /\ Made(o) /\ i \in Ids
      BY AtWork DEF RepoTypes
  <1>2. dir[i][x] = "none" /\ dir' = [dir EXCEPT ![i][x] = o]
      BY DEF MakeDirectory
  <1>3. /\ dir' \in [Ids -> [Volumes -> Makers]] /\ dir'[i][x] = o
        /\ \A j \in Ids, v \in Volumes : ~(j = i /\ v = x) => dir'[j][v] = dir[j][v]
      BY <1>0, <1>1, <1>2 DEF Makers
  <1>4. /\ worker' \in [Workers -> WorkerRecord]
        /\ worker'[w].pc = "intervene" \/ (worker'[w].pc = "succeed" /\ worker'[w].jvs = o)
        /\ worker'[w].op = o /\ worker'[w].volume = x
        /\ \A v \in Workers \ {w} : worker'[v] = worker[v]
      <2>1. CASE Goto(w, "intervene")
          BY <1>0, <2>1, GoneTo DEF Steps
      <2>2. CASE worker' = [worker EXCEPT ![w].pc = "succeed", ![w].jvs = o]
          BY <1>0, <1>1, <2>2 DEF WorkerRecord, Steps
      <2> QED
          BY <2>1, <2>2
  <1>5. TypeOK'
      BY <1>0, <1>3, <1>4 DEF TypeOK, CatalogTypeOK, rows
  <1>6. OpsKeep /\ DirKeep /\ RowKeep
      BY <1>2, <1>3 DEF OpsKeep, DirKeep, RowKeep, Made
  <1>7. Req(w)' = Req(w)
      BY <1>4 DEF Req
  <1>8. History'
      <2>1. ASSUME NEW v \in Workers PROVE WorkerInv(v)'
          <3>1. CASE v = w
              BY <1>1, <1>3, <1>4, <1>7, <3>1 DEF WorkerInv, Made
          <3>2. CASE v # w
              BY <1>4, <1>6, <3>2, WorkerKept
          <3> QED
              BY <3>1, <3>2
      <2>2. ASSUME NEW j \in Ids PROVE FenceInv(j)' /\ RowInv(j)'
          <3>1. FenceInv(j)
              BY DEF IndInv, History
          <3>2. FenceInv(j)'
              BY <3>1 DEF FenceInv, Made
          <3> QED
              BY <1>6, <3>2, RowKept
      <2>3. ASSUME NEW j \in Ids, NEW v \in Volumes PROVE MakerInv(j, v)'
          <3>1. CASE j = i /\ v = x
              BY <1>1, <1>3, <3>1 DEF MakerInv, Made, Req
          <3>2. CASE ~(j = i /\ v = x)
              BY <1>3, <1>6, <3>2, MakerKept
          <3> QED
              BY <3>1, <3>2
      <2>4. \A p \in Ops : OperationInv(p)'
          BY OperationKept
      <2> QED
          BY <2>1, <2>2, <2>3, <2>4 DEF History
  <1>9. Clean'
      <2>0. SoleWorker(w) /\ FenceView(w)
          BY DEF IndInv, Clean
      <2>1. ASSUME NEW v \in Workers PROVE SoleWorker(v)' /\ FenceView(v)'
          <3>1. CASE v = w
              BY <1>4, <2>0, <3>1 DEF SoleWorker, Owns, FenceView
          <3>2. CASE v # w
              BY <1>4, <1>6, <3>2, ViewKept
          <3> QED
              BY <3>1, <3>2
      <2>2. ASSUME NEW j \in Ids PROVE FenceOpen(j)'
          BY DEF IndInv, Clean, FenceOpen
      <2>3. ASSUME NEW j \in Ids, NEW v \in Volumes PROVE DirInv(j, v)'
          <3>1. CASE j = i /\ v = x
              <4>1. op[o].state = "running" \/ op[o].stalled
                  BY <2>0 DEF SoleWorker, Owns
              <4>2. op[o].req.type = "repo_create" /\ ~op[o].stalled => fence[i] = o
                  BY <2>0 DEF FenceView, Req
              <4> QED
                  BY <1>3, <3>1, <4>1, <4>2 DEF DirInv
          <3>2. CASE ~(j = i /\ v = x)
              BY <1>3, <1>6, <3>2, DirKept
          <3> QED
              BY <3>1, <3>2
      <2> QED
          BY <2>1, <2>2, <2>3 DEF Clean
  <1> QED
      BY <1>5, <1>8, <1>9 DEF IndInv

\* Storage: adopted, made, or left to the operator.
LEMMA StorageInv ==
    ASSUME IndInv, NEW w \in Workers, worker[w].op # NoOp,
           \/ Req(w).type = "repo_create" /\ CreateStorage(w)
           \/ Req(w).type \in {"template_create", "template_clone"} /\ Clone(w)
    PROVE  IndInv'
  <1> DEFINE i == Req(w).target
             x == worker[w].volume
  <1>0. /\ worker \in [Workers -> WorkerRecord] /\ worker[w] \in WorkerRecord
        /\ dir \in [Ids -> [Volumes -> Makers]] /\ x \in Volumes
      BY DEF IndInv, TypeOK, CatalogTypeOK, WorkerRecord
  <1>1. worker[w].op \in Ops /\ i \in Ids
      BY AtWork DEF RepoTypes
  <1>2. UNCHANGED <<rows, op, audited, faults, row, fence, fences, wfence, marked>>
      BY DEF CreateStorage, Clone
  <1>3. \/ Req(w).type = "repo_create" /\ worker[w].pc = "storage"
        \/ Req(w).type \in {"template_create", "template_clone"}
      BY DEF CreateStorage, Clone, AtStep
  <1>4. CASE Goto(w, "intervene") /\ UNCHANGED dir
      <2>1. /\ worker' \in [Workers -> WorkerRecord]
            /\ worker'[w].pc = "intervene" /\ worker'[w].op = worker[w].op
            /\ \A v \in Workers \ {w} : worker'[v] = worker[v]
          BY <1>0, <1>4, GoneTo DEF Steps
      <2> QED
          BY <1>2, <1>4, <2>1, GoOnInv DEF repoVars
  <1>5. CASE FoundDirectory(w, i) /\ UNCHANGED dir
      <2>1. dir[i][x] \in Makers /\ dir[i][x] # "none"
          BY <1>0, <1>1, <1>5 DEF FoundDirectory
      <2>2. worker' = [worker EXCEPT ![w].pc = "succeed", ![w].jvs = dir[i][x]]
          BY <1>5 DEF FoundDirectory
      <2>3. /\ worker' \in [Workers -> WorkerRecord]
            /\ worker'[w].pc = "succeed" /\ worker'[w].op = worker[w].op
            /\ worker'[w].jvs = dir[i][x] /\ worker'[w].volume = x
            /\ \A v \in Workers \ {w} : worker'[v] = worker[v]
          BY <1>0, <2>1, <2>2 DEF WorkerRecord, Steps, Makers
      <2> QED
          BY <1>2, <1>5, <2>1, <2>3, GoOnInv DEF repoVars
  <1>6. CASE /\ MakeDirectory(w, i)
             /\ \/ worker' = [worker EXCEPT ![w].pc = "succeed", ![w].jvs = worker[w].op]
                \/ Goto(w, "intervene")
      BY <1>2, <1>3, <1>6, MakeInv
  <1> QED
      BY <1>4, <1>5, <1>6 DEF CreateStorage, Clone

\* The writer fence of a template_create.
LEMMA MarkInv ==
    ASSUME IndInv, NEW w \in Workers, worker[w].op # NoOp, Req(w).type = "template_create",
           MarkWriterFenced(w)
    PROVE  IndInv'
  <1> DEFINE o == worker[w].op
             s == Req(w).source
  <1>0. /\ worker \in [Workers -> WorkerRecord] /\ TypeOK
        /\ wfence \in [Ids -> Ops \cup {NoOp}]
      BY DEF IndInv, TypeOK, CatalogTypeOK
  <1>1. o \in Ops /\ Made(o) /\ s \in Ids /\ op[o].state = "running"
      BY AtWork DEF MarkWriterFenced, MarkAllowed, Owns
  <1>2. /\ UNCHANGED <<rows, op, audited, faults, row, dir, fence>>
        /\ wfence' = [wfence EXCEPT ![s] = o]
        /\ fences' = fences \cup {o} /\ marked' = marked \cup {o} /\ Goto(w, "sessions")
      BY DEF MarkWriterFenced
  <1>3. /\ worker' \in [Workers -> WorkerRecord]
        /\ worker'[w].pc = "sessions" /\ worker'[w].op = o
        /\ \A v \in Workers \ {w} : worker'[v] = worker[v]
      BY <1>0, <1>2, GoneTo DEF Steps
  <1>4. wfence'[s] = o /\ \A j \in Ids \ {s} : wfence'[j] = wfence[j]
      BY <1>0, <1>1, <1>2
  <1>5. TypeOK'
      BY <1>0, <1>1, <1>2, <1>3 DEF TypeOK, CatalogTypeOK, rows
  <1>6. OpsKeep /\ DirKeep /\ RowKeep
      BY <1>2 DEF OpsKeep, DirKeep, RowKeep, Made
  <1>7. Req(w)' = Req(w)
      BY <1>2, <1>3 DEF Req
  <1>8. History'
      <2>1. ASSUME NEW v \in Workers PROVE WorkerInv(v)'
          <3>1. CASE v = w
              BY <1>1, <1>2, <1>3, <3>1 DEF WorkerInv, Made
          <3>2. CASE v # w
              BY <1>3, <1>6, <3>2, WorkerKept
          <3> QED
              BY <3>1, <3>2
      <2>2. ASSUME NEW j \in Ids PROVE FenceInv(j)' /\ RowInv(j)'
          <3>1. FenceInv(j) /\ RowInv(j)
              BY DEF IndInv, History
          <3>2. RowInv(j)'
              BY <1>2, <3>1 DEF RowInv, Exists
          <3>3. CASE j # s
              BY <1>2, <1>4, <3>1, <3>2, <3>3 DEF FenceInv, Made
          <3>4. CASE j = s
              <4>1. op'[o] = op[o] /\ op[o].req.source = s /\ o \in marked' /\ o # NoOp
                    /\ op[o].req.type = "template_create"
                  BY <1>1, <1>2 DEF Req
              <4>2. wfence'[j] = o /\ fence'[j] = fence[j] /\ op' = op
                  BY <1>2, <1>4, <3>4
              <4> HIDE DEF o, s
              <4>3. op'[o].state \notin Terminal
                  BY <1>1, <4>1 DEF Terminal
              <4> QED
                  BY <1>1, <3>1, <3>2, <3>4, <4>1, <4>2, <4>3 DEF FenceInv, Made
          <3> QED
              BY <3>3, <3>4
      <2>3. \A j \in Ids, v \in Volumes : MakerInv(j, v)'
          BY <1>2, <1>6, MakerKept
      <2>4. \A p \in Ops : OperationInv(p)'
          BY <1>2, OperationKept
      <2> QED
          BY <2>1, <2>2, <2>3, <2>4 DEF History
  <1>9. Clean'
      <2>0. SoleWorker(w)
          BY DEF IndInv, Clean
      <2>1. ASSUME NEW v \in Workers PROVE SoleWorker(v)' /\ FenceView(v)'
          <3>1. CASE v = w
              BY <1>2, <1>3, <1>7, <2>0, <3>1 DEF SoleWorker, Owns, FenceView
          <3>2. CASE v # w
              BY <1>2, <1>3, <1>6, <3>2, ViewKept
          <3> QED
              BY <3>1, <3>2
      <2>2. ASSUME NEW j \in Ids PROVE FenceOpen(j)'
          BY <1>2 DEF IndInv, Clean, FenceOpen
      <2>3. ASSUME NEW j \in Ids, NEW v \in Volumes PROVE DirInv(j, v)'
          BY <1>2 DEF IndInv, Clean, DirInv, Exists
      <2> QED
          BY <2>1, <2>2, <2>3 DEF Clean
  <1> QED
      BY <1>5, <1>8, <1>9 DEF IndInv
------------------------------------------------------------------------------
(* The end of an operation.                                                 *)

LEMMA EndedOps ==
    ASSUME op \in [Ops -> OperationRecord], NEW o \in Ops, NEW state \in Settled,
           op' = Ended(o, state)
    PROVE  /\ op' \in [Ops -> OperationRecord]
           /\ op'[o].state = state /\ op'[o].req = op[o].req
           /\ op'[o].stalled = op[o].stalled
           /\ \A p \in Ops \ {o} : op'[p] = op[p]
  <1> DEFINE r == [op[o] EXCEPT !.state = state, !.lease = "none", !.owner = NoOwner]
  <1>1. op[o] \in OperationRecord
      OBVIOUS
  <1>2. r \in OperationRecord /\ r.state = state /\ r.req = op[o].req
        /\ r.stalled = op[o].stalled
      BY <1>1 DEF OperationRecord
  <1>3. op' = [op EXCEPT ![o] = r]
      BY DEF Ended
  <1> HIDE DEF r
  <1> QED
      BY <1>2, <1>3

LEMMA EndedKeep ==
    ASSUME IndInv, NEW w \in Workers, worker[w].op # NoOp, NEW state \in Settled, Owns(w),
           op' = Ended(worker[w].op, state)
    PROVE  OpsKeep
  <1> DEFINE o == worker[w].op
  <1>1. op \in [Ops -> OperationRecord] /\ o \in Ops /\ op[o].state = "running"
      BY AtWork DEF IndInv, TypeOK, CatalogTypeOK, Owns
  <1>2. /\ op'[o].state = state /\ op'[o].req = op[o].req
        /\ op'[o].stalled = op[o].stalled
        /\ \A p \in Ops \ {o} : op'[p] = op[p]
      BY <1>1, EndedOps
  <1>3. ASSUME NEW p \in Ops, Made(p)
        PROVE  /\ op'[p].req = op[p].req /\ op'[p].state # "absent"
               /\ op[p].state \in Settled => op'[p].state = op[p].state
               /\ op[p].stalled => op'[p].stalled
      <2>1. CASE p = o
          BY <1>1, <1>2, <2>1 DEF Settled, Terminal
      <2>2. CASE p # o
          BY <1>2, <1>3, <2>2 DEF Made
      <2> QED
          BY <2>1, <2>2
  <1> QED
      BY <1>3 DEF OpsKeep

RowsOK ==
    /\ namespace \in {"absent", "active", "disabled"}
    /\ binding \in [volume: Volumes, status: {"absent", "active", "disabled"}]
    /\ volume \in [Volumes -> {"absent"} \cup VolumeStatuses]
    /\ session \in {"none", "active", "ending"}

\* What every statement that ends an operation keeps to: the writer fence, and
\* for an operation that has not stalled the lifecycle fence and the directory.
LEMMA EndInv ==
    ASSUME IndInv, NEW w \in Workers, worker[w].op # NoOp, NEW state \in Settled,
           Owns(w), op' = Ended(worker[w].op, state), Leave(w), RowsOK',
           row' \in [Ids -> Row], fence' \in [Ids -> Ops \cup {NoOp}],
           wfence' \in [Ids -> Ops \cup {NoOp}],
           UNCHANGED <<dir, fences, marked, faults>>,
           audited' \subseteq audited \cup {worker[w].op},
           RowKeep, \A i \in Ids : RowInv(i)',
           \A i \in Ids : /\ fence'[i] \in {fence[i], NoOp} /\ wfence'[i] \in {wfence[i], NoOp}
                          /\ state \in Terminal => wfence'[i] # worker[w].op
                          /\ fence[i] # worker[w].op => fence'[i] = fence[i],
           ~op[worker[w].op].stalled =>
             \A i \in Ids :
                /\ fence[i] = worker[w].op /\ state # "succeeded" =>
                      state = "operator_intervention_required" /\ fence'[i] = fence[i]
                /\ fence[i] = worker[w].op /\ state = "succeeded" =>
                      /\ fence'[i] = NoOp /\ Exists(i)'
                      /\ \A v \in Volumes : dir[i][v] = worker[w].op =>
                            row'[i].jvs = worker[w].op \/ row'[i].volume # v
    PROVE  IndInv'
  <1> DEFINE o == worker[w].op
  <1>0. TypeOK
      BY DEF IndInv
  <1>1. o \in Ops /\ Made(o) /\ op[o].req \in Requests
      BY AtWork DEF Req
  <1>2. op[o].state = "running"
      BY DEF Owns
  <1>3. /\ op' \in [Ops -> OperationRecord]
        /\ op'[o].state = state /\ op'[o].req = op[o].req
        /\ op'[o].stalled = op[o].stalled
        /\ \A p \in Ops \ {o} : op'[p] = op[p]
      BY <1>0, <1>1, EndedOps DEF TypeOK, CatalogTypeOK
  <1>4. /\ worker' \in [Workers -> WorkerRecord] /\ worker'[w] = IdleWorker
        /\ \A v \in Workers \ {w} : worker'[v] = worker[v]
      BY <1>0, Left DEF TypeOK, CatalogTypeOK
  <1>5. TypeOK'
      <2>1. audited' \subseteq Ops
          BY <1>0, <1>1 DEF TypeOK, CatalogTypeOK
      <2> QED
          BY <1>0, <1>3, <1>4, <2>1 DEF TypeOK, CatalogTypeOK, RowsOK
  <1>6. OpsKeep /\ DirKeep
      BY EndedKeep DEF DirKeep
  <1>7. History'
      <2>1. ASSUME NEW v \in Workers PROVE WorkerInv(v)'
          <3>1. CASE v = w
              BY <1>4, <3>1, ConstantTypes DEF WorkerInv
          <3>2. CASE v # w
              BY <1>4, <1>6, <3>2, WorkerKept
          <3> QED
              BY <3>1, <3>2
      <2>2. ASSUME NEW i \in Ids PROVE FenceInv(i)' /\ RowInv(i)'
          <3>1. FenceInv(i) /\ wfence[i] \in Ops \cup {NoOp}
              BY <1>0 DEF IndInv, History, TypeOK
          <3>2. ASSUME wfence'[i] # NoOp PROVE op'[wfence[i]].state \notin Terminal
              <4>1. wfence[i] # NoOp /\ wfence'[i] = wfence[i] /\ wfence[i] \in Ops
                    /\ op[wfence[i]].state \notin Terminal
                  BY <3>1, <3>2 DEF FenceInv
              <4>2. CASE wfence[i] = o
                  BY <1>3, <4>1, <4>2
              <4>3. CASE wfence[i] # o
                  BY <1>3, <4>1, <4>3
              <4> QED
                  BY <4>2, <4>3
          <3>3. FenceInv(i)'
              BY <1>6, <3>2, FenceKept
          <3> QED
              BY <3>3
      <2>3. \A i \in Ids, v \in Volumes : MakerInv(i, v)'
          BY <1>6, MakerKept
      <2>4. ASSUME NEW p \in Ops PROVE OperationInv(p)'
          <3>1. CASE p = o
              BY <1>1, <1>3, <3>1 DEF OperationInv, Req
          <3>2. CASE p # o
              BY <1>3, <3>2, OperationKept
          <3> QED
              BY <3>1, <3>2
      <2> QED
          BY <2>1, <2>2, <2>3, <2>4 DEF History
  <1>8. Clean'
      <2>1. ASSUME NEW v \in Workers PROVE SoleWorker(v)' /\ FenceView(v)'
          <3>1. CASE v = w
              BY <1>4, <3>1, ConstantTypes DEF SoleWorker, FenceView
          <3>2. CASE v # w
              <4>1. \A i \in Ids, p \in Ops \ {o} : fence'[i] = p <=> fence[i] = p
                  OBVIOUS
              <4> QED
                  BY <1>3, <1>4, <1>6, <3>2, <4>1, ViewOfOthers
          <3> QED
              BY <3>1, <3>2
      <2>2. ASSUME NEW i \in Ids PROVE FenceOpen(i)'
          <3>1. FenceOpen(i) /\ fence[i] \in Ops \cup {NoOp}
              BY <1>0 DEF IndInv, Clean, TypeOK
          <3>2. CASE fence'[i] = NoOp
              BY <3>2 DEF FenceOpen
          <3>3. CASE fence[i] = o /\ fence'[i] # NoOp
              <4>1. fence'[i] = o /\ (state \notin Terminal \/ op'[o].stalled)
                  BY <1>3, <3>3 DEF Terminal
              <4> HIDE DEF o
              <4> QED
                  BY <1>3, <4>1 DEF FenceOpen
          <3>4. CASE fence[i] # o
              <4>1. fence'[i] = fence[i] /\ (fence[i] # NoOp => op'[fence[i]] = op[fence[i]])
                  BY <1>3, <3>1, <3>4
              <4> QED
                  BY <3>1, <4>1 DEF FenceOpen
          <3> QED
              BY <3>2, <3>3, <3>4
      <2>3. ASSUME NEW i \in Ids, NEW v \in Volumes PROVE DirInv(i, v)'
          <3>1. CASE dir[i][v] = o /\ state = "succeeded"
              <4>1. DirInv(i, v)
                  BY DEF IndInv, Clean
              <4>2. CASE op[o].req.type # "repo_create" \/ op[o].stalled
                  BY <1>3, <3>1, <4>2 DEF DirInv
              <4>3. CASE op[o].req.type = "repo_create" /\ ~op[o].stalled
                  <5>1. fence[i] = o
                      BY <1>1, <1>2, <3>1, <4>1, <4>3 DEF DirInv
                  <5>2. Exists(i)' /\ (row'[i].jvs = o \/ row'[i].volume # v)
                      BY <3>1, <4>3, <5>1
                  <5> HIDE DEF o
                  <5>3. dir'[i][v] = o /\ op'[o].state = "succeeded"
                      BY <1>3, <3>1
                  <5> QED
                      BY <5>2, <5>3 DEF DirInv
              <4> QED
                  BY <4>2, <4>3
          <3>2. CASE dir[i][v] = o /\ state # "succeeded"
              BY <1>3, <1>6, <3>2, DirKept
          <3>3. CASE dir[i][v] # o
              BY <1>3, <1>6, <3>3, DirKept
          <3> QED
              BY <3>1, <3>2, <3>3
      <2> QED
          BY <2>1, <2>2, <2>3 DEF Clean
  <1> QED
      BY <1>5, <1>7, <1>8 DEF IndInv
\* An end that changes no fence, row or directory of a repo.
LEMMA EndKeepInv ==
    ASSUME IndInv, NEW w \in Workers, worker[w].op # NoOp, NEW state \in Settled,
           Owns(w), op' = Ended(worker[w].op, state), Leave(w), RowsOK',
           UNCHANGED <<repoVars, faults>>,
           audited' \subseteq audited \cup {worker[w].op},
           Req(w).type = "template_create" => state \notin Terminal,
           Req(w).type = "repo_create" /\ ~op[worker[w].op].stalled =>
               \/ state = "operator_intervention_required"
               \/ fence[Req(w).target] # worker[w].op
    PROVE  IndInv'
  <1>0. UNCHANGED <<row, dir, fence, fences, wfence, marked>>
      BY DEF repoVars
  <1>1. /\ row' \in [Ids -> Row] /\ fence' \in [Ids -> Ops \cup {NoOp}]
        /\ wfence' \in [Ids -> Ops \cup {NoOp}]
      BY <1>0 DEF IndInv, TypeOK
  <1>2. RowKeep /\ DirKeep /\ \A i \in Ids : RowInv(i)'
      <2>1. RowKeep /\ DirKeep
          BY <1>0 DEF RowKeep, DirKeep
      <2> QED
          BY <1>0, <2>1, RowKept
  <1>3. ASSUME NEW i \in Ids
        PROVE  /\ fence[i] = worker[w].op =>
                     Req(w).type = "repo_create" /\ Req(w).target = i
               /\ wfence[i] = worker[w].op => Req(w).type = "template_create"
      BY DEF IndInv, History, FenceInv, Req
  <1>4. \A i \in Ids : /\ fence'[i] \in {fence[i], NoOp} /\ wfence'[i] \in {wfence[i], NoOp}
                       /\ state \in Terminal => wfence'[i] # worker[w].op
                       /\ fence[i] # worker[w].op => fence'[i] = fence[i]
      BY <1>0, <1>3
  <1>5. ~op[worker[w].op].stalled =>
          \A i \in Ids :
             fence[i] = worker[w].op =>
                  state = "operator_intervention_required" /\ fence'[i] = fence[i]
      BY <1>0, <1>3
  <1>6. ~op[worker[w].op].stalled =>
          \A i \in Ids :
             /\ fence[i] = worker[w].op /\ state # "succeeded" =>
                   state = "operator_intervention_required" /\ fence'[i] = fence[i]
             /\ fence[i] = worker[w].op /\ state = "succeeded" =>
                   /\ fence'[i] = NoOp /\ Exists(i)'
                   /\ \A v \in Volumes : dir[i][v] = worker[w].op =>
                         row'[i].jvs = worker[w].op \/ row'[i].volume # v
      BY <1>5
  <1> QED
      BY <1>0, <1>1, <1>2, <1>4, <1>6, EndInv

\* The statements of the catalog.
LEMMA CatalogCommitInv ==
    ASSUME IndInv, NEW w \in Workers, worker[w].op # NoOp, UNCHANGED repoVars,
           \/ CommitVolumeEnsure(w) \/ CommitNamespaceUpsert(w) \/ CommitNamespaceDisable(w)
           \/ CommitBindingPut(w) \/ CommitBindingFailed(w)
    PROVE  IndInv'
  <1> DEFINE o == worker[w].op
  <1>0. RowsOK /\ Req(w) \in Requests /\ o \in Ops
      BY AtWork DEF IndInv, TypeOK, CatalogTypeOK, RowsOK
  <1>1. /\ Req(w).volume \in Volumes /\ Req(w).status \in VolumeStatuses
        /\ Req(w).type = "namespace_volume_binding_put" => Req(w).status \in {"active", "disabled"}
      BY <1>0, RequestForm
  <1>2. "succeeded" \in Settled /\ "failed" \in Settled
      BY DEF Settled, Terminal
  <1>3. ASSUME NEW state \in {"succeeded", "failed"}, End(w, state),
               Req(w).type \notin RepoTypes, RowsOK', UNCHANGED faults
        PROVE  IndInv'
      <2>1. Owns(w) /\ op' = Ended(o, state) /\ audited' = audited \cup {o} /\ Leave(w)
          BY <1>3 DEF End
      <2> QED
          BY <1>2, <1>3, <2>1, EndKeepInv DEF RepoTypes
  <1>4. CASE CommitVolumeEnsure(w)
      <2>1. /\ End(w, "succeeded") /\ Req(w).type = "volume_ensure"
            /\ volume' = [volume EXCEPT ![Req(w).volume] = Req(w).status]
            /\ UNCHANGED <<namespace, binding, session, faults>>
          BY <1>4 DEF CommitVolumeEnsure
      <2>2. RowsOK'
          BY <1>0, <1>1, <2>1 DEF RowsOK
      <2> QED
          BY <1>3, <2>1, <2>2 DEF RepoTypes
  <1>5. CASE CommitNamespaceUpsert(w)
      <2>1. /\ End(w, "succeeded") /\ Req(w).type = "namespace_upsert"
            /\ namespace' = IF namespace = "disabled" THEN namespace ELSE "active"
            /\ UNCHANGED <<binding, volume, session, faults>>
          BY <1>5 DEF CommitNamespaceUpsert
      <2>2. RowsOK'
          BY <1>0, <2>1 DEF RowsOK
      <2> QED
          BY <1>3, <2>1, <2>2 DEF RepoTypes
  <1>6. CASE CommitNamespaceDisable(w)
      <2>1. /\ Owns(w) /\ op' = Ended(o, "succeeded") /\ Leave(w)
            /\ Req(w).type = "namespace_disable"
            /\ UNCHANGED <<binding, volume, faults>>
          BY <1>6 DEF CommitNamespaceDisable
      <2>2. namespace' \in {namespace, "disabled"} /\ audited' \subseteq audited \cup {o}
          BY <1>6 DEF CommitNamespaceDisable
      <2>3. session' \in {session, "ending", "active"}
          BY <1>6 DEF CommitNamespaceDisable
      <2>4. RowsOK'
          BY <1>0, <2>1, <2>2, <2>3 DEF RowsOK
      <2> QED
          BY <1>2, <2>1, <2>2, <2>4, EndKeepInv
  <1>7. CASE CommitBindingPut(w)
      <2>1. /\ End(w, "succeeded") /\ Req(w).type = "namespace_volume_binding_put"
            /\ binding' = [volume |-> Req(w).volume, status |-> Req(w).status]
            /\ UNCHANGED <<namespace, volume, session, faults>>
          BY <1>7 DEF CommitBindingPut
      <2>2. RowsOK'
          BY <1>0, <1>1, <2>1 DEF RowsOK
      <2> QED
          BY <1>3, <2>1, <2>2 DEF RepoTypes
  <1>8. CASE CommitBindingFailed(w)
      <2>1. /\ End(w, "failed") /\ Req(w).type = "namespace_volume_binding_put"
            /\ UNCHANGED <<namespace, binding, volume, session, faults>>
          BY <1>8 DEF CommitBindingFailed, rows
      <2>2. RowsOK'
          BY <1>0, <2>1 DEF RowsOK
      <2> QED
          BY <1>3, <2>1, <2>2 DEF RepoTypes
  <1> QED
      BY <1>4, <1>5, <1>6, <1>7, <1>8

\* The statements that end a repo_create or a template operation without a row.
LEMMA RepoFailureInv ==
    ASSUME IndInv, NEW w \in Workers, worker[w].op # NoOp,
           \/ /\ Req(w).type = "repo_create"
              /\ CommitRepoCreateFailed(w) \/ CommitRepoCreateIntervention(w)
           \/ /\ Req(w).type = "template_create"
              /\ CommitTemplateCreateFailed(w) \/ CommitTemplateIntervention(w)
           \/ /\ Req(w).type = "template_clone"
              /\ CommitTemplateCloneFailed(w) \/ CommitTemplateIntervention(w)
    PROVE  IndInv'
  <1> DEFINE o == worker[w].op
  <1>0. RowsOK /\ o \in Ops /\ TypeOK
      BY AtWork DEF IndInv, TypeOK, CatalogTypeOK, RowsOK
  <1>1. ASSUME NEW state \in {"failed", "operator_intervention_required"}, End(w, state),
               UNCHANGED <<rows, faults>>
        PROVE  /\ Owns(w) /\ op' = Ended(o, state) /\ audited' = audited \cup {o} /\ Leave(w)
               /\ state \in Settled /\ RowsOK'
      <2>1. Owns(w) /\ op' = Ended(o, state) /\ audited' = audited \cup {o} /\ Leave(w)
          BY <1>1 DEF End
      <2>2. state \in Settled
          BY DEF Settled, Terminal
      <2>3. RowsOK'
          BY <1>0, <1>1 DEF rows, RowsOK
      <2> QED
          BY <2>1, <2>2, <2>3
  <1>2. CASE CommitRepoCreateIntervention(w) \/ CommitTemplateIntervention(w)
      <2> DEFINE state == "operator_intervention_required"
      <2>1. End(w, state) /\ UNCHANGED <<rows, faults, repoVars>>
          BY <1>2 DEF CommitRepoCreateIntervention, CommitTemplateIntervention, EndRepoCreate
      <2>2. /\ Owns(w) /\ op' = Ended(o, state) /\ audited' = audited \cup {o} /\ Leave(w)
            /\ state \in Settled /\ RowsOK'
          BY <1>1, <2>1
      <2>3. state \notin Terminal
          BY DEF Terminal
      <2> QED
          BY <2>1, <2>2, <2>3, EndKeepInv
  <1>3. CASE \/ Req(w).type = "repo_create" /\ CommitRepoCreateFailed(w)
             \/ Req(w).type = "template_clone" /\ CommitTemplateCloneFailed(w)
      <2>1. End(w, "failed") /\ UNCHANGED <<rows, faults, repoVars>> /\ worker[w].pc = "fail"
          BY <1>3 DEF CommitRepoCreateFailed, CommitTemplateCloneFailed, EndRepoCreate, AtStep
      <2>2. /\ Owns(w) /\ op' = Ended(o, "failed") /\ audited' = audited \cup {o} /\ Leave(w)
            /\ "failed" \in Settled /\ RowsOK'
          BY <1>1, <2>1
      <2>3. Req(w).type = "repo_create" /\ ~op[o].stalled => fence[Req(w).target] # o
          BY <2>1 DEF IndInv, Clean, FenceView
      <2> QED
          BY <1>3, <2>1, <2>2, <2>3, EndKeepInv
  <1>4. CASE Req(w).type = "template_create" /\ CommitTemplateCreateFailed(w)
      <2>1. /\ End(w, "failed") /\ FailAllowed(w)
            /\ UNCHANGED <<rows, faults, row, dir, fence, fences, marked>>
            /\ \/ NamesFence(w) /\ ReleaseWriterFence(w)
               \/ ~NamesFence(w) /\ UNCHANGED wfence
          BY <1>4 DEF CommitTemplateCreateFailed
      <2>2. /\ Owns(w) /\ op' = Ended(o, "failed") /\ audited' = audited \cup {o} /\ Leave(w)
            /\ "failed" \in Settled /\ RowsOK'
          BY <1>1, <2>1
      <2>3. /\ row' \in [Ids -> Row] /\ fence' \in [Ids -> Ops \cup {NoOp}]
            /\ wfence' \in [Ids -> Ops \cup {NoOp}]
          BY <1>0, <2>1 DEF TypeOK, ReleaseWriterFence
      <2>4. RowKeep /\ DirKeep /\ \A i \in Ids : RowInv(i)'
          <3>1. RowKeep /\ DirKeep
              BY <2>1 DEF RowKeep, DirKeep
          <3> QED
              BY <2>1, <3>1, RowKept
      <2>5. ASSUME NEW i \in Ids
            PROVE  /\ fence[i] # o /\ fence'[i] = fence[i] /\ wfence'[i] \in {wfence[i], NoOp}
                   /\ wfence'[i] # o
          <3>1. FenceInv(i)
              BY DEF IndInv, History
          <3>2. fence[i] # o /\ (wfence[i] = o => Req(w).source = i /\ NamesFence(w))
              BY <1>0, <1>4, <3>1 DEF FenceInv, Req, NamesFence
          <3>3. CASE NamesFence(w) /\ ReleaseWriterFence(w)
              BY <1>0, <2>1, <3>2, <3>3 DEF ReleaseWriterFence, TypeOK
          <3>4. CASE ~NamesFence(w) /\ UNCHANGED wfence
              BY <2>1, <3>2, <3>4
          <3> QED
              BY <2>1, <3>3, <3>4
      <2> QED
          BY <1>4, <2>1, <2>2, <2>3, <2>4, <2>5, EndInv
  <1> QED
      BY <1>2, <1>3, <1>4
\* The statements that insert the row of a repo or a template.
LEMMA RepoSuccessInv ==
    ASSUME IndInv, NEW w \in Workers, worker[w].op # NoOp,
           \/ Req(w).type = "repo_create" /\ CommitRepoCreateSucceeded(w)
           \/ Req(w).type = "template_create" /\ CommitTemplateCreateSucceeded(w)
           \/ Req(w).type = "template_clone" /\ CommitTemplateCloneSucceeded(w)
    PROVE  IndInv'
  <1> DEFINE o == worker[w].op
             t == Req(w).target
             x == worker[w].volume
             j == worker[w].jvs
  <1>0. /\ RowsOK /\ o \in Ops /\ TypeOK /\ t \in Ids
        /\ row \in [Ids -> Row] /\ fence \in [Ids -> Ops \cup {NoOp}]
        /\ wfence \in [Ids -> Ops \cup {NoOp}]
      BY AtWork DEF IndInv, TypeOK, CatalogTypeOK, RowsOK, RepoTypes
  <1>1. PICK kind \in {"repo", "template"} : InsertRow(w, kind)
      BY DEF CommitRepoCreateSucceeded, CommitTemplateCreateSucceeded,
             CommitTemplateCloneSucceeded
  <1>2. /\ worker[w].pc = "succeed" /\ CommitAllowed(w) /\ End(w, "succeeded")
        /\ row' = [row EXCEPT ![t] = [kind |-> kind, volume |-> x, jvs |-> j]]
        /\ UNCHANGED <<rows, faults, dir, fences, marked>>
      BY <1>1 DEF InsertRow, AtStep
  <1>3. Owns(w) /\ op' = Ended(o, "succeeded") /\ audited' = audited \cup {o} /\ Leave(w)
      BY <1>2 DEF End
  <1>4. "succeeded" \in Settled /\ RowsOK'
      BY <1>0, <1>2 DEF Settled, Terminal, rows, RowsOK
  <1>7. ~Exists(t) /\ j # "none" /\ dir[t][x] = j /\ x \in Volumes /\ j \in Makers
      BY <1>2 DEF IndInv, TypeOK, CatalogTypeOK, History, WorkerInv, RepoTypes,
                  CommitAllowed, PrerequisitesHold, WorkerRecord, Makers
  <1>8. /\ row' \in [Ids -> Row] /\ row'[t].kind # "none"
        /\ row'[t].volume = x /\ row'[t].jvs = j
        /\ \A i \in Ids \ {t} : row'[i] = row[i]
      BY <1>0, <1>2, <1>7 DEF Row
  <1>9. RowKeep /\ DirKeep
      BY <1>2, <1>7, <1>8 DEF RowKeep, DirKeep
  <1>10. ASSUME NEW i \in Ids PROVE RowInv(i)'
      <2>1. CASE i = t
          BY <1>2, <1>7, <1>8, <2>1 DEF RowInv
      <2>2. CASE i # t
          BY <1>8, <1>9, <2>2, RowKept
      <2> QED
          BY <2>1, <2>2
  <1>11. ASSUME NEW i \in Ids
         PROVE  /\ fence[i] = o => Req(w).type = "repo_create" /\ i = t
                /\ wfence[i] = o => Req(w).type = "template_create" /\ i = Req(w).source
      BY <1>0 DEF IndInv, History, FenceInv, Req
  <1>12. /\ fence' \in [Ids -> Ops \cup {NoOp}] /\ wfence' \in [Ids -> Ops \cup {NoOp}]
         /\ \A i \in Ids : /\ fence'[i] \in {fence[i], NoOp} /\ wfence'[i] \in {wfence[i], NoOp}
                           /\ wfence'[i] # o /\ fence'[i] # o
                           /\ fence[i] # o => fence'[i] = fence[i]
      <2>1. CASE Req(w).type = "repo_create" /\ CommitRepoCreateSucceeded(w)
          <3>1. fence' = [fence EXCEPT ![t] = NoOp] /\ UNCHANGED wfence /\ fence[t] = o
              BY <1>2, <2>1 DEF CommitRepoCreateSucceeded, CommitAllowed, HoldsLifecycleFence
          <3> QED
              BY <1>0, <1>11, <2>1, <3>1
      <2>2. CASE Req(w).type = "template_create" /\ CommitTemplateCreateSucceeded(w)
          <3>1. wfence' = [wfence EXCEPT ![Req(w).source] = NoOp] /\ UNCHANGED fence
              BY <2>2 DEF CommitTemplateCreateSucceeded, ReleaseWriterFence
          <3> QED
              BY <1>0, <1>11, <2>2, <3>1
      <2>3. CASE Req(w).type = "template_clone" /\ CommitTemplateCloneSucceeded(w)
          <3>1. UNCHANGED <<fence, wfence>>
              BY <2>3 DEF CommitTemplateCloneSucceeded
          <3> QED
              BY <1>0, <1>11, <2>3, <3>1
      <2> QED
          BY <2>1, <2>2, <2>3
  <1>13. ASSUME NEW i \in Ids, fence[i] = o
         PROVE  /\ fence'[i] = NoOp /\ Exists(i)'
                /\ \A v \in Volumes : dir[i][v] = o => row'[i].jvs = o \/ row'[i].volume # v
      <2>1. i = t
          BY <1>11, <1>13
      <2>2. fence'[i] = NoOp
          BY <1>12, <1>13
      <2> QED
          BY <1>7, <1>8, <2>1, <2>2 DEF Exists
  <1> QED
      BY <1>2, <1>3, <1>4, <1>8, <1>9, <1>10, <1>12, <1>13, EndInv

------------------------------------------------------------------------------
(* Intake, leases and sessions.                                             *)

\* Requests and ends stay, and who works on what does not get worse.
LEMMA OperationStep ==
    ASSUME IndInv, TypeOK', OpsKeep, UNCHANGED repoVars,
           \A o \in Ops : OperationInv(o)',
           \A o \in Ops : op'[o].state \in Terminal => op[o].state \in Terminal,
           \A o \in Ops : op[o].state = "running" => op'[o].state = "running",
           \A w \in Workers : WorkerInv(w)' /\ SoleWorker(w)' /\ FenceView(w)'
    PROVE  IndInv'
  <1>0. UNCHANGED <<row, dir, fence, fences, wfence, marked>>
      BY DEF repoVars
  <1>1. DirKeep /\ RowKeep
      BY <1>0 DEF DirKeep, RowKeep
  <1>2. History'
      <2>1. ASSUME NEW i \in Ids PROVE FenceInv(i)' /\ RowInv(i)'
          <3>1. FenceInv(i) /\ wfence[i] \in Ops \cup {NoOp}
              BY DEF IndInv, History, TypeOK
          <3>2. wfence[i] # NoOp => op'[wfence[i]].state \notin Terminal
              BY <3>1 DEF FenceInv
          <3> QED
              BY <1>0, <1>1, <3>2, FenceKept, RowKept
      <2>2. \A i \in Ids, v \in Volumes : MakerInv(i, v)'
          BY <1>0, MakerKept
      <2> QED
          BY <2>1, <2>2 DEF History
  <1>3. Clean'
      <2>1. ASSUME NEW i \in Ids PROVE FenceOpen(i)'
          <3>1. /\ FenceOpen(i) /\ fence[i] \in Ops \cup {NoOp}
                /\ fence[i] # NoOp => Made(fence[i])
              BY DEF IndInv, Clean, History, FenceInv, TypeOK
          <3> QED
              BY <1>0, <3>1 DEF FenceOpen, OpsKeep
      <2>2. ASSUME NEW i \in Ids, NEW v \in Volumes PROVE DirInv(i, v)'
          BY <1>0, <1>1, DirKept
      <2> QED
          BY <2>1, <2>2 DEF Clean
  <1> QED
      BY <1>2, <1>3 DEF IndInv

\* A request is admitted.
LEMMA InsertInv ==
    ASSUME IndInv, NEW o \in Ops, NEW r \in Requests, Insert(o, r), UNCHANGED repoVars
    PROVE  IndInv'
  <1>0. TypeOK /\ op \in [Ops -> OperationRecord]
      BY DEF IndInv, TypeOK, CatalogTypeOK
  <1>1. /\ op[o].state = "absent" /\ UNCHANGED <<rows, audited, worker, faults>>
        /\ op' = [op EXCEPT ![o].req = r, ![o].state = "queued"]
      BY DEF Insert
  <1>2. /\ op' \in [Ops -> OperationRecord] /\ op'[o].req = r /\ op'[o].state = "queued"
        /\ \A p \in Ops \ {o} : op'[p] = op[p]
      BY <1>0, <1>1 DEF OperationRecord
  <1>3. TypeOK'
      BY <1>0, <1>1, <1>2 DEF TypeOK, CatalogTypeOK, rows, repoVars
  <1>4. OpsKeep
      BY <1>1, <1>2 DEF OpsKeep, Made
  <1>5. ASSUME NEW p \in Ops PROVE OperationInv(p)'
      <2>1. CASE p = o
          BY <1>2, <2>1 DEF OperationInv
      <2>2. CASE p # o
          BY <1>1, <1>2, <2>2, OperationKept
      <2> QED
          BY <2>1, <2>2
  <1>6. \A p \in Ops : op'[p].state \in Terminal => op[p].state \in Terminal
      BY <1>2 DEF Terminal
  <1>7. DirKeep
      BY DEF DirKeep, repoVars
  <1>8. \A w \in Workers : WorkerInv(w)'
      BY <1>1, <1>4, <1>7, WorkerKept
  <1>9. ASSUME NEW w \in Workers PROVE SoleWorker(w)' /\ FenceView(w)'
      <2>1. worker[w].op # NoOp => worker[w].op \in Ops /\ worker[w].op # o
          BY <1>1, AtWork DEF Made
      <2> QED
          BY <1>1, <1>2, <1>4, <2>1, ViewKept DEF repoVars
  <1>10. \A p \in Ops : op[p].state = "running" => op'[p].state = "running"
      BY <1>1, <1>2
  <1> QED
      BY <1>1, <1>3, <1>4, <1>5, <1>6, <1>8, <1>9, <1>10, OperationStep

\* A worker takes an operation up.
LEMMA AcquireLeaseInv ==
    ASSUME IndInv, NEW w \in Workers, NEW o \in Ops, AcquireLease(w, o), UNCHANGED repoVars
    PROVE  IndInv'
  <1> DEFINE pc == FirstStep(op[o].req.type)
  <1>0. /\ TypeOK /\ op \in [Ops -> OperationRecord] /\ worker \in [Workers -> WorkerRecord]
        /\ OperationInv(o)
      BY DEF IndInv, TypeOK, CatalogTypeOK, History
  <1>1. /\ worker[w].pc = "idle" /\ Acquirable(o)
        /\ op' = [op EXCEPT ![o].state = "running", ![o].lease = "live", ![o].owner = w]
        /\ worker' = [worker EXCEPT ![w] = [IdleWorker EXCEPT !.op = o, !.pc = pc]]
        /\ UNCHANGED <<rows, audited, faults>>
      BY DEF AcquireLease, AtStep
  <1>2. op[o].state \in {"queued", "running"} /\ Made(o) /\ op[o].req \in Requests
      BY <1>0, <1>1 DEF Acquirable, Made, OperationInv
  <1>3. /\ pc \in Steps /\ pc # "idle"
        /\ op[o].req.type \in RepoTypes => pc \notin {"depend", "succeed"}
        /\ op[o].req.type = "repo_create" => pc = "fences"
      BY DEF FirstStep, Steps, RepoTypes
  <1> HIDE DEF pc
  <1>4. /\ op' \in [Ops -> OperationRecord] /\ op'[o].req = op[o].req
        /\ op'[o].state = "running" /\ op'[o].lease = "live" /\ op'[o].owner = w
        /\ op'[o].stalled = op[o].stalled
        /\ \A p \in Ops \ {o} : op'[p] = op[p]
      BY <1>0, <1>1 DEF OperationRecord
  <1>5. /\ worker' \in [Workers -> WorkerRecord] /\ worker'[w].op = o /\ worker'[w].pc = pc
        /\ \A v \in Workers \ {w} : worker'[v] = worker[v]
      <2>1. /\ [IdleWorker EXCEPT !.op = o, !.pc = pc] \in WorkerRecord
            /\ [IdleWorker EXCEPT !.op = o, !.pc = pc].op = o
            /\ [IdleWorker EXCEPT !.op = o, !.pc = pc].pc = pc
          BY <1>3, ConstantTypes DEF WorkerRecord
      <2> QED
          BY <1>0, <1>1, <2>1
  <1>6. TypeOK'
      BY <1>0, <1>1, <1>4, <1>5 DEF TypeOK, CatalogTypeOK, rows, repoVars
  <1>7. OpsKeep
      BY <1>2, <1>4 DEF OpsKeep, Made, Settled, Terminal
  <1>8. ASSUME NEW p \in Ops PROVE OperationInv(p)'
      <2>1. CASE p = o
          BY <1>2, <1>4, <2>1 DEF OperationInv
      <2>2. CASE p # o
          BY <1>1, <1>4, <2>2, OperationKept
      <2> QED
          BY <2>1, <2>2
  <1>9. \A p \in Ops : op'[p].state \in Terminal => op[p].state \in Terminal
      BY <1>4 DEF Terminal
  <1>10. DirKeep
      BY DEF DirKeep, repoVars
  <1>11. ASSUME NEW v \in Workers PROVE WorkerInv(v)'
      <2>1. CASE v = w
          <3>1. Req(w)' = op[o].req /\ Made(o)' /\ o # NoOp
              BY <1>4, <1>5 DEF Req, Made
          <3> QED
              BY <1>3, <1>5, <2>1, <3>1 DEF WorkerInv
      <2>2. CASE v # w
          BY <1>5, <1>7, <1>10, <2>2, WorkerKept
      <2> QED
          BY <2>1, <2>2
  <1>12. ASSUME NEW v \in Workers PROVE SoleWorker(v)' /\ FenceView(v)'
      <2>2. CASE v = w
          <3>1. Req(w)' = op[o].req
              BY <1>4, <1>5 DEF Req
          <3> QED
              BY <1>3, <1>4, <1>5, <2>2, <3>1 DEF SoleWorker, Owns, FenceView
      <2>3. CASE v # w
          <3>1. worker[v].op = o => op[o].stalled
              <4>1. SoleWorker(v)
                  BY DEF IndInv, Clean
              <4> QED
                  BY <1>1, <4>1, AtWork DEF SoleWorker, Owns, Acquirable
          <3>2. CASE worker[v].op = o
              BY <1>4, <1>5, <2>3, <3>1, <3>2, ViewStalled
          <3>3. CASE worker[v].op # o
              <4>1. worker[v].op # NoOp => worker[v].op \in Ops
                  BY AtWork
              <4> QED
                  BY <1>4, <1>5, <1>7, <2>3, <3>3, <4>1, ViewKept DEF repoVars
          <3> QED
              BY <3>2, <3>3
      <2> QED
          BY <2>2, <2>3
  <1>13. \A p \in Ops : op[p].state = "running" => op'[p].state = "running"
      BY <1>4
  <1> QED
      BY <1>1, <1>6, <1>7, <1>8, <1>9, <1>11, <1>12, <1>13, OperationStep

\* A lease runs out: of an operation nobody works on, or under a worker.
LEMMA LeaseLost ==
    ASSUME IndInv, NEW o \in Ops,
           \/ op' = [op EXCEPT ![o].lease = "expired"]
           \/ op' = [op EXCEPT ![o].lease = "expired", ![o].stalled = TRUE]
    PROVE  /\ op' \in [Ops -> OperationRecord] /\ OpsKeep
           /\ \A p \in Ops : op'[p].req = op[p].req /\ op'[p].state = op[p].state
           /\ \A p \in Ops \ {o} : op'[p] = op[p]
  <1>1. op \in [Ops -> OperationRecord]
      BY DEF IndInv, TypeOK, CatalogTypeOK
  <1>2. /\ op' \in [Ops -> OperationRecord]
        /\ op'[o].req = op[o].req /\ op'[o].state = op[o].state
        /\ op[o].stalled => op'[o].stalled
        /\ \A p \in Ops \ {o} : op'[p] = op[p]
      BY <1>1 DEF OperationRecord
  <1>3. \A p \in Ops : /\ op'[p].req = op[p].req /\ op'[p].state = op[p].state
                        /\ op[p].stalled => op'[p].stalled
      BY <1>2
  <1> QED
      BY <1>2, <1>3 DEF OpsKeep, Made

LEMMA ExpiryInv ==
    ASSUME IndInv, NEW o \in Ops, Expire(o) \/ Stall(o), UNCHANGED repoVars
    PROVE  IndInv'
  <1>0. TypeOK /\ op \in [Ops -> OperationRecord]
      BY DEF IndInv, TypeOK, CatalogTypeOK
  <1>1. /\ UNCHANGED <<rows, audited, worker>>
        /\ \/ op' = [op EXCEPT ![o].lease = "expired"]
           \/ op' = [op EXCEPT ![o].lease = "expired", ![o].stalled = TRUE]
        /\ faults' = faults \/ (faults < MaxFaults /\ faults' = faults + 1)
      BY DEF Expire, Stall
  <1>2. /\ op' \in [Ops -> OperationRecord] /\ OpsKeep
        /\ \A p \in Ops : op'[p].req = op[p].req /\ op'[p].state = op[p].state
        /\ \A p \in Ops \ {o} : op'[p] = op[p]
      BY <1>1, LeaseLost
  <1>3. op'[o].stalled \/ ~Works(o)
      <2>1. CASE Stall(o)
          <3>1. op' = [op EXCEPT ![o].lease = "expired", ![o].stalled = TRUE]
              BY <2>1 DEF Stall
          <3> QED
              BY <1>0, <3>1 DEF OperationRecord
      <2> QED
          BY <2>1 DEF Expire
  <1>4. TypeOK'
      BY <1>0, <1>1, <1>2 DEF TypeOK, CatalogTypeOK, rows, repoVars
  <1>5. \A p \in Ops : OperationInv(p)'
      BY <1>2, OperationKept
  <1>6. DirKeep
      BY DEF DirKeep, repoVars
  <1>7. \A w \in Workers : WorkerInv(w)'
      BY <1>1, <1>2, <1>6, WorkerKept
  <1>8. ASSUME NEW w \in Workers PROVE SoleWorker(w)' /\ FenceView(w)'
      <2>1. CASE worker[w].op = o
          <3>1. o # NoOp /\ Made(o) /\ SoleWorker(w)
              BY <2>1, AtWork DEF IndInv, Clean
          <3>2. op'[o].stalled
              BY <1>2, <1>3, <2>1, <3>1 DEF SoleWorker, Owns, Works, OpsKeep
          <3> QED
              BY <1>1, <2>1, <3>2, ViewStalled
      <2>2. CASE worker[w].op # o
          <3>1. worker[w].op # NoOp => worker[w].op \in Ops
              BY AtWork
          <3> QED
              BY <1>1, <1>2, <2>2, <3>1, ViewKept DEF repoVars
      <2> QED
          BY <2>1, <2>2
  <1> QED
      BY <1>2, <1>4, <1>5, <1>7, <1>8, OperationStep

\* A read of the metadata that fails.
LEMMA ReadPendingInv ==
    ASSUME IndInv, NEW w \in Workers, MetadataReadPending(w)
    PROVE  IndInv'
  <1>0. worker[w].op # NoOp /\ op \in [Ops -> OperationRecord]
      BY DEF MetadataReadPending, AtStep, IndInv, TypeOK, CatalogTypeOK, History, WorkerInv
  <1> DEFINE o == worker[w].op
  <1>1. o \in Ops /\ op[o] \in OperationRecord
      BY <1>0, AtWork
  <1>2. /\ faults < MaxFaults /\ faults' = faults + 1
        /\ UNCHANGED <<rows, audited, repoVars>> /\ Leave(w)
        /\ op' = IF Owns(w) THEN [op EXCEPT ![o] = Pending(op[o])] ELSE op
      BY DEF MetadataReadPending
  <1>3. faults' \in 0..MaxFaults
      BY <1>2 DEF IndInv, TypeOK, CatalogTypeOK
  <1>4. /\ op' \in [Ops -> OperationRecord] /\ OpsKeep
        /\ \A p \in Ops : op'[p].req = op[p].req /\ op'[p].state = op[p].state
        /\ \A p \in Ops \ {o} : op'[p] = op[p]
      <2>1. CASE op' = op
          BY <1>0, <2>1 DEF OpsKeep, Made
      <2>2. CASE op' = [op EXCEPT ![o] = Pending(op[o])]
          <3>1. op' = [op EXCEPT ![o].lease = "expired"]
              BY <2>2 DEF Pending
          <3> QED
              BY <1>1, <3>1, LeaseLost
      <2> QED
          BY <1>2, <2>1, <2>2
  <1>5. /\ worker' \in [Workers -> WorkerRecord] /\ worker'[w] = IdleWorker
        /\ \A v \in Workers \ {w} : worker'[v] = worker[v]
      BY <1>2, Left DEF IndInv, TypeOK, CatalogTypeOK
  <1>6. TypeOK'
      BY <1>2, <1>3, <1>4, <1>5 DEF IndInv, TypeOK, CatalogTypeOK, rows, repoVars
  <1>7. \A p \in Ops : OperationInv(p)'
      BY <1>2, <1>4, OperationKept
  <1>8. DirKeep
      BY <1>2 DEF DirKeep, repoVars
  <1>9. ASSUME NEW v \in Workers PROVE WorkerInv(v)'
      <2>1. CASE v = w
          BY <1>5, <2>1, ConstantTypes DEF WorkerInv
      <2>2. CASE v # w
          BY <1>4, <1>5, <1>8, <2>2, WorkerKept
      <2> QED
          BY <2>1, <2>2
  <1>10. ASSUME NEW v \in Workers PROVE SoleWorker(v)' /\ FenceView(v)'
      <2>1. CASE v = w
          BY <1>5, <2>1, ConstantTypes DEF SoleWorker, FenceView
      <2>2. CASE v # w
          BY <1>0, <1>2, <1>4, <1>5, <2>2, ViewOfOthers DEF repoVars
      <2> QED
          BY <2>1, <2>2
  <1> QED
      BY <1>2, <1>4, <1>6, <1>7, <1>9, <1>10, OperationStep

\* Sessions come and go, or nothing happens.
LEMMA SessionInv ==
    ASSUME IndInv, UNCHANGED <<namespace, binding, volume, op, audited, worker, faults, repoVars>>,
           session' \in {"none", "active", "ending"}
    PROVE  IndInv'
  <1>1. TypeOK'
      BY DEF IndInv, TypeOK, CatalogTypeOK, repoVars
  <1>2. OpsKeep /\ DirKeep
      BY DEF OpsKeep, DirKeep, Made, repoVars
  <1>3. \A o \in Ops : OperationInv(o)'
      BY OperationKept
  <1>4. \A w \in Workers : WorkerInv(w)'
      BY <1>2, WorkerKept
  <1>5. ASSUME NEW w \in Workers PROVE SoleWorker(w)' /\ FenceView(w)'
      BY <1>2, ViewKept DEF repoVars
  <1> QED
      BY <1>1, <1>2, <1>3, <1>4, <1>5, OperationStep

------------------------------------------------------------------------------
(* The whole.                                                               *)

LEMMA InitIndInv == Init => IndInv
  <1> SUFFICES ASSUME Init PROVE IndInv
      OBVIOUS
  <1>1. PICK fresh \in BOOLEAN :
          LET seeded == IF fresh THEN {} ELSE Seeds
          IN  /\ namespace = IF fresh THEN "absent" ELSE "active"
              /\ binding = [volume |-> Home, status |-> IF fresh THEN "absent" ELSE "active"]
              /\ volume = [v \in Volumes |-> IF fresh THEN "absent" ELSE "active"]
              /\ row = [i \in Ids |->
                          IF i \notin seeded THEN NoRow
                          ELSE SeedRow(IF i = SourceRepo THEN "repo" ELSE "template")]
              /\ dir = [i \in Ids |-> [v \in Volumes |->
                          IF i \in seeded /\ v = Home THEN "seed" ELSE "none"]]
      BY DEF Init
  <1> DEFINE seeded == IF fresh THEN {} ELSE Seeds
  <1>2. /\ namespace \in {"absent", "active"}
        /\ binding \in [volume: Volumes, status: {"absent", "active", "disabled"}]
        /\ volume \in [Volumes -> {"absent"} \cup VolumeStatuses]
      <2>1. (IF fresh THEN "absent" ELSE "active") \in {"absent", "active"}
          OBVIOUS
      <2> QED
          BY <1>1, <2>1, ConstantTypes DEF VolumeStatuses
  <1>3. /\ row = [i \in Ids |-> IF i \notin seeded THEN NoRow
                                ELSE SeedRow(IF i = SourceRepo THEN "repo" ELSE "template")]
        /\ dir = [i \in Ids |-> [v \in Volumes |->
                          IF i \in seeded /\ v = Home THEN "seed" ELSE "none"]]
      BY <1>1
  <1> HIDE DEF seeded
  <1>4. ASSUME NEW i \in Ids
        PROVE  /\ row[i] \in Row
               /\ \/ i \notin seeded /\ row[i].kind = "none"
                  \/ i \in seeded /\ row[i].volume = Home /\ row[i].jvs = "seed"
      <2>1. CASE i \notin seeded
          BY <1>3, <2>1, ConstantTypes DEF NoRow, Row, Makers
      <2>2. CASE i \in seeded
          <3> DEFINE kind == IF i = SourceRepo THEN "repo" ELSE "template"
          <3>1. kind \in {"repo", "template"} /\ row[i] = SeedRow(kind)
              BY <1>3, <2>2
          <3> HIDE DEF kind
          <3> QED
              BY <2>2, <3>1, ConstantTypes DEF SeedRow, Row, Makers
      <2> QED
          BY <2>1, <2>2
  <1>5. ASSUME NEW i \in Ids, NEW v \in Volumes
        PROVE  /\ dir[i][v] \in {"none", "seed"}
               /\ i \in seeded /\ v = Home => dir[i][v] = "seed"
      BY <1>3
  <1>6. row \in [Ids -> Row] /\ dir \in [Ids -> [Volumes -> Makers]]
      <2>1. row \in [Ids -> Row]
          BY <1>3, <1>4
      <2>2. dir \in [Ids -> [Volumes -> Makers]]
          BY <1>3 DEF Makers
      <2> QED
          BY <2>1, <2>2
  <1>7. /\ session = "none" /\ op = [o \in Ops |-> NoOperation] /\ audited = {}
        /\ worker = [w \in Workers |-> IdleWorker] /\ faults = 0
        /\ fence = [i \in Ids |-> NoOp] /\ fences = {} /\ wfence = [i \in Ids |-> NoOp]
        /\ marked = {}
      BY DEF Init
  <1>8. TypeOK
      BY <1>2, <1>6, <1>7, ConstantTypes DEF TypeOK, CatalogTypeOK
  <1>9. \A o \in Ops : op[o].state = "absent"
      BY <1>7 DEF NoOperation
  <1>10. \A w \in Workers : worker[w].pc = "idle" /\ worker[w].op = NoOp
      BY <1>7, ConstantTypes
  <1>11. \A i \in Ids : fence[i] = NoOp /\ wfence[i] = NoOp
      BY <1>7
  <1>12. History
      <2>1. \A o \in Ops : OperationInv(o)
          BY <1>7, <1>9 DEF OperationInv, Made, Settled, Terminal
      <2>3. \A w \in Workers : WorkerInv(w)
          BY <1>10 DEF WorkerInv
      <2>4. ASSUME NEW i \in Ids PROVE FenceInv(i) /\ RowInv(i)
          BY <1>4, <1>5, <1>11, ConstantTypes DEF FenceInv, RowInv, Exists
      <2>5. \A i \in Ids, v \in Volumes : MakerInv(i, v)
          BY <1>5 DEF MakerInv
      <2> QED
          BY <2>1, <2>3, <2>4, <2>5 DEF History
  <1>13. Clean
      <2>1. \A w \in Workers : SoleWorker(w) /\ FenceView(w)
          BY <1>10 DEF SoleWorker, FenceView
      <2>2. \A i \in Ids : FenceOpen(i)
          BY <1>11 DEF FenceOpen
      <2>3. \A i \in Ids, v \in Volumes : DirInv(i, v)
          BY <1>5 DEF DirInv
      <2> QED
          BY <2>1, <2>2, <2>3 DEF Clean
  <1> QED
      BY <1>8, <1>12, <1>13 DEF IndInv

\* The steps of the executors.
LEMMA ExecutorInv ==
    ASSUME IndInv, NEW w \in Workers, Executor(w)
    PROVE  IndInv'
  <1>1. CASE RepoExecutor(w)
      <2>0. worker[w].op # NoOp
          BY <1>1 DEF RepoExecutor
      <2>1. CASE Req(w).type = "repo_create" /\ RepoCreateExecutor(w)
          <3>1. CASE ListHeldFences(w) \/ LoadMetadata(w) \/ RepoCreateRefused(w)
              BY <2>0, <2>1, <3>1, ReadingInv
          <3>2. CASE AcquireFence(w)
              BY <2>0, <2>1, <3>2, AcquireFenceInv
          <3>3. CASE CreateStorage(w)
              BY <2>0, <2>1, <3>3, StorageInv
          <3>4. CASE CommitRepoCreateSucceeded(w)
              BY <2>0, <2>1, <3>4, RepoSuccessInv
          <3>5. CASE CommitRepoCreateFailed(w) \/ CommitRepoCreateIntervention(w)
              BY <2>0, <2>1, <3>5, RepoFailureInv
          <3> QED
              BY <2>1, <3>1, <3>2, <3>3, <3>4, <3>5 DEF RepoCreateExecutor
      <2>2. CASE Req(w).type = "template_create" /\ TemplateCreateExecutor(w)
          <3>1. CASE \/ ValidateSource(w) \/ CheckWriterSessions(w) \/ SaveSource(w)
                     \/ MarkRefused(w) \/ TemplateRefused(w)
              BY <2>0, <2>2, <3>1, ReadingInv
          <3>2. CASE MarkWriterFenced(w)
              BY <2>0, <2>2, <3>2, MarkInv
          <3>3. CASE Clone(w)
              BY <2>0, <2>2, <3>3, StorageInv
          <3>4. CASE CommitTemplateCreateSucceeded(w)
              BY <2>0, <2>2, <3>4, RepoSuccessInv
          <3>5. CASE CommitTemplateCreateFailed(w) \/ CommitTemplateIntervention(w)
              BY <2>0, <2>2, <3>5, RepoFailureInv
          <3> QED
              BY <2>2, <3>1, <3>2, <3>3, <3>4, <3>5 DEF TemplateCreateExecutor
      <2>3. CASE Req(w).type = "template_clone" /\ TemplateCloneExecutor(w)
          <3>1. CASE ValidateTemplate(w) \/ TemplateRefused(w)
              BY <2>0, <2>3, <3>1, ReadingInv
          <3>2. CASE Clone(w)
              BY <2>0, <2>3, <3>2, StorageInv
          <3>3. CASE CommitTemplateCloneSucceeded(w)
              BY <2>0, <2>3, <3>3, RepoSuccessInv
          <3>4. CASE CommitTemplateCloneFailed(w) \/ CommitTemplateIntervention(w)
              BY <2>0, <2>3, <3>4, RepoFailureInv
          <3> QED
              BY <2>3, <3>1, <3>2, <3>3, <3>4 DEF TemplateCloneExecutor
      <2> QED
          BY <1>1, <2>1, <2>2, <2>3 DEF RepoExecutor
  <1>2. CASE CatalogExecutor(w) /\ UNCHANGED repoVars
      <2>0. worker[w].op # NoOp
          BY <1>2 DEF CatalogExecutor
      <2>1. CASE \/ CommitVolumeEnsure(w) \/ CommitNamespaceUpsert(w)
                 \/ CommitNamespaceDisable(w) \/ CommitBindingPut(w) \/ CommitBindingFailed(w)
          BY <1>2, <2>0, <2>1, CatalogCommitInv
      <2>2. CASE ReadDependencies(w) \/ BindingRefused(w)
          BY <1>2, <2>0, <2>2, ReadingInv
      <2>3. CASE \/ CatalogRefused(w, {"volume_ensure"})
                 \/ CatalogRefused(w, {"namespace_upsert", "namespace_disable"})
          <3>1. \E types \in SUBSET CatalogTypes : CatalogRefused(w, types)
              <4>1. /\ {"volume_ensure"} \in SUBSET CatalogTypes
                    /\ {"namespace_upsert", "namespace_disable"} \in SUBSET CatalogTypes
                  BY DEF CatalogTypes
              <4> QED
                  BY <2>3, <4>1
          <3> QED
              BY <1>2, <2>0, <3>1, ReadingInv
      <2> QED
          BY <1>2, <2>1, <2>2, <2>3
             DEF CatalogExecutor, VolumeExecutor, NamespaceExecutor, BindingExecutor
  <1>3. ASSUME NEW o \in Ops, AcquireLease(w, o), UNCHANGED repoVars PROVE IndInv'
      BY <1>3, AcquireLeaseInv
  <1> QED
      BY <1>1, <1>2, <1>3 DEF Executor

LEMMA NextIndInv == IndInv /\ [Next]_vars => IndInv'
  <1> SUFFICES ASSUME IndInv, [Next]_vars PROVE IndInv'
      OBVIOUS
  <1>1. ASSUME NEW o \in Ops, IntakeStep(o) PROVE IndInv'
      <2>1. PICK r \in Requests :
                \/ RequestCatalog(o, r) /\ UNCHANGED repoVars
                \/ RequestRepoCreate(o, r) \/ RequestTemplateCreate(o, r)
                \/ RequestTemplateClone(o, r)
          BY <1>1 DEF IntakeStep
      <2>2. Insert(o, r) /\ UNCHANGED repoVars
          BY <2>1 DEF RequestCatalog, RequestVolumeEnsure, RequestNamespaceUpsert,
                      RequestNamespaceDisable, RequestBindingPut, RequestRepoCreate,
                      RequestTemplateCreate, RequestTemplateClone
      <2> QED
          BY <2>2, InsertInv
  <1>2. ASSUME NEW o \in Ops, Expire(o) \/ Stall(o), UNCHANGED repoVars PROVE IndInv'
      BY <1>2, ExpiryInv
  <1>3. ASSUME NEW w \in Workers, Executor(w) PROVE IndInv'
      BY <1>3, ExecutorInv
  <1>4. ASSUME NEW w \in Workers, MetadataReadPending(w) PROVE IndInv'
      BY <1>4, ReadPendingInv
  <1>5. ASSUME NEW w \in Workers, Stop(w), UNCHANGED repoVars PROVE IndInv'
      <2>1. /\ Leave(w) /\ UNCHANGED <<rows, op, audited>>
            /\ faults < MaxFaults /\ faults' = faults + 1
          BY <1>5 DEF Stop
      <2> QED
          BY <1>5, <2>1, LeaveInv
  <1>6. CASE OpenSession
      BY <1>6, SessionInv DEF OpenSession
  <1>7. CASE SessionEnds /\ UNCHANGED repoVars
      BY <1>7, SessionInv DEF SessionEnds
  <1>8. CASE UNCHANGED vars
      <2>1. /\ UNCHANGED <<namespace, binding, volume, op, audited, worker, faults, repoVars>>
            /\ session' = session
          BY <1>8 DEF vars, catalogVars, rows
      <2>2. session \in {"none", "active", "ending"}
          BY DEF IndInv, TypeOK, CatalogTypeOK
      <2> QED
          BY <2>1, <2>2, SessionInv
  <1> QED
      BY <1>1, <1>2, <1>3, <1>4, <1>5, <1>6, <1>7, <1>8 DEF Next
------------------------------------------------------------------------------
(* The theorems.                                                            *)

\* The two layers hold in every reachable state.
THEOREM IndInvAlways == Spec => []IndInv
  BY InitIndInv, NextIndInv, PTL DEF Spec

\* Every variable of the catalog and of the repos keeps its type.
THEOREM TypeCorrect == Spec => []TypeOK
  <1>1. IndInv => TypeOK
      BY DEF IndInv
  <1> QED
      BY <1>1, IndInvAlways, PTL

\* A row names what is in its directory, whoever made it and whatever was
\* stopped, taken up again or moved to another volume in between.
THEOREM RowMatchesStorageAlways == Spec => []RowMatchesStorage
  <1>1. IndInv => RowMatchesStorage
      BY DEF IndInv, History, RowInv, RowMatchesStorage
  <1> QED
      BY <1>1, IndInvAlways, PTL

\* An operation that is over holds no fence, wherever workers have stopped and
\* reads have failed, unless its own lease ran out under a worker.
THEOREM EndedFreesFencesAlways == Spec => []EndedFreesFences
  <1>1. ASSUME IndInv, NEW o \in Ops, NEW i \in Ids, op[o].state \in Terminal,
               o \in {fence[i], wfence[i]}
        PROVE  op[o].stalled
      <2>1. FenceInv(i) /\ FenceOpen(i)
          BY <1>1 DEF IndInv, History, Clean
      <2>2. fence[i] = o
          BY <1>1, <2>1 DEF FenceInv
      <2> QED
          BY <1>1, <2>1, <2>2 DEF FenceOpen
  <1>2. IndInv => EndedFreesFences
      BY <1>1 DEF EndedFreesFences
  <1> QED
      BY <1>2, IndInvAlways, PTL

\* A directory that a repo_create made and no row names has an operation that
\* answers for it, unless that operation's own lease ran out under a worker or
\* it succeeded on another volume.
THEOREM OrphanHasOwnerAlways == Spec => []OrphanHasOwner
  <1>1. ASSUME IndInv, NEW i \in Ids, NEW v \in Volumes, dir[i][v] \in Ops,
               op[dir[i][v]].req.type = "repo_create", row[i].jvs # dir[i][v]
        PROVE  \/ op[dir[i][v]].state \in {"running", "operator_intervention_required"}
               \/ op[dir[i][v]].state = "succeeded" /\ Exists(i) /\ row[i].volume # v
               \/ op[dir[i][v]].stalled
      <2>1. DirInv(i, v)
          BY <1>1 DEF IndInv, Clean
      <2> QED
          BY <1>1, <2>1 DEF DirInv
  <1>2. IndInv => OrphanHasOwner
      BY <1>1 DEF OrphanHasOwner
  <1> QED
      BY <1>2, IndInvAlways, PTL

------------------------------------------------------------------------------
(* The state table.                                                         *)

States == INSTANCE OperationStates WITH state <- [o \in Ops |-> op[o].state]

\* The abstract life of an operation, of OperationStates.
StatesSpec == States!Spec

\* A statement that rewrites one row so that its state stays, or starts, or
\* moves as the table allows, is a step of the table or none.
LEMMA TableMove ==
    ASSUME DOMAIN op = Ops, NEW o \in Ops, op' = [op EXCEPT ![o] = op'[o]],
           \/ op'[o].state = op[o].state
           \/ op[o].state = "absent" /\ op'[o].state = "queued"
           \/ op[o].state = "queued" /\ op'[o].state = "running"
           \/ /\ op[o].state = "running"
              /\ op'[o].state \in {"succeeded", "failed",
                                   "operator_intervention_required"}
    PROVE  \/ States!Next
           \/ [p \in Ops |-> op[p].state]' = [p \in Ops |-> op[p].state]
  <1> DEFINE st == [p \in Ops |-> op[p].state]
  <1>1. \A p \in Ops \ {o} : op'[p] = op[p]
      OBVIOUS
  <1>2. st' = [st EXCEPT ![o] = op'[o].state]
      BY <1>1
  <1>3. CASE op'[o].state = op[o].state
      BY <1>2, <1>3
  <1>4. CASE op[o].state = "absent" /\ op'[o].state = "queued"
      BY <1>2, <1>4 DEF States!Next, States!Create, States!Absent
  <1>5. CASE /\ op[o].state \in States!OperationState
             /\ op'[o].state \in States!AllowedNextStates[op[o].state]
      BY <1>2, <1>5 DEF States!Next, States!Transition
  <1> QED
      BY <1>3, <1>4, <1>5 DEF States!OperationState, States!AllowedNextStates

\* Every step of the intake and the executors moves the rows as the table
\* allows.
LEMMA StepFollowsTable ==
    ASSUME IndInv, [Next]_vars
    PROVE  \/ States!Next
           \/ [o \in Ops |-> op[o].state]' = [o \in Ops |-> op[o].state]
  <1> DEFINE Follows ==
        \/ States!Next
        \/ [o \in Ops |-> op[o].state]' = [o \in Ops |-> op[o].state]
  <1>1. op \in [Ops -> OperationRecord] /\ DOMAIN op = Ops
      BY DEF IndInv, TypeOK, CatalogTypeOK
  <1>2. CASE op' = op
      BY <1>2
  <1>3. ASSUME NEW o \in Ops, NEW r \in Requests, Insert(o, r) PROVE Follows
      <2> DEFINE q == [op[o] EXCEPT !.req = r, !.state = "queued"]
      <2>1. op[o].state = "absent" /\ op' = [op EXCEPT ![o] = q]
          BY <1>1, <1>3 DEF Insert
      <2>2. q.state = "queued"
          BY <1>1 DEF OperationRecord
      <2> HIDE DEF q
      <2>3. op' = [op EXCEPT ![o] = op'[o]] /\ op'[o].state = "queued"
          BY <1>1, <2>1, <2>2
      <2> QED
          BY <1>1, <2>1, <2>3, TableMove
  <1>4. ASSUME NEW o \in Ops, IntakeStep(o) PROVE Follows
      <2>1. PICK r \in Requests : Insert(o, r)
          BY <1>4 DEF IntakeStep, RequestCatalog, RequestVolumeEnsure,
             RequestNamespaceUpsert, RequestNamespaceDisable, RequestBindingPut,
             RequestRepoCreate, RequestTemplateCreate, RequestTemplateClone
      <2> QED
          BY <1>3, <2>1
  <1>5. ASSUME NEW o \in Ops, op' = [op EXCEPT ![o].lease = "expired"]
        PROVE  Follows
      <2>1. op' = [op EXCEPT ![o] = op'[o]] /\ op'[o].state = op[o].state
          BY <1>1, <1>5 DEF OperationRecord
      <2> QED
          BY <1>1, <2>1, TableMove
  <1>6. ASSUME NEW w \in Workers, NEW o \in Ops, AcquireLease(w, o)
        PROVE  Follows
      <2> DEFINE r == [op[o] EXCEPT !.state = "running", !.lease = "live",
                                    !.owner = w]
      <2>1. op[o].state \in {"queued", "running"} /\ op' = [op EXCEPT ![o] = r]
          BY <1>1, <1>6 DEF AcquireLease, Acquirable
      <2>2. r.state = "running"
          BY <1>1 DEF OperationRecord
      <2> HIDE DEF r
      <2>3. op' = [op EXCEPT ![o] = op'[o]] /\ op'[o].state = "running"
          BY <1>1, <2>1, <2>2
      <2> QED
          BY <1>1, <2>1, <2>3, TableMove
  <1>7. ASSUME NEW w \in Workers, worker[w].op # NoOp, Owns(w),
               NEW s \in Settled, op' = Ended(worker[w].op, s)
        PROVE  Follows
      <2>1. PICK o \in Ops : o = worker[w].op
          BY <1>7, AtWork
      <2>2. op[o].state = "running"
          BY <1>7, <2>1 DEF Owns
      <2>3. /\ op' \in [Ops -> OperationRecord] /\ op'[o].state = s
            /\ \A p \in Ops \ {o} : op'[p] = op[p]
          BY <1>1, <1>7, <2>1, EndedOps
      <2>4. op' = [op EXCEPT ![o] = op'[o]]
          BY <1>1, <2>3
      <2>5. op'[o].state \in {"succeeded", "failed",
                              "operator_intervention_required"}
          BY <2>3 DEF Settled, Terminal
      <2> QED
          BY <1>1, <2>2, <2>4, <2>5, TableMove
  <1>8. ASSUME NEW w \in Workers, worker[w].op # NoOp,
               \E s \in Settled : End(w, s)
        PROVE  Follows
      BY <1>7, <1>8 DEF End
  <1>9. /\ "succeeded" \in Settled /\ "failed" \in Settled
        /\ "operator_intervention_required" \in Settled
      BY DEF Settled, Terminal
  <1>10. ASSUME NEW w \in Workers, RepoExecutor(w) PROVE Follows
      <2>0. worker[w].op # NoOp
          BY <1>10 DEF RepoExecutor
      <2>1. CASE \/ ListHeldFences(w) \/ LoadMetadata(w) \/ AcquireFence(w)
                 \/ CreateStorage(w) \/ RepoCreateRefused(w) \/ ValidateSource(w)
                 \/ MarkWriterFenced(w) \/ CheckWriterSessions(w)
                 \/ MarkRefused(w) \/ SaveSource(w) \/ Clone(w)
                 \/ TemplateRefused(w) \/ ValidateTemplate(w)
          BY <1>2, <2>1 DEF ListHeldFences, LoadMetadata, AcquireFence,
             CreateStorage, RepoCreateRefused, ValidateSource, MarkWriterFenced,
             CheckWriterSessions, MarkRefused, SaveSource, Clone,
             TemplateRefused, ValidateTemplate
      <2>2. CASE \/ CommitRepoCreateSucceeded(w) \/ CommitRepoCreateFailed(w)
                 \/ CommitRepoCreateIntervention(w)
                 \/ CommitTemplateCreateSucceeded(w)
                 \/ CommitTemplateCreateFailed(w) \/ CommitTemplateIntervention(w)
                 \/ CommitTemplateCloneSucceeded(w)
                 \/ CommitTemplateCloneFailed(w)
          <3>1. \E s \in Settled : End(w, s)
              BY <1>9, <2>2 DEF CommitRepoCreateSucceeded,
                 CommitRepoCreateFailed, CommitRepoCreateIntervention,
                 EndRepoCreate, CommitTemplateCreateSucceeded,
                 CommitTemplateCreateFailed, CommitTemplateIntervention,
                 CommitTemplateCloneSucceeded, CommitTemplateCloneFailed,
                 InsertRow
          <3> QED
              BY <1>8, <2>0, <3>1
      <2> QED
          BY <1>10, <2>1, <2>2 DEF RepoExecutor, RepoCreateExecutor,
             TemplateCreateExecutor, TemplateCloneExecutor
  <1>11. ASSUME NEW w \in Workers, CatalogExecutor(w) PROVE Follows
      <2>0. worker[w].op # NoOp
          BY <1>11 DEF CatalogExecutor
      <2>1. CASE \/ CommitVolumeEnsure(w) \/ CommitNamespaceUpsert(w)
                 \/ CommitBindingPut(w) \/ CommitBindingFailed(w)
          <3>1. \E s \in Settled : End(w, s)
              BY <1>9, <2>1 DEF CommitVolumeEnsure, CommitNamespaceUpsert,
                 CommitBindingPut, CommitBindingFailed
          <3> QED
              BY <1>8, <2>0, <3>1
      <2>2. CASE CommitNamespaceDisable(w)
          <3>1. Owns(w) /\ op' = Ended(worker[w].op, "succeeded")
              BY <2>2 DEF CommitNamespaceDisable
          <3> QED
              BY <1>7, <1>9, <2>0, <3>1
      <2>3. CASE \/ ReadDependencies(w) \/ BindingRefused(w)
                 \/ CatalogRefused(w, {"volume_ensure"})
                 \/ CatalogRefused(w, {"namespace_upsert", "namespace_disable"})
          BY <1>2, <2>3 DEF ReadDependencies, BindingRefused, CatalogRefused
      <2> QED
          BY <1>11, <2>1, <2>2, <2>3 DEF CatalogExecutor, VolumeExecutor,
             NamespaceExecutor, BindingExecutor
  <1>12. ASSUME NEW w \in Workers, MetadataReadPending(w) PROVE Follows
      <2>1. CASE Owns(w)
          <3>1. PICK o \in Ops : o = worker[w].op
              BY <1>12, AtWork DEF MetadataReadPending, AtStep, IndInv, History,
                 WorkerInv, TypeOK, CatalogTypeOK, WorkerRecord
          <3>2. op' = [op EXCEPT ![o].lease = "expired"]
              BY <1>1, <1>12, <2>1, <3>1 DEF MetadataReadPending, Pending
          <3> QED
              BY <1>5, <3>2
      <2>2. CASE ~ Owns(w)
          BY <1>2, <1>12, <2>2 DEF MetadataReadPending
      <2> QED
          BY <2>1, <2>2
  <1>13. ASSUME NEW o \in Ops, Expire(o) \/ Stall(o) PROVE Follows
      BY <1>5, <1>13 DEF Expire, Stall
  <1>14. ASSUME NEW w \in Workers, Stop(w) PROVE Follows
      BY <1>2, <1>14 DEF Stop
  <1>15. CASE OpenSession \/ SessionEnds \/ UNCHANGED vars
      BY <1>2, <1>15 DEF OpenSession, SessionEnds, vars, catalogVars
  <1> QED
      BY <1>4, <1>6, <1>10, <1>11, <1>12, <1>13, <1>14, <1>15 DEF Next, Executor

\* Operations of the catalog, of repo creation and of templates live as the
\* state table of state.go says, although their statements do not consult it.
THEOREM ImplementsStates == Spec => StatesSpec
  <1> DEFINE st == [o \in Ops |-> op[o].state]
  <1>1. Init => States!Init
      BY DEF Init, NoOperation, States!Init, States!Absent
  <1>2. IndInv /\ [Next]_vars => [States!Next]_st
      BY StepFollowsTable
  <1> QED
      BY <1>1, <1>2, IndInvAlways, PTL DEF Spec, StatesSpec, States!Spec

==============================================================================

-------------------------- MODULE RepoLifecycle_proofs ------------------------
(***************************************************************************)
(* Archive, delete, restore and purge, proved for any operations, workers, *)
(* retention and bounds.                                                   *)
(*                                                                         *)
(* The inductive invariant is about what a worker may still believe.  A    *)
(* purge that has passed its fence, or found the fence its own, still      *)
(* holds it unless the storage is already gone; a purge about to report    *)
(* success has left nothing behind.  And until its lease expires under it  *)
(* a worker owns its operation alone, so the fences it has read tell it    *)
(* whether it holds one.  A second invariant, which rests on the first,    *)
(* follows the sessions past the snapshot of a commit.                     *)
(***************************************************************************)
EXTENDS RepoLifecycle, TLAPS

Handles(w) ==
    /\ worker[w].pc = "idle" <=> worker[w].op = NoOp
    /\ worker[w].op # NoOp => op[worker[w].op].state # "absent"

UnderFence == {"drain", "storage", "removing"}

PurgeKeepsFence(w) ==
    worker[w].op # NoOp /\ op[worker[w].op].type = "repo_purge" =>
        /\ worker[w].held = "own" \/ worker[w].pc \in UnderFence =>
               fence = worker[w].op \/ storage = "absent"
        /\ worker[w].pc \in {"succeed", "commit"} => storage = "absent"

SoleOwner(w) ==
    worker[w].op # NoOp /\ worker[w].op \notin stalled =>
        /\ Owns(w)
        /\ /\ fence = worker[w].op
           /\ worker[w].pc \in {"repo", "earlier", "acquire", "fail"}
           => worker[w].held = "own"

WorkerInv(w) == Handles(w) /\ PurgeKeepsFence(w) /\ SoleOwner(w)

IndInv ==
    /\ TypeOK
    /\ \A w \in Workers : WorkerInv(w)
    /\ PurgedIsGone
    /\ EndedOperationFreesFence

USE OpsAssumption, NullAssumption, TimeAssumption, FaultAssumption
USE DEF sessionVars, faultVars

LEMMA IdleWorkerType ==
    IdleWorker \in WorkerRecord /\ 0 \in Times /\ Never \in Times
    /\ \A t \in 0..MaxTime : t \in Times
  BY DEF IdleWorker, WorkerRecord, Times, Never, Statuses

\* The initial state satisfies the inductive invariant.
LEMMA InitIndInv == Init => IndInv
  <1> SUFFICES ASSUME Init PROVE IndInv
      OBVIOUS
  <1>1. 0..Retention \subseteq Times
      BY DEF Times, Never
  <1>2. repo \in Repo
      BY <1>1, IdleWorkerType DEF Init, Blank, Repo, Statuses
  <1>3. op \in [Ops -> OperationRecord]
      BY IdleWorkerType DEF Init, OperationRecord
  <1>4. TypeOK
      <2>1. enabled \in BOOLEAN /\ creating \in BOOLEAN /\ overtaken \in BOOLEAN
          BY DEF Init
      <2>2. /\ storage \in {"present", "partial", "absent"}
            /\ fence \in Ops \cup {NoOp} /\ fences \subseteq Ops
            /\ session \in {"none", "active", "stale"}
            /\ worker \in [Workers -> WorkerRecord]
            /\ now \in 0..MaxTime /\ faults \in 0..MaxFaults
            /\ stalled \subseteq Ops
          BY IdleWorkerType DEF Init
      <2> QED
          BY <1>2, <1>3, <2>1, <2>2 DEF TypeOK
  <1>5. \A w \in Workers : WorkerInv(w)
      BY DEF Init, IdleWorker, WorkerInv, Handles, PurgeKeepsFence, SoleOwner
  <1>6. /\ PurgedIsGone
        /\ EndedOperationFreesFence
      BY DEF Init, Blank, PurgedIsGone, EndedOperationFreesFence
  <1> QED
      BY <1>4, <1>5, <1>6 DEF IndInv

\* The rows and memories the steps write are of their types again.
LEMMA GotoType ==
    ASSUME TypeOK, NEW w \in Workers, NEW s,
           s \in {"idle", "fences", "repo", "earlier", "acquire", "drain",
                  "storage", "removing", "succeed", "commit", "fail",
                  "intervene"},
           Goto(w, s)
    PROVE  /\ worker' \in [Workers -> WorkerRecord]
           /\ \A v \in Workers \ {w} : worker'[v] = worker[v]
           /\ worker'[w].pc = s /\ worker'[w].op = worker[w].op
           /\ worker'[w].held = worker[w].held
  <1> DEFINE m == [worker[w] EXCEPT !.pc = s]
  <1>1. worker[w] \in WorkerRecord /\ worker' = [worker EXCEPT ![w] = m]
      BY DEF TypeOK, Goto
  <1>2. /\ m \in WorkerRecord /\ m.pc = s
        /\ m.op = worker[w].op /\ m.held = worker[w].held
      BY <1>1 DEF WorkerRecord
  <1> HIDE DEF m
  <1> QED
      BY <1>1, <1>2 DEF TypeOK

LEMMA EndedType ==
    ASSUME TypeOK, NEW o \in Ops,
           NEW s \in {"succeeded", "failed", "operator_intervention_required"}
    PROVE  /\ Ended(o, s) \in [Ops -> OperationRecord]
           /\ Ended(o, s)[o].state = s
           /\ Ended(o, s)[o].type = op[o].type
           /\ \A p \in Ops \ {o} : Ended(o, s)[p] = op[p]
  <1> DEFINE r == [op[o] EXCEPT !.state = s, !.lease = "none",
                               !.owner = NoOwner]
  <1>1. op[o] \in OperationRecord
      BY DEF TypeOK
  <1>2. r \in OperationRecord /\ r.state = s /\ r.type = op[o].type
      BY <1>1 DEF OperationRecord, Terminal
  <1>3. Ended(o, s) = [op EXCEPT ![o] = r]
      BY <1>1 DEF Ended, TypeOK
  <1> QED
      BY <1>2, <1>3 DEF TypeOK

\* A step that only changes what one worker remembers preserves the
\* invariant when it does for that worker.
LEMMA OneWorkerMoves ==
    ASSUME IndInv, TypeOK', NEW w \in Workers,
           UNCHANGED <<repo, storage, fence, op, stalled>>,
           \A v \in Workers \ {w} : worker'[v] = worker[v],
           WorkerInv(w)'
    PROVE  IndInv'
  BY DEF IndInv, WorkerInv, Handles, PurgeKeepsFence, SoleOwner, Owns,
         PurgedIsGone, EndedOperationFreesFence

\* A worker that has given up its operation remembers nothing.
LEMMA IdleIsFine ==
    ASSUME NEW w \in Workers, worker'[w] = IdleWorker
    PROVE  WorkerInv(w)'
  BY DEF WorkerInv, Handles, PurgeKeepsFence, SoleOwner, IdleWorker

\* Type correctness is preserved by every step.  A worker's commit writes a
\* row of its type because the store checks the record it is given.
LEMMA TypeNext == IndInv /\ [Next]_vars => TypeOK'
  <1> SUFFICES ASSUME IndInv, [Next]_vars PROVE TypeOK'
      OBVIOUS
  <1> USE IdleWorkerType
  <1>0. TypeOK
      BY DEF IndInv
  <1>a. ASSUME NEW w \in Workers, ~AtStep(w, "idle")
        PROVE  worker[w].op \in Ops
      BY <1>0, <1>a DEF AtStep, IndInv, WorkerInv, Handles, TypeOK, WorkerRecord
  <1>1. ASSUME NEW o \in Ops, NEW t \in Types, NEW b \in BOOLEAN,
               AdmitLifecycle(o, t, b)
        PROVE  TypeOK'
      <2> DEFINE r == [op[o] EXCEPT !.type = t, !.state = "queued",
                                    !.created = now, !.override = b]
      <2>1. op[o] \in OperationRecord /\ now \in Times
          BY <1>0 DEF TypeOK
      <2>2. r \in OperationRecord
          BY <2>1 DEF OperationRecord
      <2>3. op' = [op EXCEPT ![o] = r]
          BY <1>1, <2>1, <1>0 DEF AdmitLifecycle, TypeOK
      <2> QED
          BY <1>0, <1>1, <2>2, <2>3 DEF AdmitLifecycle, TypeOK
  <1>2. ASSUME NEW o \in Ops, Expire(o) \/ Stall(o) PROVE TypeOK'
      <2>1. [op[o] EXCEPT !.lease = "expired"] \in OperationRecord
          BY <1>0 DEF TypeOK, OperationRecord
      <2>2. op' = [op EXCEPT ![o] = [op[o] EXCEPT !.lease = "expired"]]
          BY <1>0, <1>2 DEF Expire, Stall, TypeOK
      <2>3. faults' \in 0..MaxFaults /\ stalled' \subseteq Ops
          BY <1>0, <1>2 DEF Expire, Stall, TypeOK
      <2> QED
          BY <1>0, <1>2, <2>1, <2>2, <2>3 DEF Expire, Stall, TypeOK
  <1>3. ASSUME NEW w \in Workers, NEW o \in Ops, AcquireLease(w, o)
        PROVE  TypeOK'
      <2> DEFINE r == [op[o] EXCEPT !.state = "running", !.lease = "live",
                                    !.owner = w]
                 m == [IdleWorker EXCEPT !.pc = "fences", !.op = o, !.at = now]
      <2>1. op[o] \in OperationRecord /\ now \in Times
          BY <1>0 DEF TypeOK
      <2>2. r \in OperationRecord
          BY <2>1 DEF OperationRecord
      <2>3. m \in WorkerRecord
          BY <2>1 DEF WorkerRecord
      <2>4. op' = [op EXCEPT ![o] = r] /\ worker' = [worker EXCEPT ![w] = m]
          BY <1>0, <1>3 DEF AcquireLease, TypeOK
      <2> QED
          BY <1>0, <1>3, <2>2, <2>3, <2>4 DEF AcquireLease, TypeOK
  <1>4. ASSUME NEW w \in Workers, ListHeldFences(w) PROVE TypeOK'
      <2> DEFINE h == CASE fence = NoOp -> "none"
                        [] fence = worker[w].op -> "own"
                        [] OTHER -> "other"
                 m == [worker[w] EXCEPT !.pc = "repo", !.held = h]
      <2>1. worker[w] \in WorkerRecord
          BY <1>0 DEF TypeOK
      <2>2. h \in {"none", "own", "other"}
          OBVIOUS
      <2>3. worker' = [worker EXCEPT ![w].pc = "repo", ![w].held = h]
          BY <1>4 DEF ListHeldFences
      <2> HIDE DEF h
      <2>4. m \in WorkerRecord /\ worker' = [worker EXCEPT ![w] = m]
          BY <1>0, <2>1, <2>2, <2>3 DEF TypeOK, WorkerRecord
      <2> QED
          BY <1>0, <1>4, <2>4 DEF ListHeldFences, TypeOK
  <1>5. ASSUME NEW w \in Workers, ReadRepo(w) PROVE TypeOK'
      <2>1. PICK s \in {"earlier", "intervene", "acquire", "fail"} :
                worker' = [worker EXCEPT
                    ![w].pc = s,
                    ![w].seen = [status |-> repo.status, pre |-> repo.pre],
                    ![w].allowed = TargetAllowed(repo, worker[w].op)]
          BY <1>5 DEF ReadRepo
      <2> DEFINE b == TargetAllowed(repo, worker[w].op)
                 q == [status |-> repo.status, pre |-> repo.pre]
                 m == [worker[w] EXCEPT !.pc = s, !.seen = q, !.allowed = b]
      <2>2. worker[w] \in WorkerRecord
          BY <1>0 DEF TypeOK
      <2>3. b \in BOOLEAN
          BY DEF TargetAllowed
      <2>4. q \in [status: Statuses, pre: {"none", "active", "archived"}]
          BY <1>0 DEF TypeOK, Repo
      <2> HIDE DEF b, q
      <2>5. m \in WorkerRecord
          BY <2>2, <2>3, <2>4 DEF WorkerRecord
      <2>6. worker' = [worker EXCEPT ![w] = m]
          BY <1>0, <2>1 DEF TypeOK, b, q
      <2>7. UNCHANGED <<repo, storage, enabled, fence, fences, sessionVars, op,
                        now, faultVars>>
          BY <1>5 DEF ReadRepo
      <2> QED
          BY <1>0, <2>5, <2>6, <2>7 DEF TypeOK
  <1>6. ASSUME NEW w \in Workers, ListEarlier(w) PROVE TypeOK'
      <2>1. Goto(w, "intervene") \/ Goto(w, "acquire")
          BY <1>6 DEF ListEarlier
      <2>2. worker' \in [Workers -> WorkerRecord]
          BY <1>0, <2>1, GotoType
      <2> QED
          BY <1>0, <1>6, <2>2 DEF ListEarlier, TypeOK
  <1>7. ASSUME NEW w \in Workers, AcquireFence(w) PROVE TypeOK'
      <2>1. \/ worker' = [worker EXCEPT ![w] = IdleWorker]
            \/ \E s \in {"drain", "intervene", "fail"} : Goto(w, s)
          BY <1>7 DEF AcquireFence
      <2>2. worker' \in [Workers -> WorkerRecord]
          <3>1. CASE worker' = [worker EXCEPT ![w] = IdleWorker]
              BY <1>0, <3>1 DEF TypeOK
          <3>2. ASSUME NEW s \in {"drain", "intervene", "fail"}, Goto(w, s)
                PROVE  worker' \in [Workers -> WorkerRecord]
              BY <1>0, <3>2, GotoType
          <3> QED
              BY <2>1, <3>1, <3>2
      <2>3. worker[w].op \in Ops
          BY <1>7, <1>a DEF AcquireFence, AtStep
      <2>4. fence' \in Ops \cup {NoOp} /\ fences' \subseteq Ops
          BY <1>0, <1>7, <2>3 DEF AcquireFence, CreateRepoFence, TypeOK
      <2> QED
          BY <1>0, <1>7, <2>2, <2>4 DEF AcquireFence, TypeOK
  <1>8. ASSUME NEW w \in Workers, DrainGate(w) PROVE TypeOK'
      <2>1. \/ worker' = [worker EXCEPT ![w] = IdleWorker]
            \/ worker' = [worker EXCEPT ![w] = [worker[w] EXCEPT !.pc = "storage"]]
            \/ worker' = [worker EXCEPT ![w] = [worker[w] EXCEPT !.pc = "intervene"]]
          BY <1>8 DEF DrainGate
      <2>2. /\ [worker[w] EXCEPT !.pc = "storage"] \in WorkerRecord
            /\ [worker[w] EXCEPT !.pc = "intervene"] \in WorkerRecord
          BY <1>0 DEF TypeOK, WorkerRecord
      <2> QED
          BY <1>0, <1>8, <2>1, <2>2 DEF DrainGate, TypeOK
  <1>9. ASSUME NEW w \in Workers,
               LifecycleStorage(w) \/ InspectStorage(w) \/ ReadSnapshot(w)
        PROVE  TypeOK'
      <2>1. \/ Goto(w, "succeed") \/ Goto(w, "removing") \/ Goto(w, "intervene")
            \/ Goto(w, "commit")
          BY <1>9 DEF LifecycleStorage, InspectStorage, ReadSnapshot
      <2>2. worker' \in [Workers -> WorkerRecord]
          BY <1>0, <2>1, GotoType
      <2> QED
          BY <1>0, <1>9, <2>2 DEF LifecycleStorage, InspectStorage,
             ReadSnapshot, TypeOK
  <1>10. ASSUME NEW w \in Workers, RemoveStorage(w) PROVE TypeOK'
      <2>1. worker' = worker \/ Goto(w, "succeed") \/ Goto(w, "intervene")
          BY <1>10 DEF RemoveStorage
      <2>2. worker' \in [Workers -> WorkerRecord]
          BY <1>0, <2>1, GotoType DEF TypeOK
      <2>3. storage' \in {"present", "partial", "absent"}
          BY <1>0, <1>10 DEF RemoveStorage, TypeOK
      <2> QED
          BY <1>0, <1>10, <2>2, <2>3 DEF RemoveStorage, TypeOK
  <1>11. ASSUME NEW w \in Workers, CommitSucceeded(w) PROVE TypeOK'
      <2>1. worker[w].op \in Ops
          BY <1>11, <1>a DEF CommitSucceeded, AtStep
      <2>2. op' \in [Ops -> OperationRecord]
          BY <1>0, <1>11, <2>1, EndedType DEF CommitSucceeded
      <2>3. repo' \in Repo
          <3>1. CASE LifecycleRowsAllow(w)
              BY <1>11, <3>1 DEF CommitSucceeded, LifecycleRowsAllow,
                 LifecycleRecord
          <3>2. CASE PurgeRowsAllow(w)
              <4>1. repo' = [status |-> "purged", pre |-> worker[w].seen.pre,
                             expires |-> Never, updated |-> worker[w].at]
                  BY <1>11, <3>2 DEF CommitSucceeded, PurgeRowsAllow, Target,
                     Type
              <4> QED
                  BY <1>0, <4>1 DEF TypeOK, WorkerRecord, Repo, Statuses
          <3> QED
              BY <1>11, <3>1, <3>2 DEF CommitSucceeded, RowsAllow
      <2> QED
          BY <1>0, <1>11, <2>2, <2>3 DEF CommitSucceeded, TypeOK
  <1>12. ASSUME NEW w \in Workers, CommitFailed(w) PROVE TypeOK'
      <2>1. worker[w].op \in Ops
          BY <1>12, <1>a DEF CommitFailed, AtStep
      <2>2. op' \in [Ops -> OperationRecord]
          BY <1>0, <1>12, <2>1, EndedType DEF CommitFailed
      <2> QED
          BY <1>0, <1>12, <2>2 DEF CommitFailed, TypeOK
  <1>13. ASSUME NEW w \in Workers, CommitIntervention(w) PROVE TypeOK'
      <2>1. worker[w].op \in Ops
          BY <1>13, <1>a DEF CommitIntervention, AtStep
      <2>2. op' \in [Ops -> OperationRecord]
          BY <1>0, <1>13, <2>1, EndedType DEF CommitIntervention
      <2> QED
          BY <1>0, <1>13, <2>2 DEF CommitIntervention, TypeOK
  <1>14. ASSUME NEW w \in Workers, CommitRejected(w) \/ Stop(w) PROVE TypeOK'
      <2>1. worker' = [worker EXCEPT ![w] = IdleWorker]
          BY <1>14 DEF CommitRejected, Stop
      <2>2. faults' \in 0..MaxFaults
          BY <1>0, <1>14 DEF CommitRejected, Stop, TypeOK
      <2> QED
          BY <1>0, <1>14, <2>1, <2>2 DEF CommitRejected, Stop, TypeOK
  <1>15. CASE BeginCreate \/ CreateSession \/ CreateRefused \/ SessionChanges
      <2>1. UNCHANGED <<repo, storage, enabled, fence, fences, op, worker, now,
                        faultVars>>
          BY <1>15 DEF BeginCreate, CreateSession, CreateRefused, SessionChanges
      <2>2. session' \in {"none", "active", "stale"}
          BY <1>0, <1>15 DEF BeginCreate, CreateSession, CreateRefused,
             SessionChanges, Sessions!Begin, Sessions!Open, Sessions!GiveUp,
             Sessions!Change, TypeOK
      <2>3. creating' \in BOOLEAN
          BY <1>0, <1>15 DEF BeginCreate, CreateSession, CreateRefused,
             SessionChanges, Sessions!Begin, Sessions!Change, TypeOK
      <2>4. overtaken' \in BOOLEAN
          BY <1>0, <1>15 DEF BeginCreate, CreateSession, CreateRefused,
             SessionChanges, TypeOK
      <2> QED
          BY <1>0, <2>1, <2>2, <2>3, <2>4 DEF TypeOK
  <1>16. CASE DisableNamespace
      BY <1>0, <1>16 DEF DisableNamespace, TypeOK
  <1>17. CASE Tick
      BY <1>0, <1>17 DEF Tick, TypeOK
  <1>18. CASE UNCHANGED vars
      BY <1>0, <1>18 DEF vars, TypeOK
  <1> QED
      BY <1>1, <1>2, <1>3, <1>4, <1>5, <1>6, <1>7, <1>8, <1>9, <1>10, <1>11,
         <1>12, <1>13, <1>14, <1>15, <1>16, <1>17, <1>18
         DEF Next, Executor, Common, LifecycleExecutor, PurgeExecutor

\* Every step preserves the inductive invariant.
LEMMA IndInvNext == IndInv /\ [Next]_vars => IndInv'
  <1> SUFFICES ASSUME IndInv, [Next]_vars PROVE IndInv'
      OBVIOUS
  <1> DEFINE Table == /\ PurgedIsGone
                      /\ EndedOperationFreesFence
  <1>0. TypeOK /\ TypeOK'
      BY TypeNext DEF IndInv
  <1>a. ASSUME NEW w \in Workers, ~AtStep(w, "idle")
        PROVE  worker[w].op \in Ops /\ worker[w].op # NoOp
      BY <1>0, <1>a DEF AtStep, IndInv, WorkerInv, Handles, TypeOK, WorkerRecord
  <1>1. ASSUME NEW o \in Ops, NEW t \in Types, NEW b \in BOOLEAN,
               AdmitLifecycle(o, t, b)
        PROVE  IndInv'
      <2>1. /\ op[o].state = "absent" /\ op'[o].state = "queued"
            /\ \A p \in Ops \ {o} : op'[p] = op[p]
          BY <1>0, <1>1 DEF AdmitLifecycle, TypeOK
      <2>2. UNCHANGED <<repo, storage, fence, worker, stalled>>
          BY <1>1 DEF AdmitLifecycle
      <2>3. ASSUME NEW w \in Workers PROVE WorkerInv(w)'
          <3>1. WorkerInv(w) /\ worker[w].op \in Ops \cup {NoOp}
              BY <1>0 DEF IndInv, TypeOK, WorkerRecord
          <3>2. worker[w].op # o
              BY <2>1, <3>1 DEF WorkerInv, Handles
          <3> QED
              BY <2>1, <2>2, <3>1, <3>2 DEF WorkerInv, Handles, PurgeKeepsFence,
                 SoleOwner, Owns
      <2>4. Table'
          BY <1>0, <2>1, <2>2 DEF IndInv, PurgedIsGone,
             EndedOperationFreesFence, TypeOK, Terminal
      <2> QED
          BY <1>0, <2>3, <2>4 DEF IndInv
  <1>2. ASSUME NEW o \in Ops, Expire(o) \/ Stall(o) PROVE IndInv'
      <2>1. /\ \A p \in Ops : /\ op'[p].state = op[p].state
                              /\ op'[p].type = op[p].type
                              /\ op'[p].owner = op[p].owner
                              /\ p # o => op'[p] = op[p]
            /\ UNCHANGED <<repo, storage, fence, worker>>
          BY <1>0, <1>2 DEF Expire, Stall, TypeOK, OperationRecord
      <2>2. /\ stalled \subseteq stalled'
            /\ o \notin stalled' => ~Works(o)
          BY <1>0, <1>2 DEF Expire, Stall, TypeOK
      <2>3. ASSUME NEW w \in Workers PROVE WorkerInv(w)'
          <3>1. WorkerInv(w) /\ worker[w].op \in Ops \cup {NoOp}
              BY <1>0 DEF IndInv, TypeOK, WorkerRecord
          <3>2. Handles(w)' /\ PurgeKeepsFence(w)'
              BY <2>1, <3>1 DEF WorkerInv, Handles, PurgeKeepsFence
          <3>3. o \notin stalled' => worker[w].op # o
              BY <2>2, <3>1 DEF WorkerInv, SoleOwner, Owns, Works
          <3>4. SoleOwner(w)'
              BY <2>1, <2>2, <3>1, <3>3 DEF WorkerInv, SoleOwner, Owns
          <3> QED
              BY <3>2, <3>4 DEF WorkerInv
      <2>4. Table'
          BY <1>0, <2>1, <2>2 DEF IndInv, PurgedIsGone,
             EndedOperationFreesFence, TypeOK
      <2> QED
          BY <1>0, <2>3, <2>4 DEF IndInv
  <1>3. ASSUME NEW w \in Workers, NEW o \in Ops, AcquireLease(w, o)
        PROVE  IndInv'
      <2>1. /\ op'[o].state = "running" /\ op'[o].owner = w
            /\ op'[o].lease = "live" /\ op'[o].type = op[o].type
            /\ \A p \in Ops \ {o} : op'[p] = op[p]
            /\ op[o].state = "queued" \/ op[o].lease = "expired"
            /\ op[o].state \in {"queued", "running"}
          BY <1>0, <1>3 DEF AcquireLease, Acquirable, TypeOK, OperationRecord
      <2>2. /\ worker'[w].pc = "fences" /\ worker'[w].op = o
            /\ worker'[w].held = "none"
            /\ \A v \in Workers \ {w} : worker'[v] = worker[v]
            /\ UNCHANGED <<repo, storage, fence, stalled>>
          BY <1>0, <1>3 DEF AcquireLease, IdleWorker, TypeOK
      <2>3. WorkerInv(w)'
          BY <2>1, <2>2 DEF WorkerInv, Handles, PurgeKeepsFence, SoleOwner, Owns,
             UnderFence
      <2>4. ASSUME NEW v \in Workers \ {w} PROVE WorkerInv(v)'
          <3>1. WorkerInv(v) /\ worker[v].op \in Ops \cup {NoOp}
              BY <1>0 DEF IndInv, TypeOK, WorkerRecord
          <3>2. o \notin stalled => worker[v].op # o
              BY <2>1, <3>1 DEF WorkerInv, SoleOwner, Owns
          <3>3. \A p \in Ops :
                    /\ op'[p].type = op[p].type
                    /\ op[p].state # "absent" => op'[p].state # "absent"
              BY <2>1
          <3>4. Handles(v)'
              <4>1. worker'[v] = worker[v]
                  BY <2>2
              <4> QED
                  BY <3>1, <3>3, <4>1 DEF WorkerInv, Handles
          <3>5. PurgeKeepsFence(v)'
              BY <2>2, <3>1, <3>3 DEF WorkerInv, PurgeKeepsFence
          <3>6. SoleOwner(v)'
              BY <2>1, <2>2, <3>1, <3>2 DEF WorkerInv, SoleOwner, Owns
          <3> QED
              BY <3>4, <3>5, <3>6 DEF WorkerInv
      <2>5. Table'
          BY <1>0, <2>1, <2>2 DEF IndInv, PurgedIsGone,
             EndedOperationFreesFence, TypeOK, Terminal
      <2> QED
          BY <1>0, <2>3, <2>4, <2>5 DEF IndInv
  <1>4. ASSUME NEW w \in Workers, ListHeldFences(w) PROVE IndInv'
      <2>1. /\ UNCHANGED <<repo, storage, fence, op, stalled>>
            /\ \A v \in Workers \ {w} : worker'[v] = worker[v]
            /\ worker'[w].pc = "repo" /\ worker'[w].op = worker[w].op
            /\ worker[w].op # NoOp
          BY <1>0, <1>4, <1>a DEF ListHeldFences, AtStep, TypeOK, WorkerRecord
      <2>2. worker'[w].held = CASE fence = NoOp -> "none"
                                [] fence = worker[w].op -> "own"
                                [] OTHER -> "other"
          BY <1>0, <1>4 DEF ListHeldFences, TypeOK, WorkerRecord
      <2>3. WorkerInv(w)'
          BY <1>4, <2>1, <2>2 DEF ListHeldFences, AtStep, IndInv, WorkerInv,
             Handles, PurgeKeepsFence, SoleOwner, Owns, UnderFence
      <2> QED
          BY <1>0, <2>1, <2>3, OneWorkerMoves
  <1>5. ASSUME NEW w \in Workers, ReadRepo(w) PROVE IndInv'
      <2>1. /\ UNCHANGED <<repo, storage, fence, op, stalled>>
            /\ worker[w].pc = "repo"
          BY <1>5 DEF ReadRepo, AtStep
      <2>2. PICK s \in {"earlier", "intervene", "acquire", "fail"} :
                worker' = [worker EXCEPT
                    ![w].pc = s,
                    ![w].seen = [status |-> repo.status, pre |-> repo.pre],
                    ![w].allowed = TargetAllowed(repo, worker[w].op)]
          BY <1>5 DEF ReadRepo
      <2>3. /\ \A v \in Workers \ {w} : worker'[v] = worker[v]
            /\ worker'[w].pc = s /\ worker'[w].op = worker[w].op
            /\ worker'[w].held = worker[w].held
          BY <1>0, <2>2 DEF TypeOK, WorkerRecord
      <2>4. WorkerInv(w)'
          BY <2>1, <2>3 DEF IndInv, WorkerInv, Handles, PurgeKeepsFence,
             SoleOwner, Owns, UnderFence
      <2> QED
          BY <1>0, <2>1, <2>3, <2>4, OneWorkerMoves
  <1>6. ASSUME NEW w \in Workers, ListEarlier(w) PROVE IndInv'
      <2>1. /\ UNCHANGED <<repo, storage, fence, op, stalled>>
            /\ worker[w].pc = "earlier"
            /\ Goto(w, "intervene") \/ Goto(w, "acquire")
          BY <1>6 DEF ListEarlier, AtStep
      <2>2. /\ \A v \in Workers \ {w} : worker'[v] = worker[v]
            /\ worker'[w].pc \in {"intervene", "acquire"}
            /\ worker'[w].op = worker[w].op
            /\ worker'[w].held = worker[w].held
          BY <1>0, <2>1, GotoType
      <2>3. WorkerInv(w)'
          BY <2>1, <2>2 DEF IndInv, WorkerInv, Handles, PurgeKeepsFence,
             SoleOwner, Owns, UnderFence
      <2> QED
          BY <1>0, <2>1, <2>2, <2>3, OneWorkerMoves
  <1>7. ASSUME NEW w \in Workers, AcquireFence(w) PROVE IndInv'
      <2> DEFINE o == worker[w].op
                 s == IF worker[w].allowed THEN "drain" ELSE "intervene"
      <2>1. /\ UNCHANGED <<repo, storage, op, stalled>>
            /\ worker[w].pc = "acquire" /\ o \in Ops /\ o # NoOp
          BY <1>7, <1>a DEF AcquireFence, AtStep
      <2>2. CASE worker[w].held = "own" /\ Goto(w, s) /\ fence' = fence
          <3>1. /\ \A v \in Workers \ {w} : worker'[v] = worker[v]
                /\ worker'[w].pc \in {"drain", "intervene"}
                /\ worker'[w].op = o /\ worker'[w].held = worker[w].held
              BY <1>0, <2>2, GotoType
          <3>2. WorkerInv(w)'
              BY <2>1, <2>2, <3>1 DEF IndInv, WorkerInv, Handles,
                 PurgeKeepsFence, SoleOwner, Owns, UnderFence
          <3> QED
              BY <1>0, <2>1, <2>2, <3>1, <3>2, OneWorkerMoves
      <2>3. CASE /\ worker[w].held # "own" /\ fence' = fence
                 /\ ~CanAcquire(worker[w].held)
                 /\ Goto(w, IF Type(w) = "repo_purge" THEN "intervene"
                                                      ELSE "fail")
          <3>1. /\ \A v \in Workers \ {w} : worker'[v] = worker[v]
                /\ worker'[w].pc \in {"intervene", "fail"}
                /\ worker'[w].op = o /\ worker'[w].held = worker[w].held
              BY <1>0, <2>3, GotoType
          <3>2. WorkerInv(w)'
              BY <2>1, <2>3, <3>1 DEF IndInv, WorkerInv, Handles,
                 PurgeKeepsFence, SoleOwner, Owns, UnderFence
          <3> QED
              BY <1>0, <2>1, <2>3, <3>1, <3>2, OneWorkerMoves
      <2>4. CASE CreateRepoFence(o) /\ Goto(w, s)
          <3>1. fence = NoOp /\ fence' = o
              BY <2>4 DEF CreateRepoFence, FenceRowConflicts
          <3>2. /\ \A v \in Workers \ {w} : worker'[v] = worker[v]
                /\ worker'[w].pc \in {"drain", "intervene"}
                /\ worker'[w].op = o /\ worker'[w].held = worker[w].held
              BY <1>0, <2>4, GotoType
          <3>3. WorkerInv(w)'
              BY <2>1, <3>1, <3>2 DEF IndInv, WorkerInv, Handles,
                 PurgeKeepsFence, SoleOwner, Owns, UnderFence
          <3>4. ASSUME NEW v \in Workers \ {w} PROVE WorkerInv(v)'
              <4>1. WorkerInv(v) /\ WorkerInv(w)
                  BY DEF IndInv
              <4>2. o \notin stalled => worker[v].op # o
                  BY <2>1, <4>1 DEF WorkerInv, SoleOwner, Owns
              <4> QED
                  BY <2>1, <3>1, <3>2, <4>1, <4>2 DEF WorkerInv, Handles,
                     PurgeKeepsFence, SoleOwner, Owns
          <3>5. Table'
              <4>1. o \notin stalled => op[o].state = "running"
                  BY <2>1 DEF IndInv, WorkerInv, SoleOwner, Owns
              <4> QED
                  BY <1>0, <2>1, <3>1, <4>1 DEF IndInv, TypeOK, Terminal,
                     PurgedIsGone, EndedOperationFreesFence
          <3> QED
              BY <1>0, <3>3, <3>4, <3>5 DEF IndInv
      <2>5. CASE worker' = [worker EXCEPT ![w] = IdleWorker] /\ fence' = fence
          <3>1. /\ worker'[w] = IdleWorker
                /\ \A v \in Workers \ {w} : worker'[v] = worker[v]
              BY <1>0, <2>5 DEF TypeOK
          <3> QED
              BY <1>0, <2>1, <2>5, <3>1, IdleIsFine, OneWorkerMoves
      <2> QED
          BY <1>7, <2>2, <2>3, <2>4, <2>5 DEF AcquireFence
  <1>8. ASSUME NEW w \in Workers, DrainGate(w) PROVE IndInv'
      <2>1. /\ UNCHANGED <<repo, storage, fence, op, stalled>>
            /\ worker[w].pc = "drain"
          BY <1>8 DEF DrainGate, AtStep
      <2>2. PICK m \in {IdleWorker, [worker[w] EXCEPT !.pc = "storage"],
                        [worker[w] EXCEPT !.pc = "intervene"]} :
                worker' = [worker EXCEPT ![w] = m]
          BY <1>8 DEF DrainGate
      <2>3. worker'[w] = m /\ \A v \in Workers \ {w} : worker'[v] = worker[v]
          BY <1>0, <2>2 DEF TypeOK
      <2>4. CASE m = IdleWorker
          BY <1>0, <2>1, <2>3, <2>4, IdleIsFine, OneWorkerMoves
      <2>5. CASE m # IdleWorker
          <3>1. /\ m.pc \in {"storage", "intervene"}
                /\ m.op = worker[w].op /\ m.held = worker[w].held
              BY <1>0, <2>2, <2>5 DEF TypeOK, WorkerRecord
          <3>2. WorkerInv(w)'
              BY <2>1, <2>3, <3>1 DEF IndInv, WorkerInv, Handles,
                 PurgeKeepsFence, SoleOwner, Owns, UnderFence
          <3> QED
              BY <1>0, <2>1, <2>3, <3>2, OneWorkerMoves
      <2> QED
          BY <2>4, <2>5
  <1>9. ASSUME NEW w \in Workers, LifecycleStorage(w) PROVE IndInv'
      <2>1. /\ UNCHANGED <<repo, storage, fence, op, stalled>>
            /\ worker[w].pc = "storage" /\ op[worker[w].op].type # "repo_purge"
            /\ Goto(w, "succeed") \/ Goto(w, "intervene")
          BY <1>9 DEF LifecycleStorage, AtStep, Lifecycle, Type
      <2>2. /\ \A v \in Workers \ {w} : worker'[v] = worker[v]
            /\ worker'[w].pc \in {"succeed", "intervene"}
            /\ worker'[w].op = worker[w].op
          BY <1>0, <2>1, GotoType
      <2>3. WorkerInv(w)'
          BY <2>1, <2>2 DEF IndInv, WorkerInv, Handles, PurgeKeepsFence,
             SoleOwner, Owns
      <2> QED
          BY <1>0, <2>1, <2>2, <2>3, OneWorkerMoves
  <1>10. ASSUME NEW w \in Workers, InspectStorage(w) PROVE IndInv'
      <2>1. /\ UNCHANGED <<repo, storage, fence, op, stalled>>
            /\ worker[w].pc = "storage"
            /\ \/ Goto(w, "succeed") /\ storage = "absent"
               \/ Goto(w, "removing") \/ Goto(w, "intervene")
          BY <1>10 DEF InspectStorage, AtStep
      <2>2. /\ \A v \in Workers \ {w} : worker'[v] = worker[v]
            /\ worker'[w].pc \in {"succeed", "removing", "intervene"}
            /\ worker'[w].pc = "succeed" => storage = "absent"
            /\ worker'[w].op = worker[w].op
            /\ worker'[w].held = worker[w].held
          BY <1>0, <2>1, GotoType
      <2>3. WorkerInv(w)'
          BY <2>1, <2>2 DEF IndInv, WorkerInv, Handles, PurgeKeepsFence,
             SoleOwner, Owns, UnderFence
      <2> QED
          BY <1>0, <2>1, <2>2, <2>3, OneWorkerMoves
  <1>11. ASSUME NEW w \in Workers, RemoveStorage(w) PROVE IndInv'
      <2>1. /\ UNCHANGED <<repo, fence, op, stalled>>
            /\ worker[w].pc = "removing"
          BY <1>11 DEF RemoveStorage, AtStep
      <2>2. CASE storage # "absent" /\ worker' = worker
          BY <1>0, <2>1, <2>2 DEF IndInv, WorkerInv, Handles, PurgeKeepsFence,
             SoleOwner, Owns, PurgedIsGone, EndedOperationFreesFence
      <2>3. CASE /\ storage' = storage
                 /\ \/ storage = "absent" /\ Goto(w, "succeed")
                    \/ Goto(w, "intervene")
          <3>1. /\ \A v \in Workers \ {w} : worker'[v] = worker[v]
                /\ worker'[w].pc \in {"succeed", "intervene"}
                /\ worker'[w].pc = "succeed" => storage = "absent"
                /\ worker'[w].op = worker[w].op
                /\ worker'[w].held = worker[w].held
              BY <1>0, <2>3, GotoType
          <3>2. WorkerInv(w)'
              BY <2>1, <2>3, <3>1 DEF IndInv, WorkerInv, Handles,
                 PurgeKeepsFence, SoleOwner, Owns, UnderFence
          <3> QED
              BY <1>0, <2>1, <2>3, <3>1, <3>2, OneWorkerMoves
      <2> QED
          BY <1>11, <2>2, <2>3 DEF RemoveStorage
  <1>12. ASSUME NEW w \in Workers, CommitSucceeded(w) PROVE IndInv'
      <2> DEFINE o == worker[w].op
      <2>1. /\ worker[w].pc = "commit" /\ o \in Ops /\ o # NoOp
            /\ Owns(w) /\ fence = o /\ fence' = NoOp
            /\ UNCHANGED <<storage, stalled>>
          BY <1>12, <1>a DEF CommitSucceeded, RowsAllow, AtStep
      <2>2. /\ op'[o].state = "succeeded" /\ op'[o].type = op[o].type
            /\ \A p \in Ops \ {o} : op'[p] = op[p]
          BY <1>0, <1>12, <2>1, EndedType DEF CommitSucceeded
      <2>3. worker'[w] = IdleWorker
            /\ \A v \in Workers \ {w} : worker'[v] = worker[v]
          BY <1>0, <1>12 DEF CommitSucceeded, TypeOK
      <2>4. op[o].type = "repo_purge" => storage = "absent"
          BY <2>1 DEF IndInv, WorkerInv, PurgeKeepsFence
      <2>5. WorkerInv(w)'
          BY <2>3, IdleIsFine
      <2>6. ASSUME NEW v \in Workers \ {w} PROVE WorkerInv(v)'
          <3>1. WorkerInv(v) /\ worker[v].op \in Ops \cup {NoOp}
              BY <1>0 DEF IndInv, TypeOK, WorkerRecord
          <3>2. Handles(v)'
              BY <2>2, <2>3, <3>1 DEF WorkerInv, Handles
          <3>3. PurgeKeepsFence(v)'
              BY <2>1, <2>2, <2>3, <2>4, <3>1 DEF WorkerInv, PurgeKeepsFence
          <3>4. o \notin stalled => worker[v].op # o
              BY <2>1, <3>1 DEF WorkerInv, SoleOwner, Owns
          <3>5. SoleOwner(v)'
              BY <2>1, <2>2, <2>3, <3>1, <3>4 DEF WorkerInv, SoleOwner, Owns
          <3> QED
              BY <3>2, <3>3, <3>5 DEF WorkerInv
      <2>7. repo'.status = "purged" => storage' = "absent"
          <3>1. CASE op[o].type = "repo_purge"
              BY <2>1, <2>4, <3>1
          <3>2. CASE op[o].type # "repo_purge"
              <4>1. /\ op[o].type \in Lifecycle
                    /\ worker[w].seen.pre \in {"none", "active", "archived"}
                  BY <1>0, <1>12, <3>2 DEF CommitSucceeded, RowsAllow,
                     LifecycleRowsAllow, PurgeRowsAllow, LifecycleRecord, Type,
                     TypeOK, WorkerRecord
              <4>2. repo'.status # "purged"
                  BY <1>12, <4>1 DEF CommitSucceeded, Target, Type, Lifecycle
              <4> QED
                  BY <4>2
          <3> QED
              BY <3>1, <3>2
      <2>8. Table'
          BY <2>1, <2>7 DEF PurgedIsGone, EndedOperationFreesFence
      <2> QED
          BY <1>0, <2>5, <2>6, <2>8 DEF IndInv
  <1>13. ASSUME NEW w \in Workers, Type(w) \in Lifecycle, CommitFailed(w)
         PROVE  IndInv'
      <2> DEFINE o == worker[w].op
      <2>1. /\ worker[w].pc = "fail" /\ o \in Ops /\ o # NoOp
            /\ Owns(w) /\ (worker[w].held = "own" => fence = o)
            /\ fence' = IF worker[w].held = "own" THEN NoOp ELSE fence
            /\ op[o].type # "repo_purge"
            /\ UNCHANGED <<repo, storage, stalled>>
          BY <1>13, <1>a DEF CommitFailed, FailAllowed, AtStep, Type, Lifecycle
      <2>2. /\ op'[o].state = "failed" /\ op'[o].type = op[o].type
            /\ \A p \in Ops \ {o} : op'[p] = op[p]
          BY <1>0, <1>13, <2>1, EndedType DEF CommitFailed
      <2>3. worker'[w] = IdleWorker
            /\ \A v \in Workers \ {w} : worker'[v] = worker[v]
          BY <1>0, <1>13 DEF CommitFailed, TypeOK
      <2>4. WorkerInv(w)'
          BY <2>3, IdleIsFine
      <2>5. ASSUME NEW v \in Workers \ {w} PROVE WorkerInv(v)'
          <3>1. WorkerInv(v) /\ worker[v].op \in Ops \cup {NoOp}
              BY <1>0 DEF IndInv, TypeOK, WorkerRecord
          <3>2. Handles(v)'
              BY <2>2, <2>3, <3>1 DEF WorkerInv, Handles
          <3>3. PurgeKeepsFence(v)'
              BY <2>1, <2>2, <2>3, <3>1 DEF WorkerInv, PurgeKeepsFence
          <3>4. o \notin stalled => worker[v].op # o
              BY <2>1, <3>1 DEF WorkerInv, SoleOwner, Owns
          <3>5. SoleOwner(v)'
              BY <2>1, <2>2, <2>3, <3>1, <3>4 DEF WorkerInv, SoleOwner, Owns
          <3> QED
              BY <3>2, <3>3, <3>5 DEF WorkerInv
      <2>6. o \notin stalled => fence' # o
          BY <2>1 DEF IndInv, WorkerInv, SoleOwner
      <2>7. Table'
          BY <1>0, <2>1, <2>2, <2>6 DEF IndInv, TypeOK, PurgedIsGone,
             EndedOperationFreesFence
      <2> QED
          BY <1>0, <2>4, <2>5, <2>7 DEF IndInv
  <1>14. ASSUME NEW w \in Workers, CommitIntervention(w) PROVE IndInv'
      <2> DEFINE o == worker[w].op
      <2>1. /\ worker[w].pc = "intervene" /\ o \in Ops /\ o # NoOp
            /\ Owns(w) /\ UNCHANGED <<repo, storage, fence, stalled>>
          BY <1>14, <1>a DEF CommitIntervention, AtStep
      <2>2. /\ op'[o].state = "operator_intervention_required"
            /\ op'[o].type = op[o].type
            /\ \A p \in Ops \ {o} : op'[p] = op[p]
          BY <1>0, <1>14, <2>1, EndedType DEF CommitIntervention
      <2>3. worker'[w] = IdleWorker
            /\ \A v \in Workers \ {w} : worker'[v] = worker[v]
          BY <1>0, <1>14 DEF CommitIntervention, TypeOK
      <2>4. WorkerInv(w)'
          BY <2>3, IdleIsFine
      <2>5. ASSUME NEW v \in Workers \ {w} PROVE WorkerInv(v)'
          <3>1. WorkerInv(v) /\ worker[v].op \in Ops \cup {NoOp}
              BY <1>0 DEF IndInv, TypeOK, WorkerRecord
          <3>2. Handles(v)' /\ PurgeKeepsFence(v)'
              BY <2>1, <2>2, <2>3, <3>1 DEF WorkerInv, Handles, PurgeKeepsFence
          <3>3. o \notin stalled => worker[v].op # o
              BY <2>1, <3>1 DEF WorkerInv, SoleOwner, Owns
          <3>4. SoleOwner(v)'
              BY <2>1, <2>2, <2>3, <3>1, <3>3 DEF WorkerInv, SoleOwner, Owns
          <3> QED
              BY <3>2, <3>4 DEF WorkerInv
      <2>6. Table'
          BY <1>0, <2>1, <2>2 DEF IndInv, TypeOK, PurgedIsGone,
             EndedOperationFreesFence, Terminal
      <2> QED
          BY <1>0, <2>4, <2>5, <2>6 DEF IndInv
  <1>15. ASSUME NEW w \in Workers, CommitRejected(w) \/ Stop(w) PROVE IndInv'
      <2>1. /\ UNCHANGED <<repo, storage, fence, op, stalled>>
            /\ worker' = [worker EXCEPT ![w] = IdleWorker]
          BY <1>15 DEF CommitRejected, Stop
      <2>2. /\ worker'[w] = IdleWorker
            /\ \A v \in Workers \ {w} : worker'[v] = worker[v]
          BY <1>0, <2>1 DEF TypeOK
      <2> QED
          BY <1>0, <2>1, <2>2, IdleIsFine, OneWorkerMoves
  <1>16. ASSUME NEW w \in Workers, ReadSnapshot(w) PROVE IndInv'
      <2>1. /\ UNCHANGED <<repo, storage, fence, op, stalled>>
            /\ worker[w].pc = "succeed" /\ Goto(w, "commit")
          BY <1>16 DEF ReadSnapshot, AtStep
      <2>2. /\ \A v \in Workers \ {w} : worker'[v] = worker[v]
            /\ worker'[w].pc = "commit" /\ worker'[w].op = worker[w].op
            /\ worker'[w].held = worker[w].held
          BY <1>0, <2>1, GotoType
      <2>3. WorkerInv(w)'
          BY <2>1, <2>2 DEF IndInv, WorkerInv, Handles, PurgeKeepsFence,
             SoleOwner, Owns, UnderFence
      <2> QED
          BY <1>0, <2>1, <2>2, <2>3, OneWorkerMoves
  <1>17. CASE \/ BeginCreate \/ CreateSession \/ CreateRefused
              \/ SessionChanges \/ DisableNamespace \/ Tick \/ UNCHANGED vars
      <2>1. UNCHANGED <<repo, storage, fence, op, worker, stalled>>
          BY <1>17 DEF BeginCreate, CreateSession, CreateRefused,
             SessionChanges, DisableNamespace, Tick, vars
      <2>2. \A w \in Workers : WorkerInv(w)'
          BY <2>1 DEF IndInv, WorkerInv, Handles, PurgeKeepsFence, SoleOwner, Owns
      <2>3. PurgedIsGone' /\ EndedOperationFreesFence'
          BY <2>1 DEF IndInv, PurgedIsGone, EndedOperationFreesFence
      <2> QED
          BY <1>0, <2>2, <2>3 DEF IndInv
  <1> QED
      BY <1>1, <1>2, <1>3, <1>4, <1>5, <1>6, <1>7, <1>8, <1>9, <1>10, <1>11,
         <1>12, <1>13, <1>14, <1>15, <1>16, <1>17
         DEF Next, Executor, Common, LifecycleExecutor, PurgeExecutor

\* The inductive invariant holds in every reachable state.
THEOREM IndInvAlways == Spec => []IndInv
  <1>1. Init => IndInv
      BY InitIndInv
  <1>2. IndInv /\ [Next]_vars => IndInv'
      BY IndInvNext
  <1> QED
      BY <1>1, <1>2, PTL DEF Spec

\* Type correctness: in particular a commit never writes a row with a status
\* or timestamps the repos table does not have.
THEOREM TypeCorrect == Spec => []TypeOK
  <1>1. IndInv => TypeOK
      BY DEF IndInv
  <1> QED
      BY <1>1, IndInvAlways, PTL

------------------------------------------------------------------------------
(* The sessions.                                                            *)

\* A statement that has taken its snapshot under its own fence misses no
\* session but one inserted under that fence; and once its fence is released
\* it is never held again, because the row stays.
CommitReady(w) ==
    worker[w].pc = "commit" =>
        /\ worker[w].op \in fences
        /\ fence = worker[w].op => session = "none" \/ overtaken

SessionInv ==
    /\ fence # NoOp => fence \in fences
    /\ \A w \in Workers : CommitReady(w)
    /\ InactiveRepoHasNoSession

\* Every step preserves the session part.
LEMMA SessionInvNext == IndInv /\ SessionInv /\ [Next]_vars => SessionInv'
  <1> SUFFICES ASSUME IndInv, SessionInv, [Next]_vars PROVE SessionInv'
      OBVIOUS
  <1>0. TypeOK
      BY DEF IndInv
  <1>1. ASSUME UNCHANGED <<repo, fence, fences, session, overtaken>>,
               \A w \in Workers :
                   worker'[w] = worker[w] \/ worker'[w].pc # "commit"
        PROVE  SessionInv'
      BY <1>1 DEF SessionInv, CommitReady, InactiveRepoHasNoSession
  <1>2. ASSUME NEW w \in Workers, NEW s,
               s \in {"earlier", "acquire", "drain", "storage", "removing",
                      "succeed", "fail", "intervene"},
               Goto(w, s)
        PROVE  \A v \in Workers :
                   worker'[v] = worker[v] \/ worker'[v].pc # "commit"
      BY <1>0, <1>2, GotoType
  <1>3. ASSUME NEW w \in Workers, worker' = [worker EXCEPT ![w] = IdleWorker]
        PROVE  \A v \in Workers :
                   worker'[v] = worker[v] \/ worker'[v].pc # "commit"
      BY <1>0, <1>3 DEF TypeOK, IdleWorker
  <1>4. CASE \/ \E o \in Ops, t \in Types, b \in BOOLEAN : AdmitLifecycle(o, t, b)
             \/ \E o \in Ops : Expire(o) \/ Stall(o)
             \/ DisableNamespace \/ Tick \/ CreateRefused \/ BeginCreate
             \/ UNCHANGED vars
      <2>1. UNCHANGED <<repo, fence, fences, session, overtaken, worker>>
          BY <1>4 DEF AdmitLifecycle, Expire, Stall, DisableNamespace, Tick,
             CreateRefused, BeginCreate, Sessions!GiveUp, Sessions!Begin, vars
      <2> QED
          BY <1>1, <2>1
  <1>5. ASSUME NEW w \in Workers,
               \/ \E o \in Ops : AcquireLease(w, o)
               \/ ListHeldFences(w) \/ ReadRepo(w) \/ DrainGate(w)
        PROVE  SessionInv'
      <2>1. UNCHANGED <<repo, fence, fences, session, overtaken>>
          BY <1>5 DEF AcquireLease, ListHeldFences, ReadRepo, DrainGate
      <2>2. \A v \in Workers :
                worker'[v] = worker[v] \/ worker'[v].pc # "commit"
          <3>1. CASE \E o \in Ops : AcquireLease(w, o)
              BY <1>0, <3>1 DEF AcquireLease, IdleWorker, TypeOK
          <3>2. CASE ListHeldFences(w)
              BY <1>0, <3>2 DEF ListHeldFences, TypeOK, WorkerRecord
          <3>3. CASE ReadRepo(w)
              <4>1. PICK s \in {"earlier", "intervene", "acquire", "fail"} :
                        worker' = [worker EXCEPT
                            ![w].pc = s,
                            ![w].seen = [status |-> repo.status,
                                         pre |-> repo.pre],
                            ![w].allowed = TargetAllowed(repo, worker[w].op)]
                  BY <3>3 DEF ReadRepo
              <4> QED
                  BY <1>0, <4>1 DEF TypeOK, WorkerRecord
          <3>4. CASE DrainGate(w)
              <4>1. PICK m \in {IdleWorker, [worker[w] EXCEPT !.pc = "storage"],
                                [worker[w] EXCEPT !.pc = "intervene"]} :
                        worker' = [worker EXCEPT ![w] = m]
                  BY <3>4 DEF DrainGate
              <4>2. m.pc # "commit"
                  BY <1>0, <4>1 DEF TypeOK, WorkerRecord, IdleWorker
              <4> QED
                  BY <1>0, <4>1, <4>2 DEF TypeOK
          <3> QED
              BY <1>5, <3>1, <3>2, <3>3, <3>4
      <2> QED
          BY <1>1, <2>1, <2>2
  <1>6. ASSUME NEW w \in Workers,
               \/ ListEarlier(w) \/ LifecycleStorage(w) \/ InspectStorage(w)
               \/ RemoveStorage(w) \/ CommitIntervention(w)
               \/ CommitRejected(w) \/ Stop(w)
        PROVE  SessionInv'
      <2>1. UNCHANGED <<repo, fence, fences, session, overtaken>>
          BY <1>6 DEF ListEarlier, LifecycleStorage, InspectStorage,
             RemoveStorage, CommitIntervention, CommitRejected, Stop
      <2>2. \/ worker' = worker
            \/ worker' = [worker EXCEPT ![w] = IdleWorker]
            \/ \E s \in {"acquire", "removing", "succeed", "intervene"} : Goto(w, s)
          BY <1>6 DEF ListEarlier, LifecycleStorage, InspectStorage,
             RemoveStorage, CommitIntervention, CommitRejected, Stop
      <2>3. \A v \in Workers :
                worker'[v] = worker[v] \/ worker'[v].pc # "commit"
          BY <1>2, <1>3, <2>2
      <2> QED
          BY <1>1, <2>1, <2>3
  <1>7. ASSUME NEW w \in Workers, AcquireFence(w) PROVE SessionInv'
      <2>1. \A v \in Workers :
                worker'[v] = worker[v] \/ worker'[v].pc # "commit"
          <3>1. \/ worker' = [worker EXCEPT ![w] = IdleWorker]
                \/ \E s \in {"drain", "intervene", "fail"} : Goto(w, s)
              BY <1>7 DEF AcquireFence
          <3> QED
              BY <1>2, <1>3, <3>1
      <2>2. UNCHANGED <<repo, session, overtaken>>
          BY <1>7 DEF AcquireFence
      <2>3. CASE UNCHANGED <<fence, fences>>
          BY <1>1, <2>1, <2>2, <2>3
      <2>4. CASE CreateRepoFence(worker[w].op)
          <3>1. /\ worker[w].op \notin fences /\ fence' = worker[w].op
                /\ fences' = fences \cup {worker[w].op}
              BY <2>4 DEF CreateRepoFence, FenceRowConflicts
          <3> QED
              BY <2>1, <2>2, <3>1 DEF SessionInv, CommitReady,
                 InactiveRepoHasNoSession
      <2> QED
          BY <1>7, <2>3, <2>4 DEF AcquireFence
  <1>8. ASSUME NEW w \in Workers, ReadSnapshot(w) PROVE SessionInv'
      <2>1. /\ UNCHANGED <<repo, fence, fences, session, overtaken>>
            /\ fence = worker[w].op /\ session = "none" /\ Goto(w, "commit")
            /\ worker[w].pc = "succeed"
          BY <1>8 DEF ReadSnapshot, SnapshotAllows, RowsAllow, AtStep
      <2>2. /\ \A v \in Workers \ {w} : worker'[v] = worker[v]
            /\ worker'[w].op = worker[w].op
          BY <1>0, <2>1, GotoType
      <2>3. worker[w].op # NoOp
          BY <2>1 DEF IndInv, WorkerInv, Handles
      <2> QED
          BY <2>1, <2>2, <2>3 DEF SessionInv, CommitReady,
             InactiveRepoHasNoSession
  <1>9. ASSUME NEW w \in Workers, CommitSucceeded(w) PROVE SessionInv'
      <2>1. /\ UNCHANGED <<fences, session, overtaken>>
            /\ fence = worker[w].op /\ fence' = NoOp
            /\ worker[w].pc = "commit"
            /\ worker' = [worker EXCEPT ![w] = IdleWorker]
          BY <1>9 DEF CommitSucceeded, RowsAllow, AtStep
      <2>2. session = "none" \/ overtaken
          BY <2>1 DEF SessionInv, CommitReady
      <2>3. \A v \in Workers : worker[v].pc = "commit" => worker[v].op # NoOp
          BY DEF IndInv, WorkerInv, Handles
      <2>4. \A v \in Workers :
                worker'[v] = worker[v] \/ worker'[v].pc # "commit"
          BY <1>3, <2>1
      <2> QED
          BY <2>1, <2>2, <2>3, <2>4 DEF SessionInv, CommitReady,
             InactiveRepoHasNoSession
  <1>10. ASSUME NEW w \in Workers, CommitFailed(w) PROVE SessionInv'
      <2>1. /\ UNCHANGED <<repo, fences, session, overtaken>>
            /\ fence' = fence \/ fence' = NoOp
            /\ worker' = [worker EXCEPT ![w] = IdleWorker]
          BY <1>10 DEF CommitFailed
      <2>2. \A v \in Workers : worker[v].pc = "commit" => worker[v].op # NoOp
          BY DEF IndInv, WorkerInv, Handles
      <2>3. \A v \in Workers :
                worker'[v] = worker[v] \/ worker'[v].pc # "commit"
          BY <1>3, <2>1
      <2> QED
          BY <2>1, <2>2, <2>3 DEF SessionInv, CommitReady,
             InactiveRepoHasNoSession
  <1>11. CASE CreateSession
      <2>1. /\ repo.status = "active" /\ UNCHANGED <<repo, fence, fences, worker>>
            /\ fence # NoOp => overtaken'
          BY <1>11 DEF CreateSession, Sessions!Open
      <2>2. \A v \in Workers : worker[v].pc = "commit" => worker[v].op # NoOp
          BY DEF IndInv, WorkerInv, Handles
      <2> QED
          BY <2>1, <2>2 DEF SessionInv, CommitReady, InactiveRepoHasNoSession
  <1>12. CASE SessionChanges
      <2>1. /\ UNCHANGED <<repo, fence, fences, worker>>
            /\ session # "none"
            /\ overtaken /\ session' # "none" => overtaken'
          BY <1>12 DEF SessionChanges, Sessions!Change
      <2> QED
          BY <2>1 DEF SessionInv, CommitReady, InactiveRepoHasNoSession
  <1> QED
      BY <1>4, <1>5, <1>6, <1>7, <1>8, <1>9, <1>10, <1>11, <1>12
         DEF Next, Executor, Common, LifecycleExecutor, PurgeExecutor

\* No export or mount of a repo that is archived, deleted or purged is open,
\* but one whose create statement was overtaken by the fence.
THEOREM InactiveRepoHasNoSessionAlways == Spec => []InactiveRepoHasNoSession
  <1>1. Init => SessionInv
      <2> SUFFICES ASSUME Init PROVE SessionInv
          OBVIOUS
      <2>1. session = "none" /\ fence = NoOp
            /\ \A w \in Workers : worker[w].pc = "idle"
          BY DEF Init, IdleWorker
      <2> QED
          BY <2>1 DEF SessionInv, CommitReady, InactiveRepoHasNoSession
  <1>2. IndInv /\ SessionInv /\ [Next]_vars => SessionInv'
      BY SessionInvNext
  <1>3. SessionInv => InactiveRepoHasNoSession
      BY DEF SessionInv
  <1> QED
      BY <1>1, <1>2, <1>3, IndInvAlways, PTL DEF Spec

\* A repo reported purged has no storage left, whoever removed it and however
\* often the removal was cut short.
THEOREM PurgedIsGoneAlways == Spec => []PurgedIsGone
  <1>1. IndInv => PurgedIsGone
      BY DEF IndInv
  <1> QED
      BY <1>1, IndInvAlways, PTL

\* No fence outlives its operation, unless that operation's lease expired
\* under a worker that went on.
THEOREM EndedOperationFreesFenceAlways == Spec => []EndedOperationFreesFence
  <1>1. IndInv => EndedOperationFreesFence
      BY DEF IndInv
  <1> QED
      BY <1>1, IndInvAlways, PTL

\* Storage is removed only under the lifecycle fence of a purge, whatever
\* leases were lost on the way.
THEOREM RemovalUnderFenceAlways == Spec => RemovalUnderFence
  <1>1. IndInv /\ [Next]_vars =>
            [storage' # storage =>
                 fence # NoOp /\ op[fence].type = "repo_purge"]_vars
      <2> SUFFICES ASSUME IndInv, Next, storage' # storage
                   PROVE  fence # NoOp /\ op[fence].type = "repo_purge"
          BY DEF vars
      <2>1. PICK w \in Workers : /\ RemoveStorage(w)
                                 /\ worker[w].op # NoOp
                                 /\ Type(w) = "repo_purge"
          <3>1. \A w \in Workers :
                    ~(\/ ListHeldFences(w) \/ ReadRepo(w) \/ AcquireFence(w)
                      \/ DrainGate(w) \/ ReadSnapshot(w) \/ CommitSucceeded(w)
                      \/ CommitIntervention(w) \/ CommitRejected(w)
                      \/ LifecycleStorage(w) \/ CommitFailed(w)
                      \/ ListEarlier(w) \/ InspectStorage(w) \/ Stop(w)
                      \/ \E o \in Ops : AcquireLease(w, o))
              BY DEF ListHeldFences, ReadRepo, AcquireFence, DrainGate,
                 ReadSnapshot, CommitSucceeded, CommitIntervention, CommitRejected,
                 LifecycleStorage, CommitFailed, ListEarlier, InspectStorage,
                 Stop, AcquireLease
          <3>2. ~(\/ BeginCreate \/ CreateSession \/ CreateRefused
                  \/ SessionChanges \/ DisableNamespace \/ Tick
                  \/ \E o \in Ops : Expire(o) \/ Stall(o)
                  \/ \E o \in Ops, t \in Types, b \in BOOLEAN :
                         AdmitLifecycle(o, t, b))
              BY DEF BeginCreate, CreateSession, CreateRefused, SessionChanges,
                 DisableNamespace, Tick, Expire, Stall, AdmitLifecycle
          <3> QED
              BY <3>1, <3>2 DEF Next, Executor, Common, LifecycleExecutor,
                 PurgeExecutor
      <2>2. storage # "absent" /\ worker[w].pc = "removing"
          BY <2>1 DEF RemoveStorage, AtStep
      <2> QED
          BY <2>1, <2>2 DEF IndInv, WorkerInv, PurgeKeepsFence, UnderFence, Type
  <1> QED
      BY <1>1, IndInvAlways, PTL DEF Spec, RemovalUnderFence

------------------------------------------------------------------------------
(* The state table.                                                         *)

States == INSTANCE OperationStates WITH state <- [o \in Ops |-> op[o].state]

\* The abstract life of an operation, of OperationStates.
StatesSpec == States!Spec

\* A statement that rewrites one row so that its state stays, or starts, or
\* moves as the table allows, is a step of the table or none.
LEMMA TableMove ==
    ASSUME DOMAIN op = Ops, NEW o \in Ops, op' = [op EXCEPT ![o] = op'[o]],
           \/ op'[o].state = op[o].state
           \/ op[o].state = "absent" /\ op'[o].state = "queued"
           \/ op[o].state = "queued" /\ op'[o].state = "running"
           \/ /\ op[o].state = "running"
              /\ op'[o].state \in {"succeeded", "failed",
                                   "operator_intervention_required"}
    PROVE  \/ States!Next
           \/ [p \in Ops |-> op[p].state]' = [p \in Ops |-> op[p].state]
  <1> DEFINE st == [p \in Ops |-> op[p].state]
  <1>1. \A p \in Ops \ {o} : op'[p] = op[p]
      OBVIOUS
  <1>2. st' = [st EXCEPT ![o] = op'[o].state]
      BY <1>1
  <1>3. CASE op'[o].state = op[o].state
      BY <1>2, <1>3
  <1>4. CASE op[o].state = "absent" /\ op'[o].state = "queued"
      BY <1>2, <1>4 DEF States!Next, States!Create, States!Absent
  <1>5. CASE /\ op[o].state \in States!OperationState
             /\ op'[o].state \in States!AllowedNextStates[op[o].state]
      BY <1>2, <1>5 DEF States!Next, States!Transition
  <1> QED
      BY <1>3, <1>4, <1>5 DEF States!OperationState, States!AllowedNextStates

\* Every step of the executors and the admission moves the rows as the table
\* allows: only a worker whose commit finds the row running, and its own, ends
\* an operation.
LEMMA StepFollowsTable ==
    ASSUME IndInv, [Next]_vars
    PROVE  \/ States!Next
           \/ [o \in Ops |-> op[o].state]' = [o \in Ops |-> op[o].state]
  <1> DEFINE Follows ==
        \/ States!Next
        \/ [o \in Ops |-> op[o].state]' = [o \in Ops |-> op[o].state]
  <1>1. op \in [Ops -> OperationRecord] /\ DOMAIN op = Ops /\ TypeOK
      BY DEF IndInv, TypeOK
  <1>2. CASE op' = op
      BY <1>2
  <1>3. ASSUME NEW o \in Ops, NEW t \in Types, NEW b \in BOOLEAN,
               AdmitLifecycle(o, t, b)
        PROVE  Follows
      <2> DEFINE r == [op[o] EXCEPT !.type = t, !.state = "queued",
                                    !.created = now, !.override = b]
      <2>1. op[o].state = "absent" /\ op' = [op EXCEPT ![o] = r]
          BY <1>1, <1>3 DEF AdmitLifecycle
      <2>2. r.state = "queued"
          BY <1>1 DEF OperationRecord
      <2> HIDE DEF r
      <2>3. op' = [op EXCEPT ![o] = op'[o]] /\ op'[o].state = "queued"
          BY <1>1, <2>1, <2>2
      <2> QED
          BY <1>1, <2>1, <2>3, TableMove
  <1>4. ASSUME NEW o \in Ops, Expire(o) \/ Stall(o) PROVE Follows
      <2>1. op' = [op EXCEPT ![o] = op'[o]] /\ op'[o].state = op[o].state
          BY <1>1, <1>4 DEF Expire, Stall, OperationRecord
      <2> QED
          BY <1>1, <2>1, TableMove
  <1>5. ASSUME NEW w \in Workers, NEW o \in Ops, AcquireLease(w, o)
        PROVE  Follows
      <2> DEFINE r == [op[o] EXCEPT !.state = "running", !.lease = "live",
                                    !.owner = w]
      <2>1. op[o].state \in {"queued", "running"} /\ op' = [op EXCEPT ![o] = r]
          BY <1>1, <1>5 DEF AcquireLease, Acquirable
      <2>2. r.state = "running"
          BY <1>1 DEF OperationRecord
      <2> HIDE DEF r
      <2>3. op' = [op EXCEPT ![o] = op'[o]] /\ op'[o].state = "running"
          BY <1>1, <2>1, <2>2
      <2> QED
          BY <1>1, <2>1, <2>3, TableMove
  <1>6. ASSUME NEW w \in Workers, ~AtStep(w, "idle"), Owns(w),
               NEW s \in {"succeeded", "failed", "operator_intervention_required"},
               op' = Ended(worker[w].op, s)
        PROVE  Follows
      <2>1. PICK o \in Ops : o = worker[w].op
          BY <1>1, <1>6 DEF AtStep, IndInv, WorkerInv, Handles, TypeOK, WorkerRecord
      <2>2. op[o].state = "running"
          BY <1>6, <2>1 DEF Owns
      <2>3. op' \in [Ops -> OperationRecord] /\ op'[o].state = s
            /\ \A p \in Ops \ {o} : op'[p] = op[p]
          <3>1. op' = Ended(o, s)
              BY <1>6, <2>1
          <3> QED
              BY <1>1, <3>1, EndedType
      <2>4. op' = [op EXCEPT ![o] = op'[o]]
          BY <1>1, <2>3
      <2> QED
          BY <1>1, <2>2, <2>3, <2>4, TableMove
  <1>7. ASSUME NEW w \in Workers,
               CommitSucceeded(w) \/ CommitFailed(w) \/ CommitIntervention(w)
        PROVE  Follows
      <2>1. ~AtStep(w, "idle") /\ Owns(w)
          BY <1>7 DEF AtStep, CommitSucceeded, RowsAllow, CommitFailed,
             FailAllowed, CommitIntervention
      <2>2. \E s \in {"succeeded", "failed", "operator_intervention_required"} :
                op' = Ended(worker[w].op, s)
          BY <1>7 DEF CommitSucceeded, CommitFailed, CommitIntervention
      <2> QED
          BY <1>6, <2>1, <2>2
  <1>8. ASSUME NEW w \in Workers, Executor(w) \/ Stop(w) PROVE Follows
      <2>1. CASE \E o \in Ops : AcquireLease(w, o)
          BY <1>5, <2>1
      <2>2. CASE CommitSucceeded(w) \/ CommitFailed(w) \/ CommitIntervention(w)
          BY <1>7, <2>2
      <2>3. CASE \/ ListHeldFences(w) \/ ReadRepo(w) \/ AcquireFence(w)
                 \/ DrainGate(w) \/ CommitRejected(w) \/ LifecycleStorage(w)
                 \/ ListEarlier(w) \/ InspectStorage(w) \/ RemoveStorage(w)
                 \/ ReadSnapshot(w) \/ Stop(w)
          BY <1>2, <2>3 DEF ListHeldFences, ReadRepo, AcquireFence, DrainGate,
             CommitRejected, LifecycleStorage, ListEarlier, InspectStorage,
             RemoveStorage, ReadSnapshot, Stop
      <2> QED
          BY <1>8, <2>1, <2>2, <2>3 DEF Executor, LifecycleExecutor,
             PurgeExecutor, Common
  <1>9. CASE \/ BeginCreate \/ CreateSession \/ CreateRefused
             \/ SessionChanges \/ DisableNamespace \/ Tick \/ UNCHANGED vars
      BY <1>2, <1>9 DEF BeginCreate, CreateSession, CreateRefused,
         SessionChanges, DisableNamespace, Tick, vars
  <1> QED
      BY <1>3, <1>4, <1>8, <1>9 DEF Next

\* The lifecycle and purge operations live as the state table of state.go
\* says, although their statements do not consult it.
THEOREM ImplementsStates == Spec => StatesSpec
  <1> DEFINE st == [o \in Ops |-> op[o].state]
  <1>1. Init => States!Init
      BY DEF Init, States!Init, States!Absent
  <1>2. IndInv /\ [Next]_vars => [States!Next]_st
      BY StepFollowsTable
  <1> QED
      BY <1>1, <1>2, IndInvAlways, PTL DEF Spec, StatesSpec, States!Spec

===============================================================================

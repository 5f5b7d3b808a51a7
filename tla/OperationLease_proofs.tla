------------------------ MODULE OperationLease_proofs ------------------------
(***************************************************************************)
(* The lease protocol of OperationLease, proved for any set of operations  *)
(* and workers, any lease duration and any bounds.                         *)
(*                                                                         *)
(* The inductive invariant adds to the checked properties what ties a      *)
(* worker's memory to the row: a worker past its scan handles a real       *)
(* operation, and while the lease it was told of runs, the row still names *)
(* it, for at least that long.                                             *)
(*                                                                         *)
(* The second half proves the same of an executor that works under such    *)
(* leases, SavePointCreate, whose effect cannot be undone.                 *)
(***************************************************************************)
EXTENDS OperationLease, SavePointHistory, SequenceTheorems, TLAPS

HandlesOp ==
    \A w \in Workers : worker[w].pc # "idle" => worker[w].op \in Ops

ToldLeaseIsHeld ==
    \A w \in Workers :
        worker[w].pc \in {"executing", "committing"} /\ worker[w].until > now =>
            /\ op[worker[w].op].state \in {"running", "cancel_requested"}
            /\ op[worker[w].op].owner = w
            /\ op[worker[w].op].expires >= worker[w].until

CurrentAttempt ==
    \A w \in Workers :
        /\ worker[w].pc \in {"executing", "committing"}
        /\ op[worker[w].op].owner = w
        => op[worker[w].op].attempt = worker[w].attempt

IndInv ==
    /\ TypeOK
    /\ LeaseShape
    /\ HandlesOp
    /\ ToldLeaseIsHeld
    /\ CurrentAttempt
    /\ AuditMatchesOutcome

USE OwnerAssumption, OpAssumption, DurationAssumption, BoundAssumption

\* The initial state satisfies the inductive invariant.
LEMMA InitIndInv == Init => IndInv
  BY DEF Init, IndInv, TypeOK, LeaseShape, HandlesOp, ToldLeaseIsHeld,
         CurrentAttempt, AuditMatchesOutcome, OperationRecord, WorkerRecord,
         IdleWorker, HasLease, NoLease, Absent, AuditOutcome, Outcome,
         ReportMatches,
         RecoveryAction, Marker, NoTime

\* The rows the statements write are rows again.
LEMMA StateUpdateType ==
    ASSUME NEW r \in OperationRecord, NEW s \in OperationState
    PROVE  [r EXCEPT !.state = s] \in OperationRecord
  BY DEF OperationRecord

LEMMA AcquiredRecordType ==
    ASSUME NEW r \in OperationRecord, NEW w \in Workers, NEW t \in Nat
    PROVE  AcquiredRecord(r, w, t) \in OperationRecord
  <1>1. t + LeaseDuration \in Nat /\ r.attempt + 1 \in Nat
      BY DEF OperationRecord
  <1>2. "cancelled" \in OperationState /\ "running" \in OperationState
      BY DEF OperationState
  <1>3. CASE r.state = "cancel_requested"
      BY <1>2, <1>3 DEF AcquiredRecord, OperationRecord
  <1>4. CASE r.state # "cancel_requested"
      BY <1>1, <1>2, <1>4 DEF AcquiredRecord, OperationRecord
  <1> QED
      BY <1>3, <1>4

LEMMA CommittedRecordType ==
    ASSUME NEW r \in OperationRecord, NEW out \in Outcome, NEW t \in Nat,
           NEW m \in Marker
    PROVE  CommittedRecord(r, out, t, m) \in OperationRecord
  BY DEF CommittedRecord, OperationRecord, OperationState, Outcome

LEMMA CommittedAuditType ==
    ASSUME NEW a \in [AuditOutcome -> Nat], NEW out \in Outcome
    PROVE  CommittedAudit(a, out) \in [AuditOutcome -> Nat]
  BY DEF CommittedAudit, AuditOutcome

\* The planner always answers with one of its actions.
LEMMA ClassifyType ==
    ASSUME NEW r \in OperationRecord, NEW t \in Nat
    PROVE  ClassifyOperationRecovery(r, t) \in RecoveryAction
  BY DEF ClassifyOperationRecovery, RecoveryAction

\* Type correctness is preserved by every step.
LEMMA TypeNext == TypeOK /\ HandlesOp /\ [Next]_vars => TypeOK'
  <1> SUFFICES ASSUME TypeOK, HandlesOp, [Next]_vars PROVE TypeOK'
      OBVIOUS
  <1> IdleWorker \in WorkerRecord
      BY DEF IdleWorker, WorkerRecord, RecoveryAction, Outcome, Marker
  <1>1. CASE Tick
      BY <1>1 DEF Tick, TypeOK
  <1>2. ASSUME NEW o \in Ops, CreateOperation(o) PROVE TypeOK'
      <2>1. [op[o] EXCEPT !.state = "queued"] \in OperationRecord
          BY StateUpdateType DEF TypeOK, OperationState
      <2> QED
          BY <1>2, <2>1 DEF CreateOperation, TypeOK
  <1>3. ASSUME NEW o \in Ops, RequestCancel(o) PROVE TypeOK'
      <2>1. [op[o] EXCEPT !.state = "cancel_requested"] \in OperationRecord
          BY StateUpdateType DEF TypeOK, OperationState
      <2> QED
          BY <1>3, <2>1 DEF RequestCancel, TypeOK
  <1>4. ASSUME NEW o \in Ops, OperatorRepair(o) PROVE TypeOK'
      <2>1. [op[o] EXCEPT !.state = "failed"] \in OperationRecord
          BY StateUpdateType DEF TypeOK, OperationState
      <2>2. audit' \in [Ops -> [AuditOutcome -> Nat]]
          BY <1>4 DEF OperatorRepair, TypeOK, AuditOutcome
      <2> QED
          BY <1>4, <2>1, <2>2 DEF OperatorRepair, TypeOK
  <1>5. ASSUME NEW w \in Workers, NEW o \in Ops, Scan(w, o) PROVE TypeOK'
      <2>1. ClassifyOperationRecovery(op[o], now) \in RecoveryAction
          BY ClassifyType DEF TypeOK
      <2> QED
          BY <1>5, <2>1 DEF Scan, TypeOK, WorkerRecord
  <1>6. ASSUME NEW w \in Workers, NEW o \in Ops, ExplicitRecovery(w, o)
        PROVE TypeOK'
      <2>1. AcquiredRecord(op[o], w, now) \in OperationRecord
          BY AcquiredRecordType DEF TypeOK
      <2>2. op[o].attempt + 1 \in Nat /\ now + LeaseDuration \in Nat
          BY DEF TypeOK, OperationRecord
      <2> QED
          BY <1>6, <2>1, <2>2 DEF ExplicitRecovery, TypeOK, WorkerRecord
  <1>7. ASSUME NEW w \in Workers, NEW s \in Marker, Acquire(w, s)
        PROVE TypeOK'
      <2>1. worker[w].op \in Ops
          BY <1>7 DEF Acquire, HandlesOp
      <2>2. AcquiredRecord(op[worker[w].op], w, now) \in OperationRecord
          BY <2>1, AcquiredRecordType DEF TypeOK
      <2>3. op[worker[w].op].attempt + 1 \in Nat /\ now + LeaseDuration \in Nat
          BY <2>1 DEF TypeOK, OperationRecord
      <2> QED
          <3>1. op' \in [Ops -> OperationRecord]
              BY <1>7, <2>1, <2>2 DEF Acquire, TypeOK
          <3>2. worker' \in [Workers -> WorkerRecord]
              BY <1>7, <2>3 DEF Acquire, TypeOK, WorkerRecord
          <3> QED
              BY <1>7, <3>1, <3>2 DEF Acquire, TypeOK
  <1>8. ASSUME NEW w \in Workers, NEW out \in Outcome, PrepareCommit(w, out)
        PROVE TypeOK'
      <2>1. worker[w] \in WorkerRecord /\ now \in Nat
          BY DEF TypeOK
      <2>2. [worker[w] EXCEPT !.pc = "committing", !.outcome = out,
                              !.time = now] \in WorkerRecord
          BY <2>1 DEF WorkerRecord
      <2>3. worker' = [worker EXCEPT ![w] =
                [worker[w] EXCEPT !.pc = "committing", !.outcome = out,
                                  !.time = now]]
          BY <1>8 DEF PrepareCommit, TypeOK
      <2>4. worker' \in [Workers -> WorkerRecord]
          BY <2>2, <2>3 DEF TypeOK
      <2> QED
          BY <1>8, <2>4 DEF PrepareCommit, TypeOK
  <1>9. ASSUME NEW w \in Workers, Skip(w) PROVE TypeOK'
      BY <1>9 DEF Skip, TypeOK
  <1>10. ASSUME NEW w \in Workers, RaceLost(w) PROVE TypeOK'
      BY <1>10 DEF RaceLost, TypeOK
  <1>11. ASSUME NEW w \in Workers, FinalizeCancellation(w) PROVE TypeOK'
      <2>1. worker[w].op \in Ops
          BY <1>11 DEF FinalizeCancellation, HandlesOp
      <2>2. AcquiredRecord(op[worker[w].op], w, now) \in OperationRecord
          BY <2>1, AcquiredRecordType DEF TypeOK
      <2> QED
          BY <1>11, <2>1, <2>2 DEF FinalizeCancellation, TypeOK
  <1>12. ASSUME NEW w \in Workers, Renew(w) PROVE TypeOK'
      <2>1. worker[w].op \in Ops
          BY <1>12 DEF Renew, HandlesOp
      <2>2. Later(op[worker[w].op].expires, now + LeaseDuration) \in Nat
          BY <2>1 DEF Later, TypeOK, OperationRecord, Marker, NoTime
      <2> QED
          <3>1. op' \in [Ops -> OperationRecord]
              BY <1>12, <2>1, <2>2 DEF Renew, TypeOK, OperationRecord
          <3>2. worker' \in [Workers -> WorkerRecord]
              BY <1>12, <2>2 DEF Renew, TypeOK, WorkerRecord
          <3> QED
              BY <1>12, <3>1, <3>2 DEF Renew, TypeOK
  <1>13. ASSUME NEW w \in Workers, Commit(w) PROVE TypeOK'
      <2>1. worker[w].op \in Ops
          BY <1>13 DEF Commit, HandlesOp
      <2>2. CommittedRecord(op[worker[w].op], worker[w].outcome,
                            worker[w].time, worker[w].marker)
                \in OperationRecord
          <3>1. /\ worker[w].outcome \in Outcome
                /\ worker[w].time \in Nat
                /\ worker[w].marker \in Marker
                /\ op[worker[w].op] \in OperationRecord
              BY <2>1 DEF TypeOK, WorkerRecord
          <3> QED
              BY <3>1, CommittedRecordType
      <2>3. op' \in [Ops -> OperationRecord]
          BY <1>13, <2>1, <2>2 DEF Commit, TypeOK
      <2>4. audit' \in [Ops -> [AuditOutcome -> Nat]]
          BY <1>13, <2>1, CommittedAuditType DEF Commit, TypeOK, WorkerRecord
      <2>5. worker' \in [Workers -> WorkerRecord]
          BY <1>13 DEF Commit, TypeOK, WorkerRecord
      <2> QED
          BY <1>13, <2>3, <2>4, <2>5 DEF Commit, TypeOK
  <1>14. ASSUME NEW w \in Workers, CommitRejected(w) PROVE TypeOK'
      BY <1>14 DEF CommitRejected, TypeOK
  <1>15. ASSUME NEW w \in Workers, Stop(w) PROVE TypeOK'
      BY <1>15 DEF Stop, TypeOK
  <1>16. CASE UNCHANGED vars
      BY <1>16 DEF vars, TypeOK
  <1> QED
      BY <1>1, <1>2, <1>3, <1>4, <1>5, <1>6, <1>7, <1>8, <1>9, <1>10, <1>11,
         <1>12, <1>13, <1>14, <1>15, <1>16 DEF Next

\* A statement that rewrites one row, with or without an event, leaves every
\* row with its events when it leaves this one so.
LEMMA ReportStep ==
    ASSUME IndInv, NEW o \in Ops, NEW r, NEW a,
           op' = [op EXCEPT ![o] = r], audit' = [audit EXCEPT ![o] = a],
           ReportMatches(r, a)
    PROVE  AuditMatchesOutcome'
  <1>1. op'[o] = r /\ audit'[o] = a
        /\ \A p \in Ops \ {o} : op'[p] = op[p] /\ audit'[p] = audit[p]
      BY DEF IndInv, TypeOK
  <1> QED
      BY <1>1 DEF IndInv, AuditMatchesOutcome

\* A step in which one worker returns to idle and nothing else moves.
LEMMA BackToIdle ==
    ASSUME IndInv, NEW w \in Workers, UNCHANGED <<now, op, audit>>,
           worker' = [worker EXCEPT ![w] = IdleWorker], TypeOK'
    PROVE  IndInv'
  BY DEF IndInv, TypeOK, LeaseShape, HandlesOp, ToldLeaseIsHeld, CurrentAttempt,
         AuditMatchesOutcome, IdleWorker

\* Every step preserves the inductive invariant.
LEMMA IndInvNext == IndInv /\ [Next]_vars => IndInv'
  <1> SUFFICES ASSUME IndInv, [Next]_vars PROVE IndInv'
      OBVIOUS
  <1> DEFINE Rest == LeaseShape /\ HandlesOp /\ ToldLeaseIsHeld
                     /\ CurrentAttempt /\ AuditMatchesOutcome
  <1>0. TypeOK'
      BY TypeNext DEF IndInv
  <1> SUFFICES Rest'
      BY <1>0 DEF IndInv
  <1>1. CASE Tick
      BY <1>0, <1>1 DEF Tick, IndInv, TypeOK, LeaseShape, HandlesOp,
         ToldLeaseIsHeld, CurrentAttempt, AuditMatchesOutcome, WorkerRecord
  <1>2. ASSUME NEW o \in Ops, CreateOperation(o) PROVE Rest'
      BY <1>2 DEF CreateOperation, IndInv, TypeOK, LeaseShape, HandlesOp,
         ToldLeaseIsHeld, CurrentAttempt, AuditMatchesOutcome, ReportMatches,
         OperationRecord,
         HasLease, NoLease, Absent
  <1>3. ASSUME NEW o \in Ops, RequestCancel(o) PROVE Rest'
      <2>1. LeaseShape' /\ HandlesOp' /\ ToldLeaseIsHeld' /\ CurrentAttempt'
          BY <1>3 DEF RequestCancel, IndInv, TypeOK, LeaseShape, HandlesOp,
             ToldLeaseIsHeld, CurrentAttempt, OperationRecord, HasLease, NoLease
      <2>2. ReportMatches([op[o] EXCEPT !.state = "cancel_requested"], audit[o])
          BY <1>3 DEF RequestCancel, IndInv, TypeOK, AuditMatchesOutcome,
             ReportMatches, OperationRecord, AuditOutcome
      <2>3. /\ op' = [op EXCEPT ![o] = [op[o] EXCEPT !.state = "cancel_requested"]]
            /\ audit' = [audit EXCEPT ![o] = audit[o]]
          BY <1>3 DEF RequestCancel, IndInv, TypeOK
      <2> QED
          BY <2>1, <2>2, <2>3, ReportStep
  <1>4. ASSUME NEW o \in Ops, OperatorRepair(o) PROVE Rest'
      <2> DEFINE r == [op[o] EXCEPT !.state = "failed"]
                 a == [audit[o] EXCEPT !["failed"] = @ + 1]
      <2>1. LeaseShape' /\ HandlesOp' /\ ToldLeaseIsHeld' /\ CurrentAttempt'
          BY <1>4 DEF OperatorRepair, IndInv, TypeOK, LeaseShape, HandlesOp,
             ToldLeaseIsHeld, CurrentAttempt, OperationRecord, HasLease, NoLease
      <2>2. op[o] \in OperationRecord /\ audit[o] \in [AuditOutcome -> Nat]
            /\ op[o].state = "operator_intervention_required"
            /\ ReportMatches(op[o], audit[o])
          BY <1>4 DEF OperatorRepair, IndInv, TypeOK, AuditMatchesOutcome
      <2>3. ReportMatches(r, a)
          BY <2>2 DEF ReportMatches, OperationRecord, AuditOutcome
      <2>4. op' = [op EXCEPT ![o] = r] /\ audit' = [audit EXCEPT ![o] = a]
          BY <1>4 DEF OperatorRepair, IndInv, TypeOK
      <2> HIDE DEF r, a
      <2> QED
          BY <2>1, <2>3, <2>4, ReportStep
  <1>5. ASSUME NEW w \in Workers, NEW o \in Ops, Scan(w, o) PROVE Rest'
      BY <1>5 DEF Scan, IndInv, TypeOK, LeaseShape, HandlesOp,
         ToldLeaseIsHeld, CurrentAttempt, AuditMatchesOutcome, IdleWorker
  <1>6. ASSUME NEW w \in Workers, NEW o \in Ops, ExplicitRecovery(w, o)
        PROVE Rest'
      BY <1>6 DEF ExplicitRecovery, IndInv, TypeOK, LeaseShape, HandlesOp,
         ToldLeaseIsHeld, CurrentAttempt, AuditMatchesOutcome, ReportMatches,
         OperationRecord, AuditOutcome, WorkerRecord, HasLease, NoLease,
         AcquiredRecord, CanAcquire, IdleWorker, NoTime
  <1>7. ASSUME NEW w \in Workers, NEW m \in Marker, Acquire(w, m)
        PROVE Rest'
      <2> DEFINE o == worker[w].op
      <2>1. o \in Ops /\ op[o] \in OperationRecord /\ now \in Nat
          BY <1>7 DEF Acquire, IndInv, HandlesOp, TypeOK
      <2>2. op[o].state \in {"queued", "running"} /\ now + LeaseDuration > now
            /\ (op[o].state = "running" => op[o].expires <= now)
          BY <1>7, <2>1 DEF Acquire, CanAcquire, OperationRecord
      <2>3. op' = [op EXCEPT ![o] = [@ EXCEPT !.state = "running",
                         !.attempt = op[o].attempt + 1, !.owner = w,
                         !.expires = now + LeaseDuration]]
          BY <1>7, <2>1, <2>2 DEF Acquire, AcquiredRecord
      <2>4. worker' = [worker EXCEPT
                         ![w] = [@ EXCEPT !.pc = "executing", !.marker = m,
                                          !.attempt = op[o].attempt + 1,
                                          !.until = now + LeaseDuration]]
            /\ now' = now /\ audit' = audit
          BY <1>7 DEF Acquire
      <2>5. \A v \in Workers : v # w /\ worker[v].op = o =>
                ~(worker[v].pc \in {"executing", "committing"}
                  /\ worker[v].until > now)
          BY <2>1, <2>2 DEF IndInv, ToldLeaseIsHeld, TypeOK, WorkerRecord,
             OperationRecord, LeaseShape, NoLease, NoTime
      <2>6. LeaseShape'
          BY <2>1, <2>3 DEF IndInv, LeaseShape, HasLease, NoLease, NoTime,
             TypeOK, OperationRecord
      <2>7. HandlesOp'
          BY <2>1, <2>4 DEF IndInv, HandlesOp, TypeOK, WorkerRecord
      <2>8. ToldLeaseIsHeld'
          BY <2>1, <2>2, <2>3, <2>4, <2>5 DEF IndInv, HandlesOp, ToldLeaseIsHeld,
             TypeOK, WorkerRecord, OperationRecord
      <2>9. CurrentAttempt'
          BY <2>1, <2>3, <2>4 DEF IndInv, HandlesOp, CurrentAttempt, TypeOK,
             WorkerRecord, OperationRecord
      <2>10. AuditMatchesOutcome'
          <3>1. ReportMatches(op'[o], audit[o])
              BY <2>1, <2>2, <2>3 DEF IndInv, AuditMatchesOutcome, ReportMatches,
                 TypeOK, OperationRecord, AuditOutcome
          <3> QED
              BY <2>1, <2>3, <2>4, <3>1 DEF IndInv, AuditMatchesOutcome, TypeOK
      <2> QED
          BY <2>6, <2>7, <2>8, <2>9, <2>10
  <1>8. ASSUME NEW w \in Workers, NEW out \in Outcome, PrepareCommit(w, out)
        PROVE Rest'
      BY <1>8 DEF PrepareCommit, IndInv, TypeOK, LeaseShape, HandlesOp,
         ToldLeaseIsHeld, CurrentAttempt, AuditMatchesOutcome, WorkerRecord
  <1>9. ASSUME NEW w \in Workers, Skip(w) \/ RaceLost(w) \/ CommitRejected(w)
                                  \/ Stop(w)
        PROVE Rest'
      <2>1. /\ UNCHANGED <<now, op, audit>>
            /\ worker' = [worker EXCEPT ![w] = IdleWorker]
          BY <1>9 DEF Skip, RaceLost, CommitRejected, Stop
      <2> QED
          BY <1>0, <2>1, BackToIdle DEF IndInv
  <1>10. ASSUME NEW w \in Workers, FinalizeCancellation(w) PROVE Rest'
      <2> DEFINE o == worker[w].op
                 r == AcquiredRecord(op[o], w, now)
      <2>1. o \in Ops /\ op[o] \in OperationRecord /\ now \in Nat
          BY <1>10 DEF FinalizeCancellation, IndInv, HandlesOp, TypeOK
      <2>2. /\ op' = [op EXCEPT ![o] = r]
            /\ worker' = [worker EXCEPT ![w] = IdleWorker]
            /\ now' = now /\ audit' = audit
          BY <1>10 DEF FinalizeCancellation
      <2>3. /\ op[o].state \in {"queued", "running", "cancel_requested"}
            /\ op[o].owner = NoOwner \/ op[o].expires <= now
          BY <1>10, <2>1 DEF FinalizeCancellation, CanAcquire, NoLease, HasLease
      <2>4. \A v \in Workers : worker[v].op = o =>
                ~(worker[v].pc \in {"executing", "committing"}
                  /\ worker[v].until > now)
          BY <2>1, <2>3 DEF IndInv, ToldLeaseIsHeld, TypeOK, WorkerRecord,
             OperationRecord, NoTime
      <2>5. /\ r.state \in {"running", "cancelled"}
            /\ r.owner \in {w, NoOwner}
            /\ r.state = "running" => HasLease(r)
            /\ r.state = "cancelled" => NoLease(r)
          BY <2>1 DEF AcquiredRecord, HasLease, NoLease, OperationRecord, NoTime
      <2>6. LeaseShape'
          BY <2>1, <2>2, <2>5 DEF IndInv, LeaseShape, TypeOK
      <2>7. HandlesOp' /\ AuditMatchesOutcome'
          <3>1. ReportMatches(r, audit[o])
              BY <2>1, <2>3 DEF IndInv, AuditMatchesOutcome, ReportMatches, TypeOK,
                 AcquiredRecord, OperationRecord, AuditOutcome
          <3> QED
              BY <2>1, <2>2, <3>1 DEF IndInv, HandlesOp, AuditMatchesOutcome, TypeOK,
                 IdleWorker
      <2>8. ToldLeaseIsHeld'
          BY <2>1, <2>2, <2>4 DEF IndInv, HandlesOp, ToldLeaseIsHeld, TypeOK,
             IdleWorker
      <2>9. CurrentAttempt'
          BY <2>1, <2>2, <2>5 DEF IndInv, HandlesOp, CurrentAttempt, TypeOK,
             IdleWorker
      <2> QED
          BY <2>6, <2>7, <2>8, <2>9
  <1>11. ASSUME NEW w \in Workers, Renew(w) PROVE Rest'
      <2> DEFINE o == worker[w].op
                 e == Later(op[o].expires, now + LeaseDuration)
      <2>1. o \in Ops /\ op[o] \in OperationRecord /\ now \in Nat
          BY <1>11 DEF Renew, IndInv, HandlesOp, TypeOK
      <2>2. /\ op[o].state = "running" /\ op[o].owner = w
            /\ e \in Nat /\ e >= op[o].expires
          BY <1>11, <2>1 DEF Renew, CanRenew, Later, OperationRecord, NoTime
      <2>3. /\ op' = [op EXCEPT ![o] = [@ EXCEPT !.expires = e]]
            /\ worker' = [worker EXCEPT ![w] = [@ EXCEPT !.until = e]]
            /\ now' = now /\ audit' = audit
          BY <1>11 DEF Renew
      <2>4. LeaseShape'
          BY <2>1, <2>2, <2>3 DEF IndInv, LeaseShape, HasLease, NoLease, NoTime,
             TypeOK, OperationRecord
      <2>5. HandlesOp'
          BY <2>3 DEF IndInv, HandlesOp, TypeOK, WorkerRecord
      <2>6. ToldLeaseIsHeld'
          BY <2>1, <2>2, <2>3 DEF IndInv, HandlesOp, ToldLeaseIsHeld, TypeOK,
             WorkerRecord, OperationRecord
      <2>7. CurrentAttempt' /\ AuditMatchesOutcome'
          BY <2>1, <2>3 DEF IndInv, HandlesOp, CurrentAttempt, TypeOK,
             AuditMatchesOutcome, ReportMatches, WorkerRecord, OperationRecord
      <2> QED
          BY <2>4, <2>5, <2>6, <2>7
  <1>12. ASSUME NEW w \in Workers, Commit(w) PROVE Rest'
      <2> DEFINE o == worker[w].op
                 out == worker[w].outcome
                 r == CommittedRecord(op[o], out, worker[w].time, worker[w].marker)
      <2>1. /\ o \in Ops /\ op[o] \in OperationRecord /\ out \in Outcome
            /\ worker[w].time \in Nat
          BY <1>12 DEF Commit, IndInv, HandlesOp, TypeOK, WorkerRecord
      <2>2. op[o].state = "running" /\ op[o].owner = w /\ HasLease(op[o])
          BY <1>12, <2>1 DEF Commit, LeaseFenced, HasLease
      <2>3. op' = [op EXCEPT ![o] = r] /\ now' = now
          BY <1>12 DEF Commit
      <2>4. r.attempt = op[o].attempt
          BY <2>1 DEF CommittedRecord, OperationRecord
      <2>5. CASE out = "progress"
          <3>1. r = op[o]
              BY <2>5 DEF CommittedRecord
          <3>2. op' = op /\ audit' = audit
                /\ worker' = [worker EXCEPT ![w] = [@ EXCEPT !.pc = "executing"]]
              BY <1>12, <2>1, <2>3, <2>5, <3>1 DEF Commit, CommittedAudit, IndInv,
                 TypeOK
          <3> QED
              BY <1>12, <2>3, <3>2 DEF Commit, IndInv, TypeOK, LeaseShape, HandlesOp,
                 ToldLeaseIsHeld, CurrentAttempt, AuditMatchesOutcome, WorkerRecord
      <2>6. CASE out = "pending"
          <3>1. r = [op[o] EXCEPT !.expires = worker[w].time]
              BY <2>6 DEF CommittedRecord
          <3>2. audit' = audit /\ worker' = [worker EXCEPT ![w] = IdleWorker]
              BY <1>12, <2>1, <2>6 DEF Commit, CommittedAudit, IndInv, TypeOK
          <3>3. LeaseShape'
              BY <2>1, <2>2, <2>3, <3>1 DEF IndInv, LeaseShape, HasLease, NoLease,
                 NoTime, TypeOK, OperationRecord
          <3> QED
              BY <2>1, <2>2, <2>3, <3>1, <3>2, <3>3 DEF IndInv, TypeOK, HandlesOp,
                 ToldLeaseIsHeld, CurrentAttempt, AuditMatchesOutcome,
                 ReportMatches, WorkerRecord, OperationRecord, IdleWorker
      <2>7. CASE out \notin {"progress", "pending"}
          <3>1. r = [op[o] EXCEPT !.state = out, !.owner = NoOwner,
                                  !.expires = NoTime, !.marker = worker[w].marker]
              BY <2>7 DEF CommittedRecord
          <3>2. /\ audit' = [audit EXCEPT ![o] = CommittedAudit(audit[o], out)]
                /\ worker' = [worker EXCEPT ![w] = IdleWorker]
              BY <1>12, <2>1, <2>7 DEF Commit
          <3>3. LeaseShape' /\ HandlesOp'
              BY <2>1, <2>3, <3>1, <3>2 DEF IndInv, LeaseShape, HandlesOp, HasLease,
                 NoLease, TypeOK, OperationRecord, Outcome, IdleWorker
          <3>4. ToldLeaseIsHeld' /\ CurrentAttempt'
              BY <2>1, <2>2, <2>3, <3>1, <3>2 DEF IndInv, TypeOK, HandlesOp,
                 ToldLeaseIsHeld, CurrentAttempt, WorkerRecord, OperationRecord,
                 IdleWorker
          <3>5. AuditMatchesOutcome'
              <4>1. /\ out \in {"succeeded", "failed",
                                "operator_intervention_required"}
                    /\ audit[o] \in [AuditOutcome -> Nat]
                    /\ ReportMatches(op[o], audit[o])
                  BY <2>1, <2>7 DEF Outcome, IndInv, TypeOK, AuditMatchesOutcome
              <4>2. ReportMatches(r, CommittedAudit(audit[o], out))
                  BY <2>1, <2>2, <3>1, <4>1 DEF ReportMatches, CommittedAudit,
                     OperationRecord, AuditOutcome
              <4> HIDE DEF r, o, out
              <4> QED
                  BY <2>1, <2>3, <3>2, <4>2, ReportStep
          <3> QED
              BY <3>3, <3>4, <3>5
      <2> QED
          BY <2>5, <2>6, <2>7
  <1>13. CASE UNCHANGED vars
      BY <1>13 DEF vars, IndInv, LeaseShape, HandlesOp,
         ToldLeaseIsHeld, CurrentAttempt, AuditMatchesOutcome
  <1> QED
      BY <1>1, <1>2, <1>3, <1>4, <1>5, <1>6, <1>7, <1>8, <1>9, <1>10, <1>11,
         <1>12, <1>13 DEF Next

\* The inductive invariant holds in every reachable state.
THEOREM IndInvAlways == Spec => []IndInv
  <1>1. Init => IndInv
      BY InitIndInv
  <1>2. IndInv /\ [Next]_vars => IndInv'
      BY IndInvNext
  <1> QED
      BY <1>1, <1>2, PTL DEF Spec

\* Type correctness of the operations table and of the workers' memory.
THEOREM TypeCorrect == Spec => []TypeOK
  <1>1. IndInv => TypeOK
      BY DEF IndInv
  <1> QED
      BY <1>1, IndInvAlways, PTL

\* No statement leaves a row the recovery planner cannot act on: the lease
\* columns and the state column always agree.
THEOREM LeaseShapeAlways == Spec => []LeaseShape
  <1>1. IndInv => LeaseShape
      BY DEF IndInv
  <1> QED
      BY <1>1, IndInvAlways, PTL

\* Two workers never execute one operation within leases both were told are
\* still running: each such lease puts its worker's name on the one row.
THEOREM LeaseExclusionAlways == Spec => []LeaseExclusion
  <1>1. IndInv => LeaseExclusion
      BY DEF IndInv, LeaseExclusion, ToldLeaseIsHeld, Holds
  <1> QED
      BY <1>1, IndInvAlways, PTL

\* A worker that finds its name on the row is executing the row's current
\* attempt: lease_owner alone is a sound fencing token.
THEOREM FenceIsCurrentAlways == Spec => []FenceIsCurrent
  <1>1. IndInv => FenceIsCurrent
      BY DEF IndInv, FenceIsCurrent, CurrentAttempt, Holds
  <1> QED
      BY <1>1, IndInvAlways, PTL

\* The audit trail tells what happened: one success event exactly for a
\* succeeded operation, a failure event behind every failed or set-aside row,
\* and no attempt reported twice.
THEOREM AuditMatchesOutcomeAlways == Spec => []AuditMatchesOutcome
  <1>1. IndInv => AuditMatchesOutcome
      BY DEF IndInv
  <1> QED
      BY <1>1, IndInvAlways, PTL

\* What a step does to the operations table: nothing, or it rewrites one row
\* that is not terminal, inserting it as queued or moving it to the same or
\* to a state the table of state.go allows.
RowMove(o) ==
    /\ op[o].state \notin Terminal
    /\ op' = [op EXCEPT ![o] = op'[o]]
    /\ \/ op[o].state = Absent /\ op'[o].state = "queued"
       \/ /\ op[o].state \in OperationState
          /\ States!ValidTransition(op[o].state, op'[o].state)

LEMMA StepMovesOneRow ==
    ASSUME IndInv, [Next]_vars
    PROVE  op' = op \/ \E o \in Ops : RowMove(o)
  <1> DEFINE Moves == op' = op \/ \E o \in Ops : RowMove(o)
  <1>1. ASSUME NEW o \in Ops, CreateOperation(o) PROVE Moves
      <2>1. RowMove(o)
          BY <1>1 DEF CreateOperation, RowMove, IndInv, TypeOK, OperationRecord,
             Terminal, Absent
      <2> QED
          BY <2>1
  <1>2. ASSUME NEW o \in Ops, RequestCancel(o) PROVE Moves
      <2>1. RowMove(o)
          BY <1>2 DEF RequestCancel, RowMove, IndInv, TypeOK, OperationRecord,
             Terminal, OperationState, States!ValidTransition,
             States!AllowedNextStates, States!OperationState
      <2> QED
          BY <2>1
  <1>3. ASSUME NEW o \in Ops, OperatorRepair(o) PROVE Moves
      <2>1. RowMove(o)
          BY <1>3 DEF OperatorRepair, RowMove, IndInv, TypeOK, OperationRecord,
             Terminal, OperationState, States!ValidTransition,
             States!AllowedNextStates, States!OperationState
      <2> QED
          BY <2>1
  <1>4. ASSUME NEW w \in Workers, NEW o \in Ops, ExplicitRecovery(w, o)
        PROVE Moves
      <2>1. op[o].state = "operator_intervention_required"
          BY <1>4 DEF ExplicitRecovery
      <2>2. op' = [op EXCEPT ![o] = op'[o]] /\ op'[o].state = "running"
          <3>1. op' = [op EXCEPT ![o] = AcquiredRecord(op[o], w, now)]
              BY <1>4 DEF ExplicitRecovery
          <3>2. AcquiredRecord(op[o], w, now).state = "running"
              BY <2>1 DEF AcquiredRecord, IndInv, TypeOK, OperationRecord
          <3> QED
              BY <3>1, <3>2 DEF IndInv, TypeOK
      <2>3. RowMove(o)
          BY <2>1, <2>2 DEF RowMove, Terminal, OperationState,
             States!ValidTransition, States!AllowedNextStates,
             States!OperationState
      <2> QED
          BY <2>3
  <1>5. ASSUME NEW w \in Workers, NEW m \in Marker, Acquire(w, m) PROVE Moves
      <2> DEFINE o == worker[w].op
      <2>1. o \in Ops /\ op[o].state \in {"queued", "running"}
          BY <1>5 DEF Acquire, CanAcquire, IndInv, HandlesOp
      <2>2. op' = [op EXCEPT ![o] = op'[o]] /\ op'[o].state = "running"
          <3>1. op' = [op EXCEPT ![o] = AcquiredRecord(op[o], w, now)]
              BY <1>5 DEF Acquire
          <3>2. AcquiredRecord(op[o], w, now).state = "running"
              BY <2>1 DEF AcquiredRecord, IndInv, TypeOK, OperationRecord
          <3> QED
              BY <2>1, <3>1, <3>2 DEF IndInv, TypeOK
      <2>3. RowMove(o)
          BY <2>1, <2>2 DEF RowMove, Terminal, OperationState,
             States!ValidTransition, States!AllowedNextStates,
             States!OperationState
      <2> QED
          BY <2>1, <2>3
  <1>6. ASSUME NEW w \in Workers, FinalizeCancellation(w) PROVE Moves
      <2> DEFINE o == worker[w].op
      <2>1. /\ o \in Ops
            /\ op[o].state \in {"queued", "running", "cancel_requested"}
          BY <1>6 DEF FinalizeCancellation, CanAcquire, IndInv, HandlesOp
      <2>2. /\ op' = [op EXCEPT ![o] = op'[o]]
            /\ op'[o].state = IF op[o].state = "cancel_requested"
                              THEN "cancelled" ELSE "running"
          BY <1>6, <2>1 DEF FinalizeCancellation, AcquiredRecord, IndInv, TypeOK,
             OperationRecord
      <2>3. RowMove(o)
          BY <2>1, <2>2 DEF RowMove, Terminal, OperationState,
             States!ValidTransition, States!AllowedNextStates,
             States!OperationState
      <2> QED
          BY <2>1, <2>3
  <1>7. ASSUME NEW w \in Workers, Renew(w) PROVE Moves
      <2> DEFINE o == worker[w].op
      <2>1. o \in Ops /\ op[o].state = "running"
          BY <1>7 DEF Renew, CanRenew, IndInv, HandlesOp
      <2>2. op' = [op EXCEPT ![o] = op'[o]] /\ op'[o].state = "running"
          BY <1>7, <2>1 DEF Renew, IndInv, TypeOK, OperationRecord
      <2>3. RowMove(o)
          BY <2>1, <2>2 DEF RowMove, Terminal, OperationState,
             States!ValidTransition
      <2> QED
          BY <2>1, <2>3
  <1>8. ASSUME NEW w \in Workers, Commit(w) PROVE Moves
      <2> DEFINE o == worker[w].op
      <2>1. /\ o \in Ops /\ op[o].state = "running"
            /\ worker[w].outcome \in Outcome
          BY <1>8 DEF Commit, LeaseFenced, IndInv, HandlesOp, TypeOK, WorkerRecord
      <2>2. /\ op' = [op EXCEPT ![o] = op'[o]]
            /\ op'[o].state \in {"running", "succeeded", "failed",
                                "operator_intervention_required"}
          BY <1>8, <2>1 DEF Commit, CommittedRecord, Outcome, IndInv, TypeOK,
             OperationRecord
      <2>3. RowMove(o)
          BY <2>1, <2>2 DEF RowMove, Terminal, OperationState,
             States!ValidTransition, States!AllowedNextStates,
             States!OperationState
      <2> QED
          BY <2>1, <2>3
  <1>9. CASE \/ Tick \/ UNCHANGED vars
             \/ \E w \in Workers :
                   \/ \E o \in Ops : Scan(w, o)
                   \/ \E out \in Outcome : PrepareCommit(w, out)
                   \/ Skip(w) \/ RaceLost(w) \/ CommitRejected(w) \/ Stop(w)
      BY <1>9 DEF Tick, vars, Scan, PrepareCommit, Skip, RaceLost,
         CommitRejected, Stop
  <1> QED
      BY <1>1, <1>2, <1>3, <1>4, <1>5, <1>6, <1>7, <1>8, <1>9 DEF Next

\* Such a move is a step of the state table, or none.
LEMMA RowMoveIsTransition ==
    ASSUME DOMAIN op = Ops, NEW o \in Ops, RowMove(o)
    PROVE  \/ States!Next
           \/ [p \in Ops |-> op[p].state]' = [p \in Ops |-> op[p].state]
  <1> DEFINE st == [p \in Ops |-> op[p].state]
  <1>1. \A p \in Ops \ {o} : op'[p] = op[p]
      BY DEF RowMove
  <1>2. st' = [st EXCEPT ![o] = op'[o].state]
      BY <1>1
  <1>3. CASE op[o].state = Absent /\ op'[o].state = "queued"
      BY <1>2, <1>3 DEF States!Next, States!Create, Absent, States!Absent
  <1>4. CASE op'[o].state = op[o].state
      BY <1>2, <1>4
  <1>5. CASE /\ op[o].state \in OperationState
             /\ op'[o].state \in States!AllowedNextStates[op[o].state]
      BY <1>2, <1>5 DEF States!Next, States!Transition, OperationState,
         States!OperationState
  <1> QED
      BY <1>3, <1>4, <1>5 DEF RowMove, States!ValidTransition

\* A terminal row is final: no slow worker, repair or cancellation writes it
\* again.
THEOREM TerminalIsFinalAlways == Spec => TerminalIsFinal
  <1>1. IndInv /\ [Next]_vars =>
            [\A o \in Ops : op[o].state \in Terminal => op'[o] = op[o]]_vars
      <2> SUFFICES ASSUME IndInv, [Next]_vars, NEW o \in Ops,
                          op[o].state \in Terminal
                   PROVE  op'[o] = op[o]
          OBVIOUS
      <2>1. CASE op' = op
          BY <2>1
      <2>2. ASSUME NEW p \in Ops, RowMove(p) PROVE op'[o] = op[o]
          BY <2>2 DEF RowMove, IndInv, TypeOK
      <2> QED
          BY <2>1, <2>2, StepMovesOneRow
  <1> QED
      BY <1>1, IndInvAlways, PTL DEF Spec, TerminalIsFinal

\* The operations table implements the state table of state.go, although no
\* statement consults it.
THEOREM ImplementsStates == Spec => StatesSpec
  <1> DEFINE st == [o \in Ops |-> op[o].state]
  <1>1. Init => States!Init
      BY DEF Init, States!Init, Absent, States!Absent
  <1>2. IndInv /\ [Next]_vars => [States!Next]_st
      <2> SUFFICES ASSUME IndInv, [Next]_vars PROVE States!Next \/ st' = st
          OBVIOUS
      <2>1. CASE op' = op
          BY <2>1
      <2>2. ASSUME NEW o \in Ops, RowMove(o) PROVE States!Next \/ st' = st
          BY <2>2, RowMoveIsTransition DEF IndInv, TypeOK
      <2> QED
          BY <2>1, <2>2, StepMovesOneRow
  <1> QED
      BY <1>1, <1>2, IndInvAlways, PTL DEF Spec, StatesSpec, States!Spec

------------------------------------------------------------------------------
(* The save point executor, SavePointCreate: the same operations and         *)
(* workers, with its own rows and memories in place of those above.          *)

CONSTANTS MaxStop, MaxStall

VARIABLES stops, stalls

SavePoint == INSTANCE SavePointCreate

\* No worker has stopped in mid-operation and none has lost its lease.
NoFault == stops = 0 /\ stalls = 0

\* The rows on which a worker past its acquisition is known to be alone: in
\* their first attempt, or in any attempt while nothing has gone wrong.
Sole(o) == op[o].attempt = "first" \/ NoFault

SaveRows ==
    \A o \in Ops :
        /\ op[o].attempt = "none" <=> op[o].state \in {"absent", "queued"}
        /\ op[o].attempt = "none" => SavesOf(o) = {}
        /\ op[o].lease = "live" =>
              op[o].state = "running" /\ op[o].owner \in Workers

\* Without faults a running operation is being executed, or its last attempt
\* was turned away and left nothing behind.
RunningWithoutFault ==
    NoFault =>
        \A o \in Ops : op[o].state = "running" =>
            IF op[o].lease = "live" THEN SavePoint!Executes(op[o].owner, o)
                                    ELSE SavesOf(o) = {}

\* A second save of an operation takes both a fault and a second attempt: the
\* first attempt saves at most once whatever goes wrong, and without faults
\* so do all attempts together, however often JVS turns them away.
SavesOnce ==
    \A o \in Ops : Sole(o) => \A i, j \in SavesOf(o) : i = j

\* A worker handles an operation, and the save it remembers is one of it.
MemoryFacts(w) ==
    /\ worker[w].pc # "idle" => worker[w].op \in Ops
    /\ \/ worker[w].pc = "saved"
       \/ worker[w].pc = "committing" /\ worker[w].outcome = "succeeded"
       => worker[w].save \in SavesOf(worker[w].op)
    /\ worker[w].pc = "committing" => worker[w].outcome # "none"

SaveMemory == \A w \in Workers : MemoryFacts(w)

\* What a worker alone on its row knows of it: the row is still its own, and
\* the history holds no save of the operation but the one it remembers.
AloneFacts(w, o) ==
    /\ op[o].state = "running" /\ op[o].owner = w
    /\ NoFault => op[o].lease = "live"
    /\ worker[w].pc \in {"leased", "saving"} => SavesOf(o) = {}
    /\ worker[w].pc = "saved" => SavesOf(o) = {worker[w].save}
    /\ worker[w].pc = "committing" /\ worker[w].outcome = "pending" =>
          SavesOf(o) = {}
    /\ worker[w].pc = "committing" /\ worker[w].outcome = "failed" =>
          \A i \in SavesOf(o) : i < Len(history)

SaveAlone ==
    \A w \in Workers : \A o \in Ops : SavePoint!Executes(w, o) =>
        /\ op[o].attempt # "none"
        /\ Sole(o) => AloneFacts(w, o)

SaveIndInv ==
    /\ SavePoint!TypeOK
    /\ SaveRows
    /\ RunningWithoutFault
    /\ SavesOnce
    /\ SaveMemory
    /\ SaveAlone
    /\ SuccessNamesOwnSave
    /\ FailureLeavesNoHead

\* The bounds of the model (StopBoundAssumption of SavePointCreate).
SaveBounds == MaxStop \in Nat /\ MaxStall \in Nat

\* The saves of an operation are places in the history.
LEMMA SavesArePlaces ==
    ASSUME SavePoint!TypeOK, NEW o \in Ops, NEW i \in SavesOf(o)
    PROVE  i \in Nat /\ 0 < i /\ i <= Len(history)
  <1>1. history \in Seq(Ops)
      BY DEF SavePoint!TypeOK
  <1>2. i \in DOMAIN history
      BY DEF SavesOf
  <1> QED
      BY <1>1, <1>2, LenProperties

\* A step that leaves the history alone changes the saves of no operation.
LEMMA SavesFrame ==
    ASSUME history' = history, NEW o
    PROVE  SavesOf(o)' = SavesOf(o)
  BY DEF SavesOf

\* A save adds one place, the new head, to the saves of its operation.
LEMMA SavesAppend ==
    ASSUME SavePoint!TypeOK, NEW p \in Ops, history' = Append(history, p)
    PROVE  /\ Len(history') = Len(history) + 1
           /\ SavesOf(p)' =
                 SavesOf(p) \cup {Len(history) + 1}
           /\ \A o \in Ops \ {p} : SavesOf(o)' = SavesOf(o)
  <1>1. history \in Seq(Ops)
      BY DEF SavePoint!TypeOK
  <1>2. /\ history' \in Seq(Ops)
        /\ Len(history') = Len(history) + 1
        /\ \A i \in 1..Len(history) : history'[i] = history[i]
        /\ history'[Len(history) + 1] = p
      BY <1>1, AppendProperties
  <1>3. /\ DOMAIN history = 1..Len(history) /\ Len(history) \in Nat
        /\ DOMAIN history' = 1..(Len(history) + 1)
      BY <1>1, <1>2, LenProperties
  <1> QED
      BY <1>2, <1>3 DEF SavesOf

\* The initial state satisfies the inductive invariant.
LEMMA SaveInit == ASSUME SaveBounds PROVE SavePoint!Init => SaveIndInv
  <1> SUFFICES ASSUME SavePoint!Init PROVE SaveIndInv
      OBVIOUS
  <1>1. history = <<>> /\ history \in Seq(Ops) /\ DOMAIN history = {}
      BY DEF SavePoint!Init
  <1>2. \A o \in Ops : SavesOf(o) = {}
      BY <1>1 DEF SavesOf
  <1>3. SavePoint!TypeOK
      BY <1>1 DEF SavePoint!Init, SavePoint!TypeOK, SavePoint!OperationRecord,
         SavePoint!WorkerRecord, SavePoint!IdleWorker, SavePoint!Marker,
         SavePoint!Terminal, SaveBounds
  <1> QED
      BY <1>2, <1>3 DEF SavePoint!Init, SaveIndInv, SaveRows,
         RunningWithoutFault, SavesOnce, SaveMemory, MemoryFacts, SaveAlone,
         SavePoint!Executes, SavePoint!IdleWorker,
         SuccessNamesOwnSave, FailureLeavesNoHead

\* A step that rewrites one worker's memory and nothing else but the counts
\* of faults, with a memory that is right about its operation, and forgets
\* an execution only when something has gone wrong.
LEMMA MemoryStep ==
    ASSUME SaveIndInv, op' = op, history' = history,
           stops' \in 0..MaxStop, stalls' \in 0..MaxStall, NoFault' => NoFault,
           NEW w \in Workers, NEW m \in SavePoint!WorkerRecord,
           worker' = [worker EXCEPT ![w] = m],
           MemoryFacts(w)',
           \A o \in Ops : SavePoint!Executes(w, o)' =>
               SavePoint!Executes(w, o) /\ (Sole(o) => AloneFacts(w, o)'),
           NoFault' => \A o \in Ops : SavePoint!Executes(w, o) =>
                                          SavePoint!Executes(w, o)'
    PROVE  SaveIndInv'
  <1>1. \A o : SavesOf(o)' = SavesOf(o)
      BY SavesFrame
  <1>2. SavePoint!TypeOK'
      BY DEF SaveIndInv, SavePoint!TypeOK
  <1>3. \A v \in Workers \ {w} : worker'[v] = worker[v]
      BY DEF SaveIndInv, SavePoint!TypeOK
  <1>4. \A o \in Ops : Sole(o)' => Sole(o)
      BY DEF Sole
  <1>5. \A v \in Workers \ {w}, o \in Ops :
            /\ SavePoint!Executes(v, o)' <=> SavePoint!Executes(v, o)
            /\ Sole(o) /\ AloneFacts(v, o) => AloneFacts(v, o)'
      BY <1>1, <1>3 DEF SavePoint!Executes, AloneFacts
  <1>6. \A v \in Workers \ {w} : MemoryFacts(v) => MemoryFacts(v)'
      BY <1>1, <1>3 DEF MemoryFacts
  <1>7. SaveRows'
      BY <1>1 DEF SaveIndInv, SaveRows
  <1>8. RunningWithoutFault'
      <2> SUFFICES ASSUME NoFault', NEW o \in Ops, op[o].state = "running"
                   PROVE  IF op[o].lease = "live"
                          THEN SavePoint!Executes(op[o].owner, o)'
                          ELSE SavesOf(o) = {}
          BY <1>1 DEF RunningWithoutFault, SavePoint!Executes
      <2>1. CASE op[o].lease = "live"
          <3>1. op[o].owner \in Workers
              BY <2>1 DEF SaveIndInv, SaveRows
          <3>2. SavePoint!Executes(op[o].owner, o)
              BY <2>1 DEF SaveIndInv, RunningWithoutFault
          <3> QED
              BY <2>1, <3>1, <3>2, <1>5
      <2>2. CASE op[o].lease # "live"
          BY <2>2 DEF SaveIndInv, RunningWithoutFault
      <2> QED
          BY <2>1, <2>2
  <1>9. SavesOnce'
      BY <1>1, <1>4 DEF SaveIndInv, SavesOnce
  <1>10. SaveMemory'
      BY <1>6 DEF SaveIndInv, SaveMemory
  <1>11. SaveAlone'
      <2> SUFFICES ASSUME NEW v \in Workers, NEW o \in Ops,
                          SavePoint!Executes(v, o)'
                   PROVE  /\ op[o].attempt # "none"
                          /\ Sole(o)' => AloneFacts(v, o)'
          BY DEF SaveAlone
      <2>1. SavePoint!Executes(v, o)
          BY <1>5
      <2>2. op[o].attempt # "none" /\ (Sole(o) => AloneFacts(v, o))
          BY <2>1 DEF SaveIndInv, SaveAlone
      <2> QED
          BY <1>4, <1>5, <2>2
  <1>12. SuccessNamesOwnSave'
      BY <1>1 DEF SaveIndInv, SuccessNamesOwnSave
  <1>13. FailureLeavesNoHead'
      BY <1>1 DEF SaveIndInv, FailureLeavesNoHead
  <1> QED
      BY <1>2, <1>7, <1>8, <1>9, <1>10, <1>11, <1>12, <1>13 DEF SaveIndInv

\* What the invariant says of a worker past its acquisition.
LEMMA ExecutingWorker ==
    ASSUME SaveIndInv, NEW w \in Workers,
           worker[w].pc \notin {"idle", "planned"}
    PROVE  /\ worker[w].op \in Ops
           /\ SavePoint!Executes(w, worker[w].op)
           /\ op[worker[w].op].attempt # "none"
           /\ Sole(worker[w].op) => AloneFacts(w, worker[w].op)
  <1>1. worker[w].op \in Ops
      BY DEF SaveIndInv, SaveMemory, MemoryFacts
  <1> QED
      BY <1>1 DEF SaveIndInv, SaveAlone, SavePoint!Executes

\* The worker forgets: it was not executing, or something has gone wrong.
LEMMA ForgetStep ==
    ASSUME SaveIndInv, op' = op, history' = history,
           stops' \in 0..MaxStop, stalls' \in 0..MaxStall, NoFault' => NoFault,
           NEW w \in Workers,
           worker' = [worker EXCEPT ![w] = SavePoint!IdleWorker],
           NoFault' => worker[w].pc \in {"idle", "planned"}
    PROVE  SaveIndInv'
  <1>1. SavePoint!IdleWorker \in SavePoint!WorkerRecord
      BY DEF SavePoint!IdleWorker, SavePoint!WorkerRecord, SavePoint!Marker
  <1>2. worker'[w] = SavePoint!IdleWorker /\ worker'[w].pc = "idle"
      BY DEF SaveIndInv, SavePoint!TypeOK, SavePoint!IdleWorker
  <1>3. MemoryFacts(w)'
      BY <1>2 DEF MemoryFacts
  <1>4. \A o \in Ops : ~ SavePoint!Executes(w, o)'
      BY <1>2 DEF SavePoint!Executes
  <1>5. NoFault' => \A o \in Ops : ~ SavePoint!Executes(w, o)
      BY DEF SavePoint!Executes
  <1> QED
      BY <1>1, <1>3, <1>4, <1>5, MemoryStep

\* The worker goes on executing its operation, with the row unchanged.
LEMMA ExecutorStep ==
    ASSUME SaveIndInv, op' = op, history' = history,
           stops' = stops, stalls' = stalls,
           NEW w \in Workers, NEW o \in Ops, worker[w].op = o,
           worker[w].pc \notin {"idle", "planned"},
           NEW m \in SavePoint!WorkerRecord,
           worker' = [worker EXCEPT ![w] = m],
           m.op = o, m.pc \in {"saving", "committing"},
           MemoryFacts(w)',
           Sole(o) => AloneFacts(w, o)'
    PROVE  SaveIndInv'
  <1>1. stops' \in 0..MaxStop /\ stalls' \in 0..MaxStall
      BY DEF SaveIndInv, SavePoint!TypeOK
  <1>2. NoFault' => NoFault
      BY DEF NoFault
  <1>3. worker'[w] = m
      BY DEF SaveIndInv, SavePoint!TypeOK
  <1>4. \A p \in Ops : /\ SavePoint!Executes(w, p) <=> p = o
                       /\ SavePoint!Executes(w, p)' <=> p = o
      BY <1>3 DEF SavePoint!Executes
  <1> QED
      BY <1>1, <1>2, <1>4, MemoryStep

\* Planning an operation claims nothing.
LEMMA SaveScan ==
    ASSUME SaveIndInv, NEW w \in Workers, NEW o \in Ops, SavePoint!Scan(w, o)
    PROVE  SaveIndInv'
  <1> DEFINE m == [SavePoint!IdleWorker EXCEPT
                     !.pc = "planned", !.op = o, !.plan = SavePoint!Plan(op[o])]
  <1>1. /\ op' = op /\ history' = history /\ stops' = stops
        /\ stalls' = stalls /\ worker' = [worker EXCEPT ![w] = m]
        /\ worker[w].pc = "idle"
      BY DEF SavePoint!Scan
  <1>2. SavePoint!Plan(op[o]) \in {"none", "claimable", "reclaim"}
      BY DEF SavePoint!Plan
  <1>3. m \in SavePoint!WorkerRecord /\ m.pc = "planned" /\ m.op = o
      BY <1>2 DEF SavePoint!IdleWorker, SavePoint!WorkerRecord, SavePoint!Marker
  <1> HIDE DEF m
  <1>4. worker'[w] = m
      BY <1>1 DEF SaveIndInv, SavePoint!TypeOK
  <1>5. MemoryFacts(w)'
      BY <1>3, <1>4 DEF MemoryFacts
  <1>6. \A p \in Ops : ~ SavePoint!Executes(w, p)' /\ ~ SavePoint!Executes(w, p)
      BY <1>1, <1>3, <1>4 DEF SavePoint!Executes
  <1>7. stops' \in 0..MaxStop /\ stalls' \in 0..MaxStall /\ (NoFault' => NoFault)
      BY <1>1 DEF SaveIndInv, SavePoint!TypeOK, NoFault
  <1> QED
      BY <1>1, <1>3, <1>5, <1>6, <1>7, MemoryStep

\* A worker that loses the race for a row has done nothing to it.
LEMMA SaveRaceLost ==
    ASSUME SaveIndInv, NEW w \in Workers, SavePoint!RaceLost(w)
    PROVE  SaveIndInv'
  <1>1. /\ op' = op /\ history' = history
        /\ stops' = stops /\ stalls' = stalls
        /\ worker' = [worker EXCEPT ![w] = SavePoint!IdleWorker]
        /\ worker[w].pc = "planned"
      BY DEF SavePoint!RaceLost
  <1>2. stops' \in 0..MaxStop /\ stalls' \in 0..MaxStall /\ (NoFault' => NoFault)
      BY <1>1 DEF SaveIndInv, SavePoint!TypeOK, NoFault
  <1> QED
      BY <1>1, <1>2, ForgetStep

\* A commit is turned away only after a fault: a worker alone on its row
\* still owns it, its lease is live, and a success it commits names a save.
LEMMA SaveCommitRejected ==
    ASSUME SaveIndInv, NEW w \in Workers, SavePoint!CommitRejected(w)
    PROVE  SaveIndInv'
  <1> DEFINE o == worker[w].op
  <1>1. /\ op' = op /\ history' = history
        /\ stops' = stops /\ stalls' = stalls
        /\ worker' = [worker EXCEPT ![w] = SavePoint!IdleWorker]
        /\ worker[w].pc = "committing"
        /\ SavePoint!ValidRecord(worker[w]) =>
              \/ op[o].state # "running" \/ op[o].owner # w
              \/ op[o].lease = "expired"
      BY DEF SavePoint!CommitRejected
  <1>2. stops' \in 0..MaxStop /\ stalls' \in 0..MaxStall /\ (NoFault' => NoFault)
      BY <1>1 DEF SaveIndInv, SavePoint!TypeOK, NoFault
  <1>3. SavePoint!ValidRecord(worker[w])
      <2> SUFFICES ASSUME worker[w].outcome = "succeeded"
                   PROVE  worker[w].save > 0
          BY DEF SavePoint!ValidRecord
      <2>1. o \in Ops /\ worker[w].save \in SavesOf(o)
          BY <1>1 DEF SaveIndInv, SaveMemory, MemoryFacts
      <2>2. SavePoint!TypeOK
          BY DEF SaveIndInv
      <2>3. worker[w].save \in Nat /\ 0 < worker[w].save
          BY <2>1, <2>2, SavesArePlaces
      <2> QED
          BY <2>3
  <1>4. ~ NoFault
      <2> SUFFICES ASSUME NoFault PROVE FALSE
          OBVIOUS
      <2>1. AloneFacts(w, o)
          BY <1>1, ExecutingWorker DEF Sole
      <2> QED
          BY <1>1, <1>3, <2>1 DEF AloneFacts
  <1> QED
      BY <1>1, <1>2, <1>4, ForgetStep

\* A worker that stops takes what it knew with it.
LEMMA SaveStop ==
    ASSUME SaveBounds, SaveIndInv, NEW w \in Workers, SavePoint!Stop(w)
    PROVE  SaveIndInv'
  <1>1. /\ op' = op /\ history' = history
        /\ stops < MaxStop /\ stops' = stops + 1 /\ stalls' = stalls
        /\ worker' = [worker EXCEPT ![w] = SavePoint!IdleWorker]
      BY DEF SavePoint!Stop
  <1>2. stops \in 0..MaxStop /\ stalls \in 0..MaxStall
      BY DEF SaveIndInv, SavePoint!TypeOK
  <1>3. stops' \in 0..MaxStop /\ stalls' \in 0..MaxStall /\ stops' # 0
      BY <1>1, <1>2 DEF SaveBounds
  <1>4. ~ NoFault'
      BY <1>3 DEF NoFault
  <1> QED
      BY <1>1, <1>3, <1>4, ForgetStep

\* An execution that ends before it saves, or after a save it can vouch for.
LEMMA EndsInv ==
    ASSUME SaveIndInv, op' = op, history' = history,
           stops' = stops, stalls' = stalls,
           NEW w \in Workers, worker[w].pc \in {"leased", "saving", "saved"},
           NEW out \in {"succeeded", "failed", "pending",
                        "operator_intervention_required"},
           SavePoint!Ends(w, out),
           out = "succeeded" => worker[w].pc = "saved",
           out = "pending" => worker[w].pc # "saved",
           out = "failed" /\ worker[w].pc = "saved" =>
               worker[w].save # Len(history)
    PROVE  SaveIndInv'
  <1> DEFINE m == [worker[w] EXCEPT !.pc = "committing", !.outcome = out]
  <1>1. PICK o \in Ops : o = worker[w].op
      BY ExecutingWorker
  <1>2. worker[w] \in SavePoint!WorkerRecord
      BY DEF SaveIndInv, SavePoint!TypeOK
  <1>3. /\ m \in SavePoint!WorkerRecord /\ m.op = o /\ m.pc = "committing"
        /\ m.outcome = out /\ m.save = worker[w].save
      BY <1>1, <1>2 DEF SavePoint!WorkerRecord
  <1>4. worker' = [worker EXCEPT ![w] = m]
      BY DEF SavePoint!Ends
  <1> HIDE DEF m
  <1>5. worker'[w] = m
      BY <1>4 DEF SaveIndInv, SavePoint!TypeOK
  <1>6. \A p : SavesOf(p)' = SavesOf(p)
      BY SavesFrame
  <1>7. MemoryFacts(w)'
      <2>1. worker[w].pc = "saved" => worker[w].save \in SavesOf(o)
          BY <1>1 DEF SaveIndInv, SaveMemory, MemoryFacts
      <2> QED
          BY <1>3, <1>5, <1>6, <2>1 DEF MemoryFacts
  <1>8. Sole(o) => AloneFacts(w, o)'
      <2> SUFFICES ASSUME Sole(o) PROVE AloneFacts(w, o)'
          OBVIOUS
      <2>1. AloneFacts(w, o)
          BY <1>1, ExecutingWorker
      <2>2. op'[o].state = "running" /\ op'[o].owner = w
          BY <2>1 DEF AloneFacts
      <2>3. NoFault' => op'[o].lease = "live"
          BY <2>1 DEF AloneFacts, NoFault
      <2>4. out = "pending" => SavesOf(o) = {}
          BY <2>1 DEF AloneFacts
      <2>5. out = "failed" => \A i \in SavesOf(o) : i < Len(history)
          <3> SUFFICES ASSUME out = "failed", NEW i \in SavesOf(o)
                       PROVE  i < Len(history)
              OBVIOUS
          <3>1. worker[w].pc = "saved" /\ i = worker[w].save
              BY <2>1 DEF AloneFacts
          <3>2. SavePoint!TypeOK /\ Len(history) \in Nat
              BY LenProperties DEF SaveIndInv, SavePoint!TypeOK
          <3>3. i \in Nat /\ i <= Len(history)
              BY <3>2, SavesArePlaces
          <3> QED
              BY <3>1, <3>2, <3>3
      <2> QED
          BY <1>3, <1>5, <1>6, <2>2, <2>3, <2>4, <2>5 DEF AloneFacts
  <1> QED
      BY <1>1, <1>3, <1>4, <1>7, <1>8, ExecutorStep

\* An uncertain reclaim is handed to the operator before it saves.
LEMMA SaveRefuse ==
    ASSUME SaveIndInv, NEW w \in Workers, SavePoint!RefuseUncertain(w)
    PROVE  SaveIndInv'
  <1>1. /\ op' = op /\ history' = history /\ stops' = stops /\ stalls' = stalls
        /\ worker[w].pc = "leased"
        /\ SavePoint!Ends(w, "operator_intervention_required")
      BY DEF SavePoint!RefuseUncertain
  <1> QED
      BY <1>1, EndsInv

\* Reading the metadata ends the execution or lets it save.
LEMMA SaveValidate ==
    ASSUME SaveIndInv, NEW w \in Workers,
           NEW v \in {"ok", "failed", "operator_intervention_required"},
           SavePoint!Validate(w, v)
    PROVE  SaveIndInv'
  <1>1. /\ op' = op /\ history' = history /\ stops' = stops /\ stalls' = stalls
        /\ worker[w].pc = "leased"
      BY DEF SavePoint!Validate
  <1>2. CASE v # "ok"
      <2>1. SavePoint!Ends(w, v) /\ v \in {"failed", "operator_intervention_required"}
          BY <1>2 DEF SavePoint!Validate
      <2> QED
          BY <1>1, <2>1, EndsInv
  <1>3. CASE v = "ok"
      <2> DEFINE m == [worker[w] EXCEPT !.pc = "saving"]
      <2>1. PICK o \in Ops : o = worker[w].op
          BY <1>1, ExecutingWorker
      <2>2. worker[w] \in SavePoint!WorkerRecord
          BY DEF SaveIndInv, SavePoint!TypeOK
      <2>3. m \in SavePoint!WorkerRecord /\ m.op = o /\ m.pc = "saving"
          BY <2>1, <2>2 DEF SavePoint!WorkerRecord
      <2>4. worker' = [worker EXCEPT ![w] = m]
          BY <1>3 DEF SavePoint!Validate
      <2> HIDE DEF m
      <2>5. worker'[w] = m
          BY <2>4 DEF SaveIndInv, SavePoint!TypeOK
      <2>6. SavesOf(o)' = SavesOf(o)
          BY <1>1, SavesFrame
      <2>7. MemoryFacts(w)'
          BY <2>3, <2>5 DEF MemoryFacts
      <2>8. Sole(o) => AloneFacts(w, o)
          BY <1>1, <2>1, ExecutingWorker
      <2>9. Sole(o) => AloneFacts(w, o)'
          BY <1>1, <2>3, <2>5, <2>6, <2>8 DEF AloneFacts, NoFault
      <2> QED
          BY <1>1, <2>1, <2>3, <2>4, <2>7, <2>9, ExecutorStep
  <1> QED
      BY <1>2, <1>3

\* Only a save still at the head of the history is reported as made.
LEMMA SaveVerify ==
    ASSUME SaveIndInv, NEW w \in Workers, NEW listed \in BOOLEAN,
           SavePoint!VerifyVisible(w, listed)
    PROVE  SaveIndInv'
  <1> DEFINE out == IF ~listed THEN "operator_intervention_required"
                    ELSE IF Len(history) = worker[w].save THEN "succeeded"
                    ELSE "failed"
  <1>1. /\ op' = op /\ history' = history /\ stops' = stops /\ stalls' = stalls
        /\ worker[w].pc = "saved"
        /\ SavePoint!Ends(w, out)
      BY DEF SavePoint!VerifyVisible, SavePoint!HistoryHead
  <1>2. /\ out \in {"succeeded", "failed", "operator_intervention_required"}
        /\ out = "failed" => worker[w].save # Len(history)
      OBVIOUS
  <1> HIDE DEF out
  <1>3. PICK e \in {"succeeded", "failed", "operator_intervention_required"} :
            e = out
      BY <1>2
  <1> QED
      BY <1>1, <1>2, <1>3, EndsInv

\* JVS saved, whether or not the executor can tell.  No other worker is alone
\* on the row, and every other operation finds the history longer.
LEMMA SavedInv ==
    ASSUME SaveIndInv, op' = op, stops' = stops, stalls' = stalls,
           NEW w \in Workers, NEW o \in Ops, worker[w].op = o,
           worker[w].pc = "saving",
           history' = Append(history, o),
           NEW m \in SavePoint!WorkerRecord,
           worker' = [worker EXCEPT ![w] = m], m.op = o,
           \/ m.pc = "saved" /\ m.save = Len(history) + 1
           \/ /\ m.pc = "committing"
              /\ m.outcome = "operator_intervention_required"
    PROVE  SaveIndInv'
  <1>1. SavePoint!TypeOK /\ history \in Seq(Ops)
      BY DEF SaveIndInv, SavePoint!TypeOK
  <1>2. Len(history) \in Nat
      BY <1>1, LenProperties
  <1>3. /\ Len(history') = Len(history) + 1
        /\ SavesOf(o)' = SavesOf(o) \cup {Len(history) + 1}
        /\ \A p \in Ops \ {o} : SavesOf(p)' = SavesOf(p)
      BY <1>1, SavesAppend
  <1>4. worker'[w] = m /\ \A v \in Workers \ {w} : worker'[v] = worker[v]
      BY DEF SaveIndInv, SavePoint!TypeOK
  <1>5. /\ op[o].attempt # "none" /\ SavePoint!Executes(w, o)
        /\ Sole(o) => AloneFacts(w, o)
      BY ExecutingWorker
  <1>6. (NoFault' <=> NoFault) /\ \A p \in Ops : Sole(p)' <=> Sole(p)
      BY DEF NoFault, Sole
  <1>7. \A v \in Workers, p \in Ops :
            SavePoint!Executes(v, p)' <=> SavePoint!Executes(v, p)
      BY <1>4 DEF SavePoint!Executes
  <1>8. SavePoint!TypeOK'
      <2>1. history' \in Seq(Ops)
          BY <1>1, AppendProperties
      <2> QED
          BY <1>1, <2>1 DEF SavePoint!TypeOK
  <1>9. \A p \in Ops : \A i \in SavesOf(p) :
            i \in Nat /\ 0 < i /\ i <= Len(history)
      BY <1>1, SavesArePlaces
  <1>10. SaveRows'
      BY <1>3, <1>5 DEF SaveIndInv, SaveRows
  <1>11. RunningWithoutFault'
      <2> SUFFICES ASSUME NoFault, NEW p \in Ops, op[p].state = "running"
                   PROVE  IF op[p].lease = "live"
                          THEN SavePoint!Executes(op[p].owner, p)'
                          ELSE SavesOf(p)' = {}
          BY <1>6 DEF RunningWithoutFault, SavePoint!Executes
      <2>1. CASE op[p].lease = "live"
          <3>1. op[p].owner \in Workers /\ SavePoint!Executes(op[p].owner, p)
              BY <2>1 DEF SaveIndInv, SaveRows, RunningWithoutFault
          <3> QED
              BY <2>1, <3>1, <1>7
      <2>2. CASE op[p].lease # "live"
          <3>1. p # o
              BY <1>5, <2>2 DEF Sole, AloneFacts
          <3>2. SavesOf(p) = {}
              BY <2>2 DEF SaveIndInv, RunningWithoutFault
          <3> QED
              BY <2>2, <3>1, <3>2, <1>3
      <2> QED
          BY <2>1, <2>2
  <1>12. Sole(o) => SavesOf(o) = {}
      BY <1>5 DEF AloneFacts
  <1>13. SavesOnce'
      <2> SUFFICES ASSUME NEW p \in Ops, Sole(p),
                          NEW i, i \in SavesOf(p)',
                          NEW j, j \in SavesOf(p)'
                   PROVE  i = j
          BY <1>6 DEF SavesOnce
      <2>1. CASE p = o
          BY <2>1, <1>3, <1>12
      <2>2. CASE p # o
          BY <2>2, <1>3 DEF SaveIndInv, SavesOnce
      <2> QED
          BY <2>1, <2>2
  <1>14. SaveMemory'
      <2> SUFFICES ASSUME NEW v \in Workers PROVE MemoryFacts(v)'
          BY DEF SaveMemory
      <2>1. CASE v = w
          BY <1>2, <1>3, <1>4, <2>1 DEF MemoryFacts
      <2>2. CASE v # w
          <3>1. MemoryFacts(v) /\ worker'[v] = worker[v]
              BY <1>4, <2>2 DEF SaveIndInv, SaveMemory
          <3>2. worker[v].op \in Ops =>
                    SavesOf(worker[v].op) \subseteq
                        {i \in DOMAIN history' : history'[i] = worker[v].op}
              BY <1>3 DEF SavesOf
          <3>3. worker[v].pc # "idle" => worker[v].op \in Ops
              BY <3>1 DEF MemoryFacts
          <3> QED
              BY <3>1, <3>2, <3>3 DEF MemoryFacts, SavesOf
      <2> QED
          BY <2>1, <2>2
  <1>15. SaveAlone'
      <2> SUFFICES ASSUME NEW v \in Workers, NEW p \in Ops,
                          SavePoint!Executes(v, p)
                   PROVE  /\ op[p].attempt # "none"
                          /\ Sole(p) => AloneFacts(v, p)'
          BY <1>6, <1>7 DEF SaveAlone
      <2>1. op[p].attempt # "none" /\ (Sole(p) => AloneFacts(v, p))
          BY DEF SaveIndInv, SaveAlone
      <2>2. CASE v = w
          <3>1. p = o
              BY <2>2 DEF SavePoint!Executes
          <3>2. ASSUME Sole(o) PROVE AloneFacts(w, o)'
              <4>1. /\ op'[o].state = "running" /\ op'[o].owner = w
                    /\ NoFault' => op'[o].lease = "live"
                  BY <1>5, <1>6, <3>2 DEF AloneFacts
              <4>2. SavesOf(o)' = {Len(history) + 1}
                  BY <1>3, <1>12, <3>2
              <4> QED
                  BY <1>4, <4>1, <4>2 DEF AloneFacts
          <3> QED
              BY <2>1, <2>2, <3>1, <3>2
      <2>3. CASE v # w
          <3>1. ASSUME Sole(p) PROVE AloneFacts(v, p)'
              <4>1. p # o
                  BY <1>5, <2>1, <2>3, <3>1 DEF AloneFacts
              <4>2. SavesOf(p)' = SavesOf(p)
                  BY <4>1, <1>3
              <4>3. \A i \in SavesOf(p) : i < Len(history')
                  BY <1>2, <1>3, <1>9
              <4> QED
                  BY <1>4, <1>6, <2>1, <2>3, <3>1, <4>2, <4>3 DEF AloneFacts
          <3> QED
              BY <2>1, <3>1
      <2> QED
          BY <2>2, <2>3
  <1>16. SuccessNamesOwnSave'
      BY <1>3 DEF SaveIndInv, SuccessNamesOwnSave
  <1>17. FailureLeavesNoHead'
      <2> SUFFICES ASSUME NEW p \in Ops, op[p].state = "failed",
                          op[p].attempt = "first",
                          NEW i, i \in SavesOf(p)'
                   PROVE  i < Len(history')
          BY DEF FailureLeavesNoHead
      <2>1. p # o
          BY <1>5 DEF Sole, AloneFacts
      <2>2. i \in SavesOf(p)
          BY <1>3, <2>1
      <2> QED
          BY <1>2, <1>3, <1>9, <2>2
  <1> QED
      BY <1>8, <1>10, <1>11, <1>13, <1>14, <1>15, <1>16, <1>17 DEF SaveIndInv

\* JVS saved, or it answered that it did not, or nobody can tell.
LEMMA SaveDirectSave ==
    ASSUME SaveIndInv, NEW w \in Workers, NEW r \in SavePoint!SaveResult,
           SavePoint!DirectSave(w, r)
    PROVE  SaveIndInv'
  <1>1. /\ op' = op /\ stops' = stops /\ stalls' = stalls
        /\ worker[w].pc = "saving"
      BY DEF SavePoint!DirectSave
  <1>2. PICK o \in Ops : o = worker[w].op
      BY <1>1, ExecutingWorker
  <1>3. worker[w] \in SavePoint!WorkerRecord /\ Len(history) \in Nat
      BY LenProperties DEF SaveIndInv, SavePoint!TypeOK
  <1>4. CASE r \in {"busy", "refused", "unknown"}
      <2>1. history' = history
          BY <1>4 DEF SavePoint!DirectSave, SavePoint!Saved
      <2>2. /\ SavePoint!SaveOutcome(r) \in {"pending", "failed",
                                             "operator_intervention_required"}
            /\ SavePoint!Ends(w, SavePoint!SaveOutcome(r))
          BY <1>4 DEF SavePoint!DirectSave, SavePoint!Answered,
             SavePoint!SaveOutcome
      <2>3. PICK e \in {"pending", "failed", "operator_intervention_required"} :
                e = SavePoint!SaveOutcome(r)
          BY <2>2
      <2> QED
          BY <1>1, <2>1, <2>2, <2>3, EndsInv
  <1>5. CASE r = "saved"
      <2> DEFINE m == [worker[w] EXCEPT !.pc = "saved",
                                        !.save = Len(history) + 1]
      <2>1. history' = Append(history, o) /\ worker' = [worker EXCEPT ![w] = m]
          BY <1>2, <1>5 DEF SavePoint!DirectSave, SavePoint!Saved,
             SavePoint!Answered
      <2>2. /\ m \in SavePoint!WorkerRecord /\ m.op = o
            /\ m.pc = "saved" /\ m.save = Len(history) + 1
          <3>1. PICK n \in Nat : n = Len(history) + 1
              BY <1>3
          <3>2. m = [worker[w] EXCEPT !.pc = "saved", !.save = n]
              BY <3>1
          <3> QED
              BY <1>2, <1>3, <3>1, <3>2 DEF SavePoint!WorkerRecord
      <2> HIDE DEF m
      <2> QED
          BY <1>1, <1>2, <2>1, <2>2, SavedInv
  <1>6. CASE r = "saved_unknown"
      <2> DEFINE m == [worker[w] EXCEPT
                         !.pc = "committing",
                         !.outcome = "operator_intervention_required"]
      <2>1. history' = Append(history, o) /\ worker' = [worker EXCEPT ![w] = m]
          BY <1>2, <1>6 DEF SavePoint!DirectSave, SavePoint!Saved,
             SavePoint!Answered, SavePoint!Ends, SavePoint!SaveOutcome
      <2>2. /\ m \in SavePoint!WorkerRecord /\ m.op = o /\ m.pc = "committing"
            /\ m.outcome = "operator_intervention_required"
          BY <1>2, <1>3 DEF SavePoint!WorkerRecord
      <2> HIDE DEF m
      <2> QED
          BY <1>1, <1>2, <2>1, <2>2, SavedInv
  <1> QED
      BY <1>4, <1>5, <1>6 DEF SavePoint!SaveResult

\* What an acquisition finds: a row nobody is alone on, with no save of a
\* first attempt and, while nothing has gone wrong, no save at all.
LEMMA SaveAcquire ==
    ASSUME SaveIndInv, NEW w \in Workers, SavePoint!Acquire(w)
    PROVE  SaveIndInv'
  <1> DEFINE a == IF op[worker[w].op].attempt = "none" THEN "first" ELSE "later"
  <1>1. PICK o \in Ops : o = worker[w].op
      BY DEF SavePoint!Acquire, SaveIndInv, SaveMemory, MemoryFacts
  <1> DEFINE r == [op[o] EXCEPT !.state = "running", !.lease = "live",
                                !.owner = w, !.attempt = a]
             m == [worker[w] EXCEPT !.pc = "leased", !.attempt = a,
                                    !.marker = op[o].marker]
  <1>2. /\ history' = history /\ stops' = stops /\ stalls' = stalls
        /\ worker[w].pc = "planned"
        /\ op[o].state = "queued" \/ (op[o].state = "running" /\ op[o].lease = "expired")
        /\ op' = [op EXCEPT ![o] = r]
        /\ worker' = [worker EXCEPT ![w] = m]
      BY <1>1 DEF SavePoint!Acquire, SavePoint!CanAcquire
  <1>3. op[o] \in SavePoint!OperationRecord /\ worker[w] \in SavePoint!WorkerRecord
      BY DEF SaveIndInv, SavePoint!TypeOK
  <1>4. a \in {"first", "later"} /\ (a = "first" <=> op[o].attempt = "none")
      BY <1>1
  <1> HIDE DEF a
  <1>5. /\ r \in SavePoint!OperationRecord /\ r.state = "running"
        /\ r.lease = "live" /\ r.owner = w /\ r.attempt = a
      BY <1>3, <1>4 DEF SavePoint!OperationRecord
  <1>6. m \in SavePoint!WorkerRecord /\ m.pc = "leased" /\ m.op = o
      BY <1>1, <1>3, <1>4 DEF SavePoint!WorkerRecord, SavePoint!OperationRecord
  <1> HIDE DEF r, m
  <1>7. /\ op'[o] = r /\ \A p \in Ops \ {o} : op'[p] = op[p]
        /\ worker'[w] = m /\ \A v \in Workers \ {w} : worker'[v] = worker[v]
      BY <1>2 DEF SaveIndInv, SavePoint!TypeOK
  <1>8. /\ \A p : SavesOf(p)' = SavesOf(p)
        /\ NoFault' <=> NoFault
      BY <1>2, SavesFrame DEF NoFault
  <1>9. /\ \A v \in Workers \ {w}, p \in Ops :
               SavePoint!Executes(v, p)' <=> SavePoint!Executes(v, p)
        /\ \A p \in Ops : ~ SavePoint!Executes(w, p)
        /\ \A p \in Ops : SavePoint!Executes(w, p)' <=> p = o
      BY <1>2, <1>6, <1>7 DEF SavePoint!Executes
  <1>10. a = "first" \/ NoFault => SavesOf(o) = {}
      <2>1. a = "first" => SavesOf(o) = {}
          BY <1>4 DEF SaveIndInv, SaveRows
      <2>2. NoFault /\ op[o].state = "running" /\ op[o].lease = "expired" =>
                SavesOf(o) = {}
          BY DEF SaveIndInv, RunningWithoutFault
      <2>3. op[o].state = "queued" => a = "first"
          BY <1>4 DEF SaveIndInv, SaveRows
      <2> QED
          BY <1>2, <2>1, <2>2, <2>3
  <1>11. ASSUME NEW v \in Workers, SavePoint!Executes(v, o)
         PROVE  ~ NoFault /\ a = "later"
      <2>1. op[o].attempt # "none" /\ (Sole(o) => AloneFacts(v, o))
          BY <1>11 DEF SaveIndInv, SaveAlone
      <2>2. op[o].state # "queued"
          BY <2>1 DEF SaveIndInv, SaveRows
      <2>3. NoFault => op[o].lease = "live"
          BY <2>1 DEF Sole, AloneFacts
      <2> QED
          BY <1>2, <1>4, <2>1, <2>2, <2>3
  <1>12. SavePoint!TypeOK'
      BY <1>2, <1>5, <1>6 DEF SaveIndInv, SavePoint!TypeOK
  <1>13. SaveRows'
      BY <1>4, <1>5, <1>7, <1>8 DEF SaveIndInv, SaveRows
  <1>14. RunningWithoutFault'
      <2> SUFFICES ASSUME NoFault, NEW p \in Ops, op'[p].state = "running"
                   PROVE  IF op'[p].lease = "live"
                          THEN SavePoint!Executes(op[p].owner, p)'
                          ELSE SavesOf(p) = {}
          BY <1>8 DEF RunningWithoutFault
      <2>1. CASE p = o
          BY <2>1, <1>5, <1>7, <1>9
      <2>2. CASE p # o /\ op[p].lease = "live"
          <3>1. /\ op'[p] = op[p] /\ op[p].owner \in Workers
                /\ SavePoint!Executes(op[p].owner, p)
              BY <2>2, <1>7 DEF SaveIndInv, SaveRows, RunningWithoutFault
          <3> QED
              BY <2>2, <3>1, <1>9
      <2>3. CASE p # o /\ op[p].lease # "live"
          BY <2>3, <1>7 DEF SaveIndInv, RunningWithoutFault
      <2> QED
          BY <2>1, <2>2, <2>3
  <1>15. SavesOnce'
      <2> SUFFICES ASSUME NEW p \in Ops, Sole(p)',
                          NEW i \in SavesOf(p),
                          NEW j \in SavesOf(p)
                   PROVE  i = j
          BY <1>8 DEF SavesOnce
      <2>1. CASE p = o
          BY <2>1, <1>5, <1>7, <1>8, <1>10 DEF Sole
      <2>2. CASE p # o
          <3>1. Sole(p)
              BY <2>2, <1>7, <1>8 DEF Sole
          <3> QED
              BY <3>1 DEF SaveIndInv, SavesOnce
      <2> QED
          BY <2>1, <2>2
  <1>16. SaveMemory'
      <2> SUFFICES ASSUME NEW v \in Workers PROVE MemoryFacts(v)'
          BY DEF SaveMemory
      <2>1. CASE v = w
          BY <1>6, <1>7, <2>1 DEF MemoryFacts
      <2>2. CASE v # w
          BY <1>7, <1>8, <2>2 DEF SaveIndInv, SaveMemory, MemoryFacts
      <2> QED
          BY <2>1, <2>2
  <1>17. SaveAlone'
      <2> SUFFICES ASSUME NEW v \in Workers, NEW p \in Ops,
                          SavePoint!Executes(v, p)'
                   PROVE  /\ op'[p].attempt # "none"
                          /\ Sole(p)' => AloneFacts(v, p)'
          BY DEF SaveAlone
      <2>1. CASE v = w
          <3>1. p = o /\ op'[o].attempt # "none"
              BY <2>1, <1>4, <1>5, <1>7, <1>9
          <3>2. ASSUME Sole(o)' PROVE AloneFacts(w, o)'
              <4>1. SavesOf(o)' = {}
                  BY <1>5, <1>7, <1>8, <1>10, <3>2 DEF Sole
              <4> QED
                  BY <4>1, <1>5, <1>6, <1>7 DEF AloneFacts
          <3> QED
              BY <2>1, <3>1, <3>2
      <2>2. CASE v # w /\ p = o
          <3>1. ~ Sole(o)' /\ op'[o].attempt # "none"
              BY <2>2, <1>5, <1>7, <1>8, <1>9, <1>11 DEF Sole
          <3> QED
              BY <2>2, <3>1
      <2>3. CASE v # w /\ p # o
          <3>1. /\ op'[p] = op[p] /\ worker'[v] = worker[v]
                /\ op[p].attempt # "none" /\ (Sole(p) => AloneFacts(v, p))
              BY <2>3, <1>7, <1>9 DEF SaveIndInv, SaveAlone
          <3>2. Sole(p)' => Sole(p)
              BY <1>8, <3>1 DEF Sole
          <3> QED
              BY <1>2, <1>8, <3>1, <3>2 DEF AloneFacts
      <2> QED
          BY <2>1, <2>2, <2>3
  <1>18. SuccessNamesOwnSave'
      BY <1>5, <1>7, <1>8 DEF SaveIndInv, SuccessNamesOwnSave
  <1>19. FailureLeavesNoHead'
      BY <1>2, <1>5, <1>7, <1>8 DEF SaveIndInv, FailureLeavesNoHead
  <1> QED
      BY <1>12, <1>13, <1>14, <1>15, <1>16, <1>17, <1>18, <1>19 DEF SaveIndInv

\* A step that rewrites one row, and of the workers changes at most one that
\* forgets its execution of it.
LEMMA RowStep ==
    ASSUME SaveIndInv, SavePoint!TypeOK', SaveMemory', history' = history,
           NoFault' => NoFault,
           NEW o \in Ops, NEW r \in SavePoint!OperationRecord,
           op' = [op EXCEPT ![o] = r],
           \A v \in Workers, p \in Ops : SavePoint!Executes(v, p)' =>
               SavePoint!Executes(v, p) /\ worker'[v] = worker[v],
           NoFault' => \A v \in Workers, p \in Ops \ {o} :
               SavePoint!Executes(v, p) => SavePoint!Executes(v, p)',
           r.attempt = "none" <=> r.state \in {"absent", "queued"},
           r.attempt = op[o].attempt,
           r.lease # "live",
           NoFault' /\ r.state = "running" => SavesOf(o) = {},
           r.state = "succeeded" => r.save \in SavesOf(o),
           r.state = "failed" /\ r.attempt = "first" =>
               \A i \in SavesOf(o) : i < Len(history),
           \A v \in Workers : SavePoint!Executes(v, o)' /\ Sole(o) =>
               ~ NoFault' /\ r.state = "running" /\ r.owner = op[o].owner
    PROVE  SaveIndInv'
  <1>1. op'[o] = r /\ \A p \in Ops \ {o} : op'[p] = op[p]
      BY DEF SaveIndInv, SavePoint!TypeOK
  <1>2. \A p : SavesOf(p)' = SavesOf(p)
      BY SavesFrame
  <1>3. SaveRows'
      BY <1>1, <1>2 DEF SaveIndInv, SaveRows
  <1>4. RunningWithoutFault'
      <2> SUFFICES ASSUME NoFault', NEW p \in Ops, op'[p].state = "running"
                   PROVE  IF op'[p].lease = "live"
                          THEN SavePoint!Executes(op[p].owner, p)'
                          ELSE SavesOf(p) = {}
          BY <1>2 DEF RunningWithoutFault
      <2>1. CASE p = o
          BY <2>1, <1>1
      <2>2. CASE p # o /\ op[p].lease = "live"
          <3>1. /\ op'[p] = op[p] /\ op[p].owner \in Workers
                /\ SavePoint!Executes(op[p].owner, p)
              BY <2>2, <1>1 DEF SaveIndInv, SaveRows, RunningWithoutFault
          <3> QED
              BY <2>2, <3>1
      <2>3. CASE p # o /\ op[p].lease # "live"
          BY <2>3, <1>1 DEF SaveIndInv, RunningWithoutFault
      <2> QED
          BY <2>1, <2>2, <2>3
  <1>5. SavesOnce'
      <2>1. \A p \in Ops : Sole(p)' => Sole(p)
          BY <1>1 DEF Sole
      <2> QED
          BY <1>2, <2>1 DEF SaveIndInv, SavesOnce
  <1>6. SaveAlone'
      <2> SUFFICES ASSUME NEW v \in Workers, NEW p \in Ops,
                          SavePoint!Executes(v, p)'
                   PROVE  /\ op'[p].attempt # "none"
                          /\ Sole(p)' => AloneFacts(v, p)'
          BY DEF SaveAlone
      <2>1. /\ worker'[v] = worker[v]
            /\ op[p].attempt # "none" /\ (Sole(p) => AloneFacts(v, p))
          BY DEF SaveIndInv, SaveAlone
      <2>2. op'[p].attempt = op[p].attempt
          BY <1>1
      <2>3. Sole(p)' => Sole(p)
          BY <2>2 DEF Sole
      <2>4. ASSUME Sole(p), AloneFacts(v, p) PROVE AloneFacts(v, p)'
          <3>1. /\ op'[p].state = "running" /\ op'[p].owner = v
                /\ NoFault' => op'[p].lease = "live"
              BY <1>1, <2>4 DEF AloneFacts
          <3> QED
              BY <1>2, <2>1, <2>4, <3>1 DEF AloneFacts
      <2> QED
          BY <2>1, <2>2, <2>3, <2>4
  <1>7. SuccessNamesOwnSave'
      BY <1>1, <1>2 DEF SaveIndInv, SuccessNamesOwnSave
  <1>8. FailureLeavesNoHead'
      BY <1>1, <1>2 DEF SaveIndInv, FailureLeavesNoHead
  <1> QED
      BY <1>3, <1>4, <1>5, <1>6, <1>7, <1>8 DEF SaveIndInv

\* Intake inserts a row that nobody executes and that has no saves.
LEMMA SaveCreate ==
    ASSUME SaveIndInv, NEW o \in Ops, SavePoint!CreateOperation(o)
    PROVE  SaveIndInv'
  <1> DEFINE r == [op[o] EXCEPT !.state = "queued"]
  <1>1. /\ worker' = worker /\ history' = history
        /\ stops' = stops /\ stalls' = stalls
        /\ op[o].state = "absent" /\ op' = [op EXCEPT ![o] = r]
      BY DEF SavePoint!CreateOperation
  <1>2. op[o] \in SavePoint!OperationRecord
      BY DEF SaveIndInv, SavePoint!TypeOK
  <1>3. op[o].attempt = "none" /\ op[o].lease # "live"
      BY <1>1 DEF SaveIndInv, SaveRows
  <1>4. /\ r \in SavePoint!OperationRecord /\ r.state = "queued"
        /\ r.lease # "live" /\ r.attempt = "none"
      BY <1>2, <1>3 DEF SavePoint!OperationRecord
  <1> HIDE DEF r
  <1>5. SavePoint!TypeOK'
      BY <1>1, <1>4 DEF SaveIndInv, SavePoint!TypeOK
  <1>6. SaveMemory'
      BY <1>1, SavesFrame DEF SaveIndInv, SaveMemory, MemoryFacts
  <1>7. \A v \in Workers, p \in Ops :
            SavePoint!Executes(v, p)' <=> SavePoint!Executes(v, p)
      BY <1>1 DEF SavePoint!Executes
  <1>8. \A v \in Workers : ~ SavePoint!Executes(v, o)
      BY <1>3 DEF SaveIndInv, SaveAlone
  <1>9. NoFault' => NoFault
      BY <1>1 DEF NoFault
  <1> QED
      BY <1>1, <1>3, <1>4, <1>5, <1>6, <1>7, <1>8, <1>9, RowStep

\* A lease runs out under a worker that has stopped, or that stalls: either
\* way something has gone wrong.
LEMMA SaveExpiry ==
    ASSUME SaveBounds, SaveIndInv, NEW o \in Ops,
           SavePoint!Expire(o) \/ SavePoint!Stall(o)
    PROVE  SaveIndInv'
  <1> DEFINE r == [op[o] EXCEPT !.lease = "expired"]
  <1>1. /\ worker' = worker /\ history' = history /\ stops' = stops
        /\ op[o].lease = "live" /\ op' = [op EXCEPT ![o] = r]
      BY DEF SavePoint!Expire, SavePoint!Stall
  <1>2. /\ op[o] \in SavePoint!OperationRecord
        /\ stops \in 0..MaxStop /\ stalls \in 0..MaxStall
      BY DEF SaveIndInv, SavePoint!TypeOK
  <1>3. op[o].state = "running" /\ op[o].attempt # "none"
      BY <1>1 DEF SaveIndInv, SaveRows
  <1>4. stalls' \in 0..MaxStall /\ ~ NoFault'
      <2>1. CASE SavePoint!Stall(o)
          BY <1>2, <2>1 DEF SavePoint!Stall, SaveBounds, NoFault
      <2>2. CASE SavePoint!Expire(o)
          <3>1. stalls' = stalls /\ ~ SavePoint!Executes(op[o].owner, o)
              BY <2>2 DEF SavePoint!Expire
          <3>2. ~ NoFault
              BY <1>1, <1>3, <3>1 DEF SaveIndInv, RunningWithoutFault
          <3> QED
              BY <1>1, <1>2, <3>1, <3>2 DEF NoFault
      <2> QED
          BY <2>1, <2>2
  <1>5. /\ r \in SavePoint!OperationRecord /\ r.state = "running"
        /\ r.lease = "expired" /\ r.attempt = op[o].attempt
        /\ r.owner = op[o].owner
      BY <1>2, <1>3 DEF SavePoint!OperationRecord
  <1> HIDE DEF r
  <1>6. SavePoint!TypeOK'
      BY <1>1, <1>4, <1>5 DEF SaveIndInv, SavePoint!TypeOK
  <1>7. SaveMemory'
      BY <1>1, SavesFrame DEF SaveIndInv, SaveMemory, MemoryFacts
  <1>8. \A v \in Workers, p \in Ops :
            SavePoint!Executes(v, p)' <=> SavePoint!Executes(v, p)
      BY <1>1 DEF SavePoint!Executes
  <1> QED
      BY <1>1, <1>3, <1>4, <1>5, <1>6, <1>7, <1>8, RowStep

\* An accepted commit writes what its worker knows of the save, and leaves
\* nobody alone on the row.
LEMMA SaveCommit ==
    ASSUME SaveIndInv, NEW w \in Workers, SavePoint!Commit(w)
    PROVE  SaveIndInv'
  <1>1. /\ worker[w].pc = "committing" /\ history' = history
        /\ stops' = stops /\ stalls' = stalls
        /\ worker' = [worker EXCEPT ![w] = SavePoint!IdleWorker]
      BY DEF SavePoint!Commit
  <1>2. PICK o \in Ops : o = worker[w].op
      BY <1>1, ExecutingWorker
  <1> DEFINE r == SavePoint!Committed(op[o], worker[w])
             out == worker[w].outcome
  <1>3. /\ op[o].state = "running" /\ op[o].owner = w
        /\ op' = [op EXCEPT ![o] = r]
      BY <1>2 DEF SavePoint!Commit
  <1>4. /\ op[o] \in SavePoint!OperationRecord
        /\ worker[w] \in SavePoint!WorkerRecord
      BY DEF SaveIndInv, SavePoint!TypeOK
  <1>5. /\ op[o].attempt # "none" /\ (Sole(o) => AloneFacts(w, o))
      BY <1>1, <1>2, ExecutingWorker
  <1>6. /\ out \in {"succeeded", "failed", "pending",
                    "operator_intervention_required"}
        /\ out = "succeeded" => worker[w].save \in SavesOf(o)
        /\ worker[w].save \in Nat
      BY <1>1, <1>2, <1>4 DEF SaveIndInv, SaveMemory, MemoryFacts,
         SavePoint!WorkerRecord
  <1>7. /\ r \in SavePoint!OperationRecord
        /\ r.state = IF out = "pending" THEN "running" ELSE out
        /\ r.attempt = op[o].attempt /\ r.lease # "live"
        /\ out = "succeeded" => r.save = worker[w].save
      <2>1. CASE out = "pending"
          BY <1>3, <1>4, <2>1 DEF SavePoint!Committed, SavePoint!OperationRecord,
             SavePoint!Marker
      <2>2. CASE out # "pending"
          <3>1. PICK n \in Nat : n = IF out = "succeeded" THEN worker[w].save ELSE 0
              BY <1>6
          <3>2. r = [op[o] EXCEPT !.state = out, !.lease = "none",
                                  !.owner = NoOwner, !.marker = "none", !.save = n]
              BY <2>2, <3>1 DEF SavePoint!Committed
          <3>3. PICK s \in {"succeeded", "failed", "operator_intervention_required"} :
                    s = out
              BY <1>6, <2>2
          <3> QED
              BY <1>4, <2>2, <3>1, <3>2, <3>3 DEF SavePoint!OperationRecord,
                 SavePoint!Marker, SavePoint!Terminal
      <2> QED
          BY <2>1, <2>2
  <1> HIDE DEF r
  <1>8. SavePoint!IdleWorker \in SavePoint!WorkerRecord
      BY DEF SavePoint!IdleWorker, SavePoint!WorkerRecord, SavePoint!Marker
  <1>9. SavePoint!TypeOK'
      BY <1>1, <1>3, <1>7, <1>8 DEF SaveIndInv, SavePoint!TypeOK
  <1>10. /\ worker'[w].pc = "idle"
         /\ \A v \in Workers \ {w} : worker'[v] = worker[v]
      BY <1>1 DEF SaveIndInv, SavePoint!TypeOK, SavePoint!IdleWorker
  <1>11. SaveMemory'
      <2> SUFFICES ASSUME NEW v \in Workers PROVE MemoryFacts(v)'
          BY DEF SaveMemory
      <2>1. CASE v = w
          BY <1>10, <2>1 DEF MemoryFacts
      <2>2. CASE v # w
          BY <1>1, <1>10, <2>2, SavesFrame DEF SaveIndInv, SaveMemory, MemoryFacts
      <2> QED
          BY <2>1, <2>2
  <1>12. NoFault' <=> NoFault
      BY <1>1 DEF NoFault
  <1>13. \A v \in Workers, p \in Ops : SavePoint!Executes(v, p)' =>
             v # w /\ SavePoint!Executes(v, p) /\ worker'[v] = worker[v]
      BY <1>10 DEF SavePoint!Executes
  <1>14. \A v \in Workers, p \in Ops \ {o} : SavePoint!Executes(v, p) =>
             SavePoint!Executes(v, p)'
      BY <1>2, <1>10 DEF SavePoint!Executes
  <1>15. \A v \in Workers : SavePoint!Executes(v, o)' => ~ Sole(o)
      <2> SUFFICES ASSUME NEW v \in Workers, SavePoint!Executes(v, o), v # w,
                          Sole(o)
                   PROVE  FALSE
          BY <1>13
      <2>1. AloneFacts(v, o)
          BY DEF SaveIndInv, SaveAlone
      <2> QED
          BY <1>3, <2>1 DEF AloneFacts
  <1>16. NoFault /\ r.state = "running" => SavesOf(o) = {}
      BY <1>1, <1>5, <1>6, <1>7 DEF Sole, AloneFacts
  <1>17. r.state = "failed" /\ r.attempt = "first" =>
             \A i \in SavesOf(o) : i < Len(history)
      BY <1>1, <1>5, <1>6, <1>7 DEF Sole, AloneFacts
  <1>18. /\ r.attempt = "none" <=> r.state \in {"absent", "queued"}
         /\ r.state = "succeeded" => r.save \in SavesOf(o)
      BY <1>5, <1>6, <1>7
  <1> QED
      BY <1>1, <1>3, <1>7, <1>9, <1>11, <1>12, <1>13, <1>14, <1>15, <1>16,
         <1>17, <1>18, RowStep

\* Every step keeps the inductive invariant.
LEMMA SaveNext ==
    ASSUME SaveBounds
    PROVE  SaveIndInv /\ [SavePoint!Next]_(SavePoint!vars) => SaveIndInv'
  <1> SUFFICES ASSUME SaveIndInv, [SavePoint!Next]_(SavePoint!vars)
               PROVE  SaveIndInv'
      OBVIOUS
  <1>1. CASE SavePoint!Next
      <2>1. ASSUME NEW w \in Workers, SavePoint!Step(w) PROVE SaveIndInv'
          BY <2>1, SaveScan, SaveAcquire, SaveRaceLost, SaveRefuse, SaveValidate,
             SaveDirectSave, SaveVerify, SaveCommit, SaveCommitRejected
             DEF SavePoint!Step
      <2> QED
          BY <1>1, <2>1, SaveCreate, SaveExpiry, SaveStop DEF SavePoint!Next
  <1>2. CASE UNCHANGED SavePoint!vars
      <2>1. /\ op' = op /\ worker' = worker /\ history' = history
            /\ stops' = stops /\ stalls' = stalls
          BY <1>2 DEF SavePoint!vars
      <2>2. \A o : SavesOf(o)' = SavesOf(o)
          BY <2>1, SavesFrame
      <2>3. NoFault' <=> NoFault
          BY <2>1 DEF NoFault
      <2>4. SavePoint!TypeOK' /\ SaveRows' /\ SavesOnce'
          BY <2>1, <2>2, <2>3 DEF SaveIndInv, SavePoint!TypeOK, SaveRows,
             SavesOnce, Sole
      <2>5. RunningWithoutFault'
          BY <2>1, <2>2, <2>3 DEF SaveIndInv, RunningWithoutFault,
             SavePoint!Executes
      <2>6. SaveMemory'
          BY <2>1, <2>2 DEF SaveIndInv, SaveMemory, MemoryFacts
      <2>7. SaveAlone'
          <3>1. \A v \in Workers, o \in Ops :
                    /\ SavePoint!Executes(v, o)' <=> SavePoint!Executes(v, o)
                    /\ Sole(o)' <=> Sole(o)
                    /\ AloneFacts(v, o) => AloneFacts(v, o)'
              BY <2>1, <2>2, <2>3 DEF SavePoint!Executes, Sole, AloneFacts
          <3> QED
              BY <2>1, <3>1 DEF SaveIndInv, SaveAlone
      <2>8. SuccessNamesOwnSave' /\ FailureLeavesNoHead'
          BY <2>1, <2>2 DEF SaveIndInv, SuccessNamesOwnSave,
             FailureLeavesNoHead
      <2> QED
          BY <2>4, <2>5, <2>6, <2>7, <2>8 DEF SaveIndInv
  <1> QED
      BY <1>1, <1>2

\* The save point executor keeps its inductive invariant.
THEOREM SaveIndInvAlways ==
    ASSUME SaveBounds PROVE SavePoint!Spec => []SaveIndInv
  BY SaveInit, SaveNext, PTL DEF SavePoint!Spec

\* Rows, memories and the JVS history keep their types.
THEOREM SaveTypeCorrect ==
    ASSUME SaveBounds PROVE SavePoint!Spec => []SavePoint!TypeOK
  <1>1. SaveIndInv => SavePoint!TypeOK
      BY DEF SaveIndInv
  <1> QED
      BY <1>1, SaveIndInvAlways, PTL

\* A succeeded save point operation names a save point of the JVS history that
\* this very operation made, whatever stops, stalls and reclaims happen.
THEOREM SuccessNamesOwnSaveAlways ==
    ASSUME SaveBounds PROVE SavePoint!Spec => []SuccessNamesOwnSave
  <1>1. SaveIndInv => SuccessNamesOwnSave
      BY DEF SaveIndInv
  <1> QED
      BY <1>1, SaveIndInvAlways, PTL

\* A first attempt that fails leaves no save of its own at the head of the
\* JVS history.
THEOREM FailureLeavesNoHeadAlways ==
    ASSUME SaveBounds PROVE SavePoint!Spec => []FailureLeavesNoHead
  <1>1. SaveIndInv => FailureLeavesNoHead
      BY DEF SaveIndInv
  <1> QED
      BY <1>1, SaveIndInvAlways, PTL

\* The first attempt of an operation saves at most once, whatever stops and
\* stalls happen, and as long as there are none, so does the operation: a
\* retry then follows only an attempt that JVS turned away.
THEOREM SavesOnceAlways ==
    ASSUME SaveBounds PROVE SavePoint!Spec => []SavesOnce
  <1>1. SaveIndInv => SavesOnce
      BY DEF SaveIndInv
  <1> QED
      BY <1>1, SaveIndInvAlways, PTL

\* What a step of the executor does to the operations table: nothing, or one
\* row is inserted as queued or makes a move the table of state.go allows.
LEMMA SaveStepMovesOneRow ==
    ASSUME SaveIndInv, [SavePoint!Next]_(SavePoint!vars)
    PROVE  op' = op \/ \E o \in Ops : RowMove(o)
  <1> DEFINE Moves == op' = op \/ \E o \in Ops : RowMove(o)
  <1>1. op \in [Ops -> SavePoint!OperationRecord]
      BY DEF SaveIndInv, SavePoint!TypeOK
  <1>2. ASSUME NEW o \in Ops,
               op' = [op EXCEPT ![o] = op'[o]],
               \/ op[o].state = "absent" /\ op'[o].state = "queued"
               \/ op[o].state = "queued" /\ op'[o].state = "running"
               \/ /\ op[o].state = "running"
                  /\ op'[o].state \in {"running", "succeeded", "failed",
                                       "operator_intervention_required"}
        PROVE  Moves
      <2>1. RowMove(o)
          BY <1>2 DEF RowMove, Terminal, OperationState, Absent,
             States!ValidTransition, States!AllowedNextStates,
             States!OperationState
      <2> QED
          BY <2>1
  <1>3. ASSUME NEW o \in Ops, SavePoint!CreateOperation(o) PROVE Moves
      <2>1. /\ op' = [op EXCEPT ![o] = op'[o]]
            /\ op[o].state = "absent" /\ op'[o].state = "queued"
          BY <1>1, <1>3 DEF SavePoint!CreateOperation, SavePoint!OperationRecord
      <2> QED
          BY <1>2, <2>1
  <1>4. ASSUME NEW o \in Ops, SavePoint!Expire(o) \/ SavePoint!Stall(o)
        PROVE Moves
      <2>1. op[o].state = "running"
          BY <1>4 DEF SavePoint!Expire, SavePoint!Stall, SaveIndInv, SaveRows
      <2>2. op' = [op EXCEPT ![o] = op'[o]] /\ op'[o].state = "running"
          BY <1>1, <1>4, <2>1 DEF SavePoint!Expire, SavePoint!Stall,
             SavePoint!OperationRecord
      <2> QED
          BY <1>2, <2>1, <2>2
  <1>5. ASSUME NEW w \in Workers, SavePoint!Acquire(w) PROVE Moves
      <2>1. PICK o \in Ops : o = worker[w].op
          BY <1>5 DEF SavePoint!Acquire, SaveIndInv, SaveMemory, MemoryFacts
      <2>2. op[o].state \in {"queued", "running"}
          BY <1>5, <2>1 DEF SavePoint!Acquire, SavePoint!CanAcquire
      <2>3. op' = [op EXCEPT ![o] = op'[o]] /\ op'[o].state = "running"
          <3> DEFINE a == IF op[o].attempt = "none" THEN "first" ELSE "later"
                     r == [op[o] EXCEPT !.state = "running", !.lease = "live",
                                        !.owner = w, !.attempt = a]
          <3>1. op' = [op EXCEPT ![o] = r]
              BY <1>5, <2>1 DEF SavePoint!Acquire
          <3> HIDE DEF a
          <3>2. r.state = "running"
              BY <1>1 DEF SavePoint!OperationRecord
          <3> HIDE DEF r
          <3> QED
              BY <1>1, <3>1, <3>2
      <2> QED
          BY <1>2, <2>2, <2>3
  <1>6. ASSUME NEW w \in Workers, SavePoint!Commit(w) PROVE Moves
      <2>1. PICK o \in Ops : o = worker[w].op
          BY <1>6 DEF SavePoint!Commit, SaveIndInv, SaveMemory, MemoryFacts
      <2>2. /\ op[o].state = "running"
            /\ op' = [op EXCEPT ![o] = SavePoint!Committed(op[o], worker[w])]
          BY <1>6, <2>1 DEF SavePoint!Commit
      <2>3. worker[w].outcome \in {"succeeded", "failed", "pending",
                                   "operator_intervention_required"}
          BY <1>6 DEF SavePoint!Commit, SaveIndInv, SaveMemory, MemoryFacts,
             SavePoint!TypeOK, SavePoint!WorkerRecord
      <2>4. SavePoint!Committed(op[o], worker[w]).state
                \in {"running", "succeeded", "failed",
                     "operator_intervention_required"}
          BY <1>1, <2>2, <2>3 DEF SavePoint!Committed, SavePoint!OperationRecord
      <2>5. op' = [op EXCEPT ![o] = op'[o]]
            /\ op'[o] = SavePoint!Committed(op[o], worker[w])
          BY <1>1, <2>2
      <2> QED
          BY <1>2, <2>2, <2>4, <2>5
  <1>7. CASE UNCHANGED SavePoint!vars
      BY <1>7 DEF SavePoint!vars
  <1>8. ASSUME NEW w \in Workers, SavePoint!Step(w) \/ SavePoint!Stop(w)
        PROVE Moves
      <2>1. CASE SavePoint!Acquire(w) \/ SavePoint!Commit(w)
          BY <1>5, <1>6, <2>1
      <2>2. CASE ~ (SavePoint!Acquire(w) \/ SavePoint!Commit(w))
          BY <1>8, <2>2 DEF SavePoint!Step, SavePoint!Scan, SavePoint!RaceLost,
             SavePoint!RefuseUncertain, SavePoint!Validate,
             SavePoint!DirectSave, SavePoint!VerifyVisible,
             SavePoint!CommitRejected, SavePoint!Stop
      <2> QED
          BY <2>1, <2>2
  <1> QED
      BY <1>3, <1>4, <1>7, <1>8 DEF SavePoint!Next

\* The rows of the save point executor, too, move only as the state table of
\* state.go allows.
THEOREM SaveImplementsStates ==
    ASSUME SaveBounds PROVE SavePoint!Spec => StatesSpec
  <1> DEFINE st == [o \in Ops |-> op[o].state]
  <1>1. SavePoint!Init => States!Init
      BY DEF SavePoint!Init, States!Init, States!Absent
  <1>2. SaveIndInv /\ [SavePoint!Next]_(SavePoint!vars) => [States!Next]_st
      <2> SUFFICES ASSUME SaveIndInv, [SavePoint!Next]_(SavePoint!vars)
                   PROVE  States!Next \/ st' = st
          OBVIOUS
      <2>1. CASE op' = op
          BY <2>1
      <2>2. ASSUME NEW o \in Ops, RowMove(o) PROVE States!Next \/ st' = st
          BY <2>2, RowMoveIsTransition DEF SaveIndInv, SavePoint!TypeOK
      <2> QED
          BY <2>1, <2>2, SaveStepMovesOneRow
  <1> QED
      BY <1>1, <1>2, SaveIndInvAlways, PTL DEF SavePoint!Spec, StatesSpec,
         States!Spec
==============================================================================

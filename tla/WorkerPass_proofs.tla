--------------------------- MODULE WorkerPass_proofs --------------------------
(***************************************************************************)
(* The intake and the worker's pass, proved for any requests, handlers,    *)
(* workers, limits and numbers of rows.                                    *)
(*                                                                         *)
(* What has to be added to the properties is the order of the rows: every  *)
(* admission reads another time, so of two rows one is older; a clone is   *)
(* older than any lifecycle operation of the repo it makes, because the    *)
(* repo has to exist for one and must not exist for the other; and an      *)
(* older row that is not over can only be found beside a running one of    *)
(* its repo if it was inserted late.                                       *)
(***************************************************************************)
EXTENDS WorkerPass, SequenceTheorems, TLAPS

Made(o) == op[o].state # "absent"
Going(h) == handler[h].pc # "idle"
Lifecycle(r) == r.type \in RepoLifecycleAndPurge

RowInv(o) ==
    Made(o) => /\ op[o].req \in Requests /\ op[o].created < clock
               /\ Lifecycle(op[o].req) => op[o].req.repo \in repos

HandlerInv(h) ==
    Going(h) => /\ handler[h].req \in Requests /\ handler[h].created < clock
                /\ Lifecycle(handler[h].req) => handler[h].req.repo \in repos

\* No two admissions have the same created_at.
Ages ==
    /\ \A o, p \in Ops : Made(o) /\ Made(p) /\ o # p => op[o].created # op[p].created
    /\ \A o \in Ops, h \in Handlers :
          Made(o) /\ Going(h) => op[o].created # handler[h].created
    /\ \A h, k \in Handlers :
          Going(h) /\ Going(k) /\ h # k => handler[h].created # handler[k].created

OneRowPerScope ==
    \A o, p \in Ops : Made(o) /\ Made(p) /\ SameScope(op[o].req, op[p].req) => o = p

AnswerInv(r) ==
    \A o \in answer[r] :
        Made(o) /\ SameScope(op[o].req, r) /\ op[o].req.hash = r.hash

\* The unique index on unfinished JVS mutations.
OneMutation ==
    \A o, p \in Ops :
        /\ Unfinished(o) /\ Unfinished(p) /\ op[o].req.repo = op[p].req.repo
        /\ op[o].req.type \in JVSMutation /\ op[p].req.type \in JVSMutation
        => o = p

\* A clone is older than the lifecycle operations of the repo it makes.
CloneFirst(c) ==
    Made(c) /\ op[c].req.type = "template_clone" =>
        /\ \A o \in Ops :
              Made(o) /\ Lifecycle(op[o].req) /\ op[o].req.repo = op[c].req.repo =>
                  Older(c, o)
        /\ \A h \in Handlers :
              Going(h) /\ Lifecycle(handler[h].req)
                /\ handler[h].req.repo = op[c].req.repo =>
                  op[c].created < handler[h].created

\* Two operations that must not be executed together.
Conflict(o, p) ==
    /\ op[o].req.repo = op[p].req.repo
    /\ {op[o].req.type, op[p].req.type} \subseteq JVSMutation \cup RepoLifecycleAndPurge
    /\ op[o].req.type \in JVSMutation \/ op[p].req.type \in JVSMutation

\* What runs has no older conflicting operation beside it, except a late one.
OlderIsLate(o, p) ==
    /\ o # p /\ op[p].state = "running" /\ op[o].state \in {"queued", "running"}
    /\ Older(o, p) /\ Conflict(o, p)
    => op[o].late

PassInv(w) ==
    pass[w].pc \in {"batch", "execute"} => pass[w].list # <<>>

IndInv ==
    /\ TypeOK
    /\ \A o \in Ops : RowInv(o) /\ CloneFirst(o)
    /\ \A h \in Handlers : HandlerInv(h)
    /\ Ages
    /\ OneRowPerScope
    /\ \A r \in Requests : AnswerInv(r)
    /\ OneMutation
    /\ \A o, p \in Ops : OlderIsLate(o, p)
    /\ \A w \in Workers : PassInv(w)
USE BoundAssumption, NullAssumption, FormAssumption, LimitAssumption, FaultAssumption

------------------------------------------------------------------------------
(* Types.                                                                   *)

LEMMA ListParts ==
    ASSUME NEW list \in Lists, list # <<>>
    PROVE  Head(list) \in Listed /\ Tail(list) \in Lists
  <1>1. PICK n \in 0..Limit : list \in [1..n -> Listed]
      BY DEF Lists
  <1>2. list \in Seq(Listed) /\ Len(list) = n
      <2>1. list \in Seq(Listed)
          BY <1>1
      <2>2. Len(list) \in Nat /\ 1..n = 1..Len(list)
          <3>1. Len(list) \in Nat /\ DOMAIN list = 1..Len(list)
              BY <2>1, LenProperties
          <3> QED
              BY <1>1, <3>1
      <2> QED
          BY <1>1, <2>1, <2>2
  <1>3. Head(list) \in Listed /\ Tail(list) \in Seq(Listed) /\ Len(Tail(list)) = n - 1
      BY <1>2, HeadTailProperties
  <1>4. Tail(list) \in [1..(n - 1) -> Listed] /\ n - 1 \in 0..Limit
      <2>1. Len(Tail(list)) \in Nat /\ Tail(list) \in [1..Len(Tail(list)) -> Listed]
          BY <1>3, LenProperties
      <2>2. n - 1 \in Nat
          BY <1>3, <2>1
      <2> QED
          BY <1>3, <2>1, <2>2
  <1> QED
      BY <1>3, <1>4 DEF Lists

LEMMA ConstantTypes ==
    /\ IdlePass \in PassRecord /\ IdlePass.pc = "idle"
    /\ AtAudit \in PassRecord /\ AtAudit.pc = "audit"
    /\ IdleHandler \in HandlerRecord /\ IdleHandler.pc = "idle"
    /\ Absent \in OperationRow /\ Absent.state = "absent"
    /\ Absent.owner = NoOwner /\ Absent.lease = "none"
  <1>1. <<>> \in Lists
      <2>1. <<>> \in [1..0 -> Listed] /\ 0 \in 0..Limit
          OBVIOUS
      <2> QED
          BY <2>1 DEF Lists
  <1>2. IdlePass \in PassRecord /\ AtAudit \in PassRecord
      BY <1>1 DEF IdlePass, AtAudit, PassRecord
  <1>3. IdleHandler \in HandlerRecord /\ Absent \in OperationRow
      BY DEF IdleHandler, HandlerRecord, Absent, OperationRow, Terminal
  <1> QED
      BY <1>2, <1>3 DEF IdlePass, AtAudit, IdleHandler, Absent

\* Rows and their leases.
LEMMA LeasePair ==
    ASSUME TypeOK, NEW o \in Ops
    PROVE  /\ op[o] \in OperationRow
           /\ op[o].state = "running" <=> op[o].owner # NoOwner
           /\ op[o].state = "running" <=> op[o].lease # "none"
  <1>1. op \in [Ops -> OperationRow]
      BY DEF TypeOK, IntakeTypeOK
  <1>2. \A p \in Ops : /\ op[p].state = "running" <=> op[p].owner # NoOwner
                       /\ op[p].state = "running" <=> op[p].lease # "none"
      BY DEF TypeOK
  <1> QED
      BY <1>1, <1>2

\* The operation at hand.
LEMMA CurrentTypes ==
    ASSUME IndInv, NEW w \in Workers, pass[w].pc \in {"batch", "execute"}
    PROVE  /\ Current(w) \in Ops /\ pass[w] \in PassRecord
           /\ Tail(pass[w].list) \in Lists
  <1>1. pass[w] \in PassRecord /\ PassInv(w)
      BY DEF IndInv, TypeOK
  <1>2. pass[w].list \in Lists /\ pass[w].list # <<>>
      BY <1>1 DEF PassRecord, PassInv
  <1>3. Head(pass[w].list) \in Listed /\ Tail(pass[w].list) \in Lists
      BY <1>2, ListParts
  <1> QED
      BY <1>1, <1>3 DEF Current, Listed, PassInv

\* The rest of the batch, or the audit events.
LEMMA BatchTypes ==
    ASSUME pass \in [Workers -> PassRecord], NEW w \in Workers, NEW list \in Lists,
           Batch(w, list)
    PROVE  /\ pass' \in [Workers -> PassRecord]
           /\ \A v \in Workers \ {w} : pass'[v] = pass[v]
           /\ \/ pass'[w].pc = "audit"
              \/ /\ pass'[w].pc = "batch" /\ pass'[w].list = list /\ list # <<>>
  <1> DEFINE p == [pass[w] EXCEPT !.pc = "batch", !.list = list]
  <1>1. pass[w] \in PassRecord
      OBVIOUS
  <1>2. p \in PassRecord /\ p.pc = "batch" /\ p.list = list
      BY <1>1 DEF PassRecord
  <1>3. CASE list = <<>>
      BY <1>3, ConstantTypes DEF Batch
  <1>4. CASE list # <<>>
      <2>1. pass' = [pass EXCEPT ![w] = p]
          BY <1>4 DEF Batch
      <2> HIDE DEF p
      <2> QED
          BY <1>2, <1>4, <2>1
  <1> QED
      BY <1>3, <1>4

------------------------------------------------------------------------------
(* Steps that leave the rows and the handlers alone.                        *)

LEMMA PassMove ==
    ASSUME IndInv, UNCHANGED <<op, repos, handler, clock, answer>>,
           run' \in {"none", "reconciling", "blocked"},
           pass' \in [Workers -> PassRecord], undelivered' \in BOOLEAN,
           faults' \in 0..MaxFaults,
           \A w \in Workers : PassInv(w)'
    PROVE  IndInv'
  <1>1. TypeOK'
      BY DEF IndInv, TypeOK, IntakeTypeOK
  <1>2. ASSUME NEW h \in Handlers PROVE HandlerInv(h)'
      BY DEF IndInv, HandlerInv, Going, Lifecycle
  <1>3. ASSUME NEW o \in Ops PROVE RowInv(o)' /\ CloneFirst(o)'
      <2>1. RowInv(o) /\ CloneFirst(o)
          BY DEF IndInv
      <2>2. RowInv(o)'
          BY <2>1 DEF RowInv, Made, Lifecycle
      <2>3. CloneFirst(o)'
          BY <2>1 DEF CloneFirst, Made, Going, Lifecycle, Older
      <2> QED
          BY <2>2, <2>3
  <1>4. Ages' /\ OneRowPerScope' /\ OneMutation'
      BY DEF IndInv, Ages, OneRowPerScope, OneMutation, Made, Going, Unfinished, SameScope
  <1>5. ASSUME NEW r \in Requests PROVE AnswerInv(r)'
      BY DEF IndInv, AnswerInv, Made, SameScope
  <1>6. ASSUME NEW o \in Ops, NEW p \in Ops PROVE OlderIsLate(o, p)'
      BY DEF IndInv, OlderIsLate, Older, Conflict
  <1> QED
      BY <1>1, <1>2, <1>3, <1>4, <1>5, <1>6 DEF IndInv

\* A worker that another one's step leaves alone.
LEMMA PassKept ==
    ASSUME IndInv, NEW w \in Workers, pass'[w] = pass[w]
    PROVE  PassInv(w)'
  BY DEF IndInv, PassInv

LEMMA FaultTypes ==
    ASSUME IndInv, Fault \/ NoFault
    PROVE  faults' \in 0..MaxFaults
  BY DEF IndInv, TypeOK, Fault, NoFault

LEMMA PassStepInv ==
    ASSUME IndInv, NEW w \in Workers,
           \/ ReconcileClean(w) \/ ReconcileBlocked(w) \/ ListOperations(w)
           \/ SkipManual(w) \/ LoseRace(w) \/ ExecuteFails(w) \/ DeliverAudit(w) \/ Stop(w)
    PROVE  IndInv'
  <1>0. /\ pass \in [Workers -> PassRecord] /\ undelivered \in BOOLEAN
        /\ run \in {"none", "reconciling", "blocked"}
      BY DEF IndInv, TypeOK, IntakeTypeOK
  <1>1. /\ UNCHANGED <<op, repos, handler, clock, answer>>
        /\ run' \in {"none", "reconciling", "blocked"}
      BY <1>0 DEF ReconcileClean, ReconcileBlocked, ListOperations, SkipManual, LoseRace,
                  ExecuteFails, DeliverAudit, Stop
  <1>2. undelivered' \in BOOLEAN
      <2>1. CASE undelivered' = undelivered
          BY <1>0, <2>1
      <2>2. CASE undelivered' = FALSE
          BY <2>2
      <2>3. CASE undelivered' = (undelivered \/ run = "reconciling")
          BY <1>0, <2>3
      <2> QED
          BY <2>1, <2>2, <2>3 DEF ReconcileClean, ReconcileBlocked, ListOperations, SkipManual, LoseRace,
                                  ExecuteFails, DeliverAudit, Stop
  <1>3. faults' \in 0..MaxFaults
      BY FaultTypes DEF ReconcileClean, ReconcileBlocked, ListOperations, SkipManual, LoseRace,
                        ExecuteFails, DeliverAudit, Stop, NoFault
  <1>4. ASSUME NEW p \in PassRecord, pass' = [pass EXCEPT ![w] = p],
               p.pc \in {"batch", "execute"} => p.list # <<>>
        PROVE  IndInv'
      <2>1. pass' \in [Workers -> PassRecord] /\ pass'[w] = p
            /\ \A v \in Workers \ {w} : pass'[v] = pass[v]
          BY <1>0, <1>4
      <2>2. ASSUME NEW v \in Workers PROVE PassInv(v)'
          <3>1. CASE v = w
              BY <1>4, <2>1, <3>1 DEF PassInv
          <3>2. CASE v # w
              BY <1>1, <2>1, <3>2, PassKept
          <3> QED
              BY <3>1, <3>2
      <2> QED
          BY <1>1, <1>2, <1>3, <2>1, <2>2, PassMove
  <1>5. ASSUME NEW list \in Lists, Batch(w, list)
        PROVE  IndInv'
      <2>1. /\ pass' \in [Workers -> PassRecord]
            /\ \A v \in Workers \ {w} : pass'[v] = pass[v]
            /\ \/ pass'[w].pc = "audit"
               \/ /\ pass'[w].pc = "batch" /\ pass'[w].list = list /\ list # <<>>
          BY <1>0, <1>5, BatchTypes
      <2>2. ASSUME NEW v \in Workers PROVE PassInv(v)'
          <3>1. CASE v = w
              BY <1>5, <2>1, <3>1 DEF PassInv
          <3>2. CASE v # w
              BY <1>1, <2>1, <3>2, PassKept
          <3> QED
              BY <3>1, <3>2
      <2> QED
          BY <1>1, <1>2, <1>3, <2>1, <2>2, PassMove
  <1>6. CASE ReconcileClean(w)
      <2>1. CASE pass' = [pass EXCEPT ![w] = AtAudit]
          BY <1>4, <2>1, ConstantTypes
      <2>2. CASE pass' = [pass EXCEPT ![w].pc = "list"]
          <3> DEFINE p == [pass[w] EXCEPT !.pc = "list"]
          <3>1. p \in PassRecord /\ p.pc = "list"
              BY <1>0 DEF PassRecord
          <3>2. pass' = [pass EXCEPT ![w] = p]
              BY <2>2
          <3> HIDE DEF p
          <3> QED
              BY <1>4, <3>1, <3>2
      <2> QED
          BY <1>6, <2>1, <2>2 DEF ReconcileClean
  <1>11. CASE ListOperations(w)
      <2>1. PICK list \in Lists :
              \/ Batch(w, list)
              \/ /\ list # <<>>
                 /\ pass' = [pass EXCEPT ![w] = [IdlePass EXCEPT !.pc = "batch",
                                                   !.list = list, !.jvs = FALSE]]
          BY <1>11 DEF ListOperations
      <2>2. CASE Batch(w, list)
          BY <1>5, <2>2
      <2>3. CASE /\ list # <<>>
                 /\ pass' = [pass EXCEPT ![w] = [IdlePass EXCEPT !.pc = "batch",
                                                   !.list = list, !.jvs = FALSE]]
          <3> DEFINE p == [IdlePass EXCEPT !.pc = "batch", !.list = list, !.jvs = FALSE]
          <3>1. p \in PassRecord /\ p.list = list
              BY ConstantTypes DEF PassRecord
          <3>2. pass' = [pass EXCEPT ![w] = p]
              BY <2>3
          <3> HIDE DEF p
          <3> QED
              BY <1>4, <2>3, <3>1, <3>2
      <2> QED
          BY <2>1, <2>2, <2>3
  <1>7. CASE ReconcileBlocked(w)
      <2>1. pass' = pass
          BY <1>7 DEF ReconcileBlocked
      <2>2. \A v \in Workers : PassInv(v)'
          BY <1>1, <2>1, PassKept
      <2> QED
          BY <1>0, <1>1, <1>2, <1>3, <2>1, <2>2, PassMove
  <1>8. CASE SkipManual(w) \/ LoseRace(w)
      <2>1. /\ pass[w].pc = "batch" /\ Batch(w, Tail(pass[w].list)) /\ run' = run
          BY <1>8 DEF SkipManual, LoseRace, AtCandidate, DropCurrent
      <2> QED
          BY <1>5, <2>1, CurrentTypes
  <1>9. CASE ExecuteFails(w)
      BY <1>4, <1>9, ConstantTypes DEF ExecuteFails
  <1>10. CASE DeliverAudit(w) \/ Stop(w)
      BY <1>4, <1>10, ConstantTypes DEF DeliverAudit, Stop
  <1> QED
      BY <1>6, <1>7, <1>8, <1>9, <1>10, <1>11

\* The operator starts a run, and whatever is in flight goes on.
LEMMA StartRunInv ==
    ASSUME IndInv, StartRun
    PROVE  IndInv'
  <1>1. /\ pass \in [Workers -> PassRecord] /\ undelivered \in BOOLEAN
        /\ faults \in 0..MaxFaults
      BY DEF IndInv, TypeOK, IntakeTypeOK
  <1>2. \A w \in Workers : PassInv(w)'
      BY PassKept DEF StartRun
  <1> QED
      BY <1>1, <1>2, PassMove DEF StartRun
------------------------------------------------------------------------------
(* Steps that change the state of rows.                                     *)

\* Rows keep their request and age, and what is over stays so.
RowsKeep ==
    \A o \in Ops :
        /\ op'[o].req = op[o].req /\ op'[o].created = op[o].created
        /\ Made(o)' <=> Made(o)
        /\ Unfinished(o)' => Unfinished(o)

LEMMA RowStep ==
    ASSUME IndInv, TypeOK', RowsKeep, repos \subseteq repos',
           UNCHANGED <<handler, clock, run, answer>>,
           \A w \in Workers : PassInv(w)',
           \A o, p \in Ops : OlderIsLate(o, p)'
    PROVE  IndInv'
  <1>1. ASSUME NEW o \in Ops PROVE RowInv(o)' /\ CloneFirst(o)'
      <2>1. RowInv(o) /\ CloneFirst(o)
          BY DEF IndInv
      <2>2. RowInv(o)'
          BY <2>1 DEF RowInv, RowsKeep, Lifecycle
      <2>3. CloneFirst(o)'
          BY <2>1 DEF CloneFirst, RowsKeep, Lifecycle, Going, Older
      <2> QED
          BY <2>2, <2>3
  <1>2. \A h \in Handlers : HandlerInv(h)'
      BY DEF IndInv, HandlerInv, Going, Lifecycle
  <1>3. Ages'
      BY DEF IndInv, Ages, RowsKeep, Going
  <1>4. OneRowPerScope' /\ OneMutation'
      BY DEF IndInv, OneRowPerScope, OneMutation, RowsKeep, SameScope
  <1>5. ASSUME NEW r \in Requests PROVE AnswerInv(r)'
      <2>1. answer[r] \subseteq Ops /\ AnswerInv(r)
          BY DEF IndInv, TypeOK, IntakeTypeOK
      <2> QED
          BY <2>1 DEF AnswerInv, RowsKeep, SameScope
  <1> QED
      BY <1>1, <1>2, <1>3, <1>4, <1>5 DEF IndInv

\* A worker takes an operation: nothing older that it must not meet is left,
\* except what came late.
LEMMA AcquireInv ==
    ASSUME IndInv, NEW w \in Workers, Acquire(w)
    PROVE  IndInv'
  <1> DEFINE c == Current(w)
  <1>0. TypeOK /\ op \in [Ops -> OperationRow] /\ pass \in [Workers -> PassRecord]
      BY DEF IndInv, TypeOK, IntakeTypeOK
  <1>1. /\ pass[w].pc = "batch" /\ Acquirable(c)
        /\ op' = [op EXCEPT ![c].state = "running", ![c].lease = "live", ![c].owner = w]
        /\ pass' = [pass EXCEPT ![w].pc = "execute"]
        /\ UNCHANGED <<repos, handler, clock, run, answer, undelivered, faults>>
      BY DEF Acquire, AtCandidate
  <1>2. c \in Ops
      BY <1>1, CurrentTypes
  <1>3. op[c].state \in {"queued", "running"}
      BY <1>1 DEF Acquirable, LeaseFree
  <1> HIDE DEF c
  <1>4. /\ op' \in [Ops -> OperationRow] /\ op'[c].state = "running" /\ op'[c].lease = "live"
        /\ op'[c].owner = w /\ op'[c].req = op[c].req /\ op'[c].created = op[c].created
        /\ op'[c].late = op[c].late
        /\ \A p \in Ops \ {c} : op'[p] = op[p]
      <2> DEFINE r == [op[c] EXCEPT !.state = "running", !.lease = "live", !.owner = w]
      <2>1. op[c] \in OperationRow
          BY <1>0, <1>2
      <2>2. r \in OperationRow /\ r.state = "running" /\ r.lease = "live" /\ r.owner = w
            /\ r.req = op[c].req /\ r.created = op[c].created /\ r.late = op[c].late
          BY <2>1 DEF OperationRow
      <2>3. op' = [op EXCEPT ![c] = r]
          BY <1>1
      <2> HIDE DEF r
      <2> QED
          BY <1>0, <1>2, <2>2, <2>3
  <1>5. /\ pass' \in [Workers -> PassRecord] /\ pass'[w].list = pass[w].list
        /\ \A v \in Workers \ {w} : pass'[v] = pass[v]
      BY <1>0, <1>1 DEF PassRecord
  <1>6. TypeOK'
      <2>1. ASSUME NEW o \in Ops
            PROVE  /\ op'[o].state = "running" <=> op'[o].owner # NoOwner
                   /\ op'[o].state = "running" <=> op'[o].lease # "none"
          <3>1. /\ op[o].state = "running" <=> op[o].owner # NoOwner
                /\ op[o].state = "running" <=> op[o].lease # "none"
              BY <1>0, LeasePair
          <3> QED
              BY <1>4, <3>1
      <2> QED
          BY <1>0, <1>1, <1>4, <1>5, <2>1 DEF TypeOK, IntakeTypeOK
  <1>7. RowsKeep
      BY <1>3, <1>4 DEF RowsKeep, Made, Unfinished, Terminal
  <1>8. ASSUME NEW v \in Workers PROVE PassInv(v)'
      <2>1. CASE v = w
          BY <1>1, <1>5, <2>1 DEF IndInv, PassInv
      <2>2. CASE v # w
          BY <1>1, <1>5, <2>2, PassKept
      <2> QED
          BY <2>1, <2>2
  <1>9. ASSUME NEW o \in Ops, NEW p \in Ops PROVE OlderIsLate(o, p)'
      <2>1. OlderIsLate(o, p)
          BY DEF IndInv
      <2>2. CASE p # c
          <3>1. op'[p] = op[p] /\ op'[o].late = op[o].late
                /\ op'[o].req = op[o].req /\ op'[o].created = op[o].created
                /\ (op'[o].state \in {"queued", "running"} => op[o].state \in {"queued", "running"})
              BY <1>3, <1>4, <2>2
          <3> QED
              BY <2>1, <3>1 DEF OlderIsLate, Older, Conflict
      <2>3. CASE p = c
          <3> SUFFICES ASSUME o # c, op[o].state \in {"queued", "running"}, Older(o, c),
                              Conflict(o, c)
                       PROVE  FALSE
              BY <1>4, <2>3 DEF OlderIsLate, Older, Conflict
          <3>0. Unfinished(o) /\ op[o].req.repo = op[c].req.repo /\ Unfinished(c)
              BY <1>3 DEF Unfinished, Terminal, Conflict
          <3>1. CASE AcquireLifecycle(c)
              <4>1. op[o].req.type \in JVSMutation
                  BY <3>1 DEF Conflict, AcquireLifecycle, JVSMutation, RepoLifecycleAndPurge
              <4> QED
                  BY <3>0, <3>1, <4>1 DEF AcquireLifecycle, EarlierUnfinished
          <3>2. CASE AcquireMutation(c)
              <4>1. op[o].req.type \in JVSMutation \cup RepoLifecycleAndPurge
                  BY DEF Conflict
              <4> QED
                  BY <3>0, <3>2, <4>1 DEF AcquireMutation, EarlierUnfinished
          <3>3. CASE AcquirePlain(c)
              <4>1. op[c].req.type = "template_clone" /\ op[c].req.type \in JVSMutation
                  BY <3>3 DEF AcquirePlain, Conflict, JVSMutation, RepoLifecycleAndPurge
              <4>2. CASE op[o].req.type \in JVSMutation
                  BY <1>2, <3>0, <4>1, <4>2 DEF IndInv, OneMutation
              <4>3. CASE op[o].req.type \in RepoLifecycleAndPurge
                  <5>1. Made(o) /\ Made(c)
                      BY <1>3 DEF Made
                  <5>2. Older(c, o)
                      BY <1>2, <3>0, <4>1, <4>3, <5>1 DEF IndInv, CloneFirst, Lifecycle
                  <5>3. op[o].created \in Int /\ op[c].created \in Int
                      BY <1>0, <1>2 DEF OperationRow
                  <5> QED
                      BY <5>2, <5>3 DEF Older
              <4> QED
                  BY <4>2, <4>3 DEF Conflict
          <3> QED
              BY <1>1, <3>1, <3>2, <3>3 DEF Acquirable
      <2> QED
          BY <2>2, <2>3
  <1> QED
      BY <1>1, <1>6, <1>7, <1>8, <1>9, RowStep

\* An operation ends, is left to an operator, or loses its lease.
LEMMA EndingInv ==
    ASSUME IndInv, NEW c \in Ops, NEW r \in OperationRow,
           op[c].state # "absent", op' = [op EXCEPT ![c] = r],
           r.req = op[c].req, r.created = op[c].created, r.state # "absent",
           r.state \notin Terminal => op[c].state \notin Terminal,
           r.state \in {"queued", "running"} => r.state = op[c].state /\ r.late = op[c].late,
           r.state = "running" <=> r.owner # NoOwner,
           r.state = "running" <=> r.lease # "none",
           repos \subseteq repos', UNCHANGED <<handler, clock, run, answer>>,
           pass' \in [Workers -> PassRecord], undelivered' \in BOOLEAN,
           faults' \in 0..MaxFaults, \A w \in Workers : PassInv(w)'
    PROVE  IndInv'
  <1>0. TypeOK /\ op \in [Ops -> OperationRow]
      BY DEF IndInv, TypeOK, IntakeTypeOK
  <1>1. /\ op' \in [Ops -> OperationRow] /\ op'[c] = r
        /\ \A p \in Ops \ {c} : op'[p] = op[p]
      BY <1>0
  <1>2. TypeOK'
      <2>1. ASSUME NEW o \in Ops
            PROVE  /\ op'[o].state = "running" <=> op'[o].owner # NoOwner
                   /\ op'[o].state = "running" <=> op'[o].lease # "none"
          <3>1. /\ op[o].state = "running" <=> op[o].owner # NoOwner
                /\ op[o].state = "running" <=> op[o].lease # "none"
              BY <1>0, LeasePair
          <3> QED
              BY <1>1, <3>1
      <2> QED
          BY <1>0, <1>1, <2>1 DEF TypeOK, IntakeTypeOK
  <1>3. RowsKeep
      BY <1>1 DEF RowsKeep, Made, Unfinished
  <1>4. ASSUME NEW o \in Ops, NEW p \in Ops PROVE OlderIsLate(o, p)'
      <2>1. OlderIsLate(o, p)
          BY DEF IndInv
      <2>2. /\ op'[o].req = op[o].req /\ op'[o].created = op[o].created
            /\ op'[p].req = op[p].req /\ op'[p].created = op[p].created
          BY <1>3 DEF RowsKeep
      <2>3. /\ op'[p].state = "running" => op[p].state = "running"
            /\ op'[o].state \in {"queued", "running"} =>
                  op[o].state \in {"queued", "running"} /\ op'[o].late = op[o].late
          BY <1>1
      <2> QED
          BY <2>1, <2>2, <2>3 DEF OlderIsLate, Older, Conflict
  <1> QED
      BY <1>2, <1>3, <1>4, RowStep

LEMMA ExecuteInv ==
    ASSUME IndInv, NEW w \in Workers, ExecuteCommits(w) \/ CommitUnsupported(w)
    PROVE  IndInv'
  <1> DEFINE c == Current(w)
  <1>0. /\ op \in [Ops -> OperationRow] /\ pass \in [Workers -> PassRecord]
        /\ undelivered \in BOOLEAN /\ faults \in 0..MaxFaults
        /\ run \in {"none", "reconciling", "blocked"}
      BY DEF IndInv, TypeOK, IntakeTypeOK
  <1>1. /\ pass[w].pc = "execute" /\ Batch(w, Tail(pass[w].list))
        /\ UNCHANGED <<handler, clock, run, answer, faults>>
      BY DEF ExecuteCommits, CommitUnsupported, DropCurrent
  <1>2. /\ c \in Ops /\ Tail(pass[w].list) \in Lists
      BY <1>1, CurrentTypes
  <1>3. /\ pass' \in [Workers -> PassRecord]
        /\ \A v \in Workers \ {w} : pass'[v] = pass[v]
        /\ \/ pass'[w].pc = "audit"
           \/ pass'[w].pc = "batch" /\ pass'[w].list # <<>>
      <2>1. /\ pass' \in [Workers -> PassRecord]
            /\ \A v \in Workers \ {w} : pass'[v] = pass[v]
            /\ \/ pass'[w].pc = "audit"
               \/ /\ pass'[w].pc = "batch" /\ pass'[w].list = Tail(pass[w].list)
                  /\ Tail(pass[w].list) # <<>>
          BY <1>0, <1>1, <1>2, BatchTypes
      <2> QED
          BY <2>1
  <1>4. ASSUME NEW v \in Workers PROVE PassInv(v)'
      <2>1. CASE v = w
          BY <1>1, <1>2, <1>3, <2>1 DEF PassInv
      <2>2. CASE v # w
          BY <1>1, <1>3, <2>2, PassKept
      <2> QED
          BY <2>1, <2>2
  <1> HIDE DEF c
  <1>5. ASSUME NEW state \in {"succeeded", "failed", "operator_intervention_required"},
               NEW marked \in BOOLEAN, Holds(w, c), op' = Finished(c, state, marked),
               repos \subseteq repos', undelivered' = TRUE
        PROVE  IndInv'
      <2> DEFINE r == [op[c] EXCEPT !.state = state, !.lease = "none", !.owner = NoOwner,
                                    !.marked = marked, !.late = FALSE]
      <2>1. op[c] \in OperationRow /\ op[c].state = "running"
          BY <1>0, <1>2, <1>5 DEF Holds
      <2>2. /\ r \in OperationRow /\ r.req = op[c].req /\ r.created = op[c].created
            /\ r.state = state /\ r.lease = "none" /\ r.owner = NoOwner
          BY <2>1 DEF OperationRow, Terminal
      <2>3. op' = [op EXCEPT ![c] = r]
          BY <1>5 DEF Finished
      <2>4. r.state \notin {"queued", "running", "absent"} /\ op[c].state \notin Terminal
          BY <2>1, <2>2 DEF Terminal
      <2> HIDE DEF r
      <2> QED
          BY <1>0, <1>1, <1>2, <1>3, <1>4, <1>5, <2>1, <2>2, <2>3, <2>4, EndingInv
  <1>6. CASE ExecuteCommits(w)
      <2>1. /\ Holds(w, c) /\ undelivered' = TRUE /\ repos \subseteq repos'
            /\ \E state \in {"succeeded", "failed", "operator_intervention_required"} :
                   op' = Finished(c, state, FALSE)
          BY <1>6 DEF ExecuteCommits, c
      <2> QED
          BY <1>5, <2>1
  <1>7. CASE CommitUnsupported(w)
      <2>0. UNCHANGED repos
          BY <1>7 DEF CommitUnsupported
      <2>1. CASE Holds(w, c)
          <3>1. op' = Finished(c, "operator_intervention_required", TRUE) /\ undelivered' = TRUE
              BY <1>7, <2>1 DEF CommitUnsupported, c
          <3> QED
              BY <1>5, <2>0, <2>1, <3>1
      <2>2. CASE ~Holds(w, c)
          <3>1. UNCHANGED <<op, undelivered>>
              BY <1>7, <2>2 DEF CommitUnsupported, c
          <3> QED
              BY <1>0, <1>1, <1>3, <1>4, <2>0, <3>1, PassMove
      <2> QED
          BY <2>1, <2>2
  <1> QED
      BY <1>6, <1>7

LEMMA ClockInv ==
    ASSUME IndInv, NEW o \in Ops, ExpireLease(o) \/ OperatorRepair(o)
    PROVE  IndInv'
  <1>0. /\ TypeOK /\ op \in [Ops -> OperationRow] /\ pass \in [Workers -> PassRecord]
        /\ undelivered \in BOOLEAN /\ faults \in 0..MaxFaults
      BY DEF IndInv, TypeOK, IntakeTypeOK
  <1>1. UNCHANGED <<repos, handler, clock, run, answer, pass>>
      BY DEF ExpireLease, OperatorRepair
  <1>2. undelivered' \in BOOLEAN /\ faults' \in 0..MaxFaults
      <2>1. CASE ExpireLease(o)
          BY <1>0, <2>1, FaultTypes DEF ExpireLease
      <2>2. CASE OperatorRepair(o)
          BY <1>0, <2>2 DEF OperatorRepair
      <2> QED
          BY <2>1, <2>2
  <1>3. \A v \in Workers : PassInv(v)'
      BY <1>1, PassKept
  <1>4. /\ op[o] \in OperationRow
        /\ op[o].state = "running" <=> op[o].owner # NoOwner
        /\ op[o].state = "running" <=> op[o].lease # "none"
      BY <1>0, LeasePair
  <1>5. CASE ExpireLease(o)
      <2> DEFINE r == [op[o] EXCEPT !.lease = "expired"]
      <2>1. op' = [op EXCEPT ![o] = r] /\ op[o].state = "running"
          BY <1>5 DEF ExpireLease
      <2>2. /\ r \in OperationRow /\ r.req = op[o].req /\ r.created = op[o].created
            /\ r.state = op[o].state /\ r.late = op[o].late /\ r.owner = op[o].owner
            /\ r.lease = "expired"
          BY <1>4 DEF OperationRow
      <2> HIDE DEF r
      <2> QED
          BY <1>0, <1>1, <1>2, <1>3, <1>4, <2>1, <2>2, EndingInv
  <1>6. CASE OperatorRepair(o)
      <2> DEFINE r == [op[o] EXCEPT !.state = "failed"]
      <2>1. op' = [op EXCEPT ![o] = r] /\ op[o].state = "operator_intervention_required"
          BY <1>6 DEF OperatorRepair
      <2>2. /\ r \in OperationRow /\ r.req = op[o].req /\ r.created = op[o].created
            /\ r.state = "failed" /\ r.owner = op[o].owner /\ r.lease = op[o].lease
          BY <1>4 DEF OperationRow, Terminal
      <2>3. "failed" \in Terminal
          BY DEF Terminal
      <2> HIDE DEF r
      <2> QED
          BY <1>0, <1>1, <1>2, <1>3, <1>4, <2>1, <2>2, <2>3, EndingInv
  <1> QED
      BY <1>5, <1>6
------------------------------------------------------------------------------
(* The handlers.                                                            *)

\* A handler goes on or leaves, and the rows stay as they are.  Its row to be
\* keeps its age, or reads the clock.
LEMMA HandlerMove ==
    ASSUME IndInv, NEW h \in Handlers, NEW k \in HandlerRecord,
           handler' = [handler EXCEPT ![h] = k],
           UNCHANGED <<op, repos, run, pass, undelivered, faults>>,
           clock' \in 0..MaxClock, clock <= clock',
           answer' \in [Requests -> SUBSET Ops], \A r \in Requests : AnswerInv(r)',
           k.pc # "idle" =>
               /\ k.req \in Requests /\ k.created < clock'
               /\ Lifecycle(k.req) => k.req.repo \in repos
               /\ \/ Going(h) /\ k.req = handler[h].req /\ k.created = handler[h].created
                  \/ k.created = clock
    PROVE  IndInv'
  <1>0. /\ TypeOK /\ op \in [Ops -> OperationRow] /\ handler \in [Handlers -> HandlerRecord]
        /\ clock \in 0..MaxClock
      BY DEF IndInv, TypeOK, IntakeTypeOK
  <1>1. /\ handler' \in [Handlers -> HandlerRecord] /\ handler'[h] = k
        /\ \A g \in Handlers \ {h} : handler'[g] = handler[g]
      BY <1>0
  <1>2. /\ \A o \in Ops : op[o].created \in Int /\ (Made(o) => op[o].created < clock)
        /\ \A g \in Handlers :
               handler[g].created \in Int /\ (Going(g) => handler[g].created < clock)
        /\ k.created \in Int
      <2>1. /\ \A o \in Ops : op[o].created \in Int
            /\ \A g \in Handlers : handler[g].created \in Int
            /\ k.created \in Int
          BY <1>0 DEF OperationRow, HandlerRecord
      <2> QED
          BY <2>1 DEF IndInv, RowInv, HandlerInv
  <1>3. ASSUME k.pc # "idle"
        PROVE  /\ \A o \in Ops : Made(o) => op[o].created # k.created
               /\ \A g \in Handlers \ {h} : Going(g) => handler[g].created # k.created
               /\ \A c \in Ops :
                     /\ Made(c) /\ op[c].req.type = "template_clone"
                     /\ Lifecycle(k.req) /\ k.req.repo = op[c].req.repo
                     => op[c].created < k.created
      <2>1. CASE Going(h) /\ k.req = handler[h].req /\ k.created = handler[h].created
          BY <2>1 DEF IndInv, Ages, CloneFirst
      <2>2. CASE k.created = clock
          BY <1>0, <1>2, <2>2
      <2> QED
          BY <1>3, <2>1, <2>2
  <1>4. TypeOK'
      <2>1. IntakeTypeOK'
          BY <1>0, <1>1 DEF TypeOK, IntakeTypeOK
      <2> QED
          BY <1>0, <2>1 DEF TypeOK
  <1>5. ASSUME NEW o \in Ops PROVE RowInv(o)' /\ CloneFirst(o)'
      <2>1. RowInv(o) /\ CloneFirst(o)
          BY DEF IndInv
      <2>2. RowInv(o)'
          BY <1>0, <1>2, <2>1 DEF RowInv, Made, Lifecycle
      <2>3. CloneFirst(o)'
          <3> SUFFICES ASSUME Made(o), op[o].req.type = "template_clone"
                       PROVE  CloneFirst(o)'
              BY DEF CloneFirst, Made
          <3>1. \A p \in Ops :
                    Made(p) /\ Lifecycle(op[p].req) /\ op[p].req.repo = op[o].req.repo
                        => Older(o, p)
              BY <2>1 DEF CloneFirst
          <3>2. ASSUME NEW g \in Handlers, Going(g)', Lifecycle(handler'[g].req),
                       handler'[g].req.repo = op[o].req.repo
                PROVE  op[o].created < handler'[g].created
              <4>1. CASE g = h
                  BY <1>1, <1>3, <3>2, <4>1 DEF Going
              <4>2. CASE g # h
                  BY <1>1, <2>1, <3>2, <4>2 DEF Going, CloneFirst
              <4> QED
                  BY <4>1, <4>2
          <3> QED
              BY <3>1, <3>2 DEF CloneFirst, Made, Lifecycle, Older
      <2> QED
          BY <2>2, <2>3
  <1>6. ASSUME NEW g \in Handlers PROVE HandlerInv(g)'
      <2>1. CASE g = h
          BY <1>1, <2>1 DEF HandlerInv, Going, Lifecycle
      <2>2. CASE g # h
          <3>1. HandlerInv(g) /\ handler'[g] = handler[g] /\ handler[g].created \in Int
              BY <1>1, <1>2, <2>2 DEF IndInv
          <3> QED
              BY <1>0, <3>1 DEF HandlerInv, Going, Lifecycle
      <2> QED
          BY <2>1, <2>2
  <1>7. Ages'
      <2>1. \A o, p \in Ops : (Made(o) /\ Made(p) /\ o # p)' => op'[o].created # op'[p].created
          BY DEF IndInv, Ages, Made
      <2>2. ASSUME NEW o \in Ops, NEW g \in Handlers, Made(o), Going(g)'
            PROVE  op[o].created # handler'[g].created
          <3>1. CASE g = h
              BY <1>1, <1>3, <2>2, <3>1 DEF Going
          <3>2. CASE g # h
              BY <1>1, <2>2, <3>2 DEF IndInv, Ages, Going
          <3> QED
              BY <3>1, <3>2
      <2>3. ASSUME NEW f \in Handlers, NEW g \in Handlers, Going(f)', Going(g)', f # g
            PROVE  handler'[f].created # handler'[g].created
          <3>1. CASE f = h
              BY <1>1, <1>3, <2>3, <3>1 DEF Going
          <3>2. CASE g = h
              BY <1>1, <1>3, <2>3, <3>2 DEF Going
          <3>3. CASE f # h /\ g # h
              BY <1>1, <2>3, <3>3 DEF IndInv, Ages, Going
          <3> QED
              BY <3>1, <3>2, <3>3
      <2> QED
          BY <2>1, <2>2, <2>3 DEF Ages, Made
  <1>8. OneRowPerScope' /\ OneMutation'
      BY DEF IndInv, OneRowPerScope, OneMutation, Made, Unfinished, SameScope
  <1>9. ASSUME NEW o \in Ops, NEW p \in Ops PROVE OlderIsLate(o, p)'
      BY DEF IndInv, OlderIsLate, Older, Conflict
  <1>10. \A w \in Workers : PassInv(w)'
      BY DEF IndInv, PassInv
  <1> QED
      BY <1>4, <1>5, <1>6, <1>7, <1>8, <1>9, <1>10 DEF IndInv

\* A request is answered with the row of its scope.
LEMMA ReuseInv ==
    ASSUME IndInv, NEW r \in Requests, Reuse(r), UNCHANGED op
    PROVE  answer' \in [Requests -> SUBSET Ops] /\ \A s \in Requests : AnswerInv(s)'
  <1>0. answer \in [Requests -> SUBSET Ops]
      BY DEF IndInv, TypeOK, IntakeTypeOK
  <1> DEFINE more == answer[r] \cup {o \in Existing(r) : op[o].req.hash = r.hash}
  <1>1. answer' = [answer EXCEPT ![r] = more]
      BY DEF Reuse
  <1>2. more \in SUBSET Ops
      BY <1>0 DEF Existing
  <1>3. ASSUME NEW o \in more
        PROVE  Made(o) /\ SameScope(op[o].req, r) /\ op[o].req.hash = r.hash
      BY DEF IndInv, AnswerInv, Existing, Made
  <1> HIDE DEF more
  <1>4. answer' \in [Requests -> SUBSET Ops] /\ answer'[r] = more
        /\ \A s \in Requests \ {r} : answer'[s] = answer[s]
      BY <1>0, <1>1, <1>2
  <1>5. ASSUME NEW s \in Requests PROVE AnswerInv(s)'
      <2>1. CASE s = r
          BY <1>3, <1>4, <2>1 DEF AnswerInv, Made, SameScope
      <2>2. CASE s # r
          BY <1>4, <2>2 DEF IndInv, AnswerInv, Made, SameScope
      <2> QED
          BY <2>1, <2>2
  <1> QED
      BY <1>4, <1>5
LEMMA HandlerStepInv ==
    ASSUME IndInv, NEW h \in Handlers, PassUnchanged,
           \/ \E r \in Requests : ReplayExisting(h, r) \/ Admit(h, r)
           \/ ReadGate(h) \/ Refuse(h) \/ InsertConflict(h)
    PROVE  IndInv'
  <1>0. /\ handler \in [Handlers -> HandlerRecord] /\ clock \in 0..MaxClock
        /\ answer \in [Requests -> SUBSET Ops] /\ HandlerInv(h)
      BY DEF IndInv, TypeOK, IntakeTypeOK
  <1>1. UNCHANGED <<pass, undelivered, faults>>
      BY DEF PassUnchanged
  <1>2. ASSUME UNCHANGED <<op, answer>>
        PROVE  /\ answer' \in [Requests -> SUBSET Ops]
               /\ \A r \in Requests : AnswerInv(r)'
      BY <1>0, <1>2 DEF IndInv, AnswerInv, Made, SameScope
  <1>3. ASSUME NEW r \in Requests, ReplayExisting(h, r) PROVE IndInv'
      <2> DEFINE k == handler[h]
      <2>1. Reuse(r) /\ k.pc = "idle" /\ UNCHANGED <<op, repos, handler, clock, run>>
          BY <1>3 DEF ReplayExisting
      <2>2. /\ answer' \in [Requests -> SUBSET Ops]
            /\ \A s \in Requests : AnswerInv(s)'
          BY <2>1, ReuseInv
      <2>3. k \in HandlerRecord /\ handler' = [handler EXCEPT ![h] = k]
          BY <1>0, <2>1
      <2>4. clock' \in 0..MaxClock /\ clock <= clock'
          BY <1>0, <2>1
      <2> HIDE DEF k
      <2> QED
          BY <1>1, <2>1, <2>2, <2>3, <2>4, HandlerMove
  <1>4. ASSUME NEW r \in Requests, Admit(h, r) PROVE IndInv'
      <2> DEFINE k == [pc |-> IF ReadsGate(r.type) THEN "gate" ELSE "insert",
                       req |-> r, created |-> clock]
      <2>1. /\ clock < MaxClock /\ clock' = clock + 1 /\ Admission(r)
            /\ handler' = [handler EXCEPT ![h] = k] /\ UNCHANGED <<op, repos, run, answer>>
          BY <1>4 DEF Admit, MakeSpec
      <2>2. /\ k \in HandlerRecord /\ k.req = r /\ k.created = clock
            /\ k.pc = "insert" => ~ReadsGate(r.type)
          BY <1>0 DEF HandlerRecord
      <2>3. Lifecycle(r) => r.repo \in repos
          BY <2>1 DEF Admission, AdmitLifecycle, AdmitPlain, Lifecycle, RepoLifecycleAndPurge
      <2>4. clock' \in 0..MaxClock /\ clock <= clock' /\ clock < clock'
          BY <1>0, <2>1
      <2> HIDE DEF k
      <2> QED
          BY <1>1, <1>2, <2>1, <2>2, <2>3, <2>4, HandlerMove
  <1>5. ASSUME ReadGate(h) PROVE IndInv'
      <2> DEFINE k == [handler[h] EXCEPT !.pc = "insert"]
      <2>1. /\ handler[h].pc = "gate" /\ run = "none" /\ handler' = [handler EXCEPT ![h] = k]
            /\ UNCHANGED <<op, repos, clock, run, answer>>
          BY <1>5 DEF ReadGate
      <2>2. /\ k \in HandlerRecord /\ k.req = handler[h].req
            /\ k.created = handler[h].created
          BY <1>0 DEF HandlerRecord
      <2>3. /\ Going(h) /\ handler[h].req \in Requests /\ handler[h].created < clock'
            /\ Lifecycle(handler[h].req) => handler[h].req.repo \in repos
          BY <1>0, <2>1 DEF HandlerInv, Going
      <2>4. clock' \in 0..MaxClock /\ clock <= clock'
          BY <1>0, <2>1
      <2> HIDE DEF k
      <2> QED
          BY <1>1, <1>2, <2>1, <2>2, <2>3, <2>4, HandlerMove
  <1>6. ASSUME Leave(h), UNCHANGED <<op, repos, clock, run>>,
               answer' \in [Requests -> SUBSET Ops], \A r \in Requests : AnswerInv(r)'
        PROVE  IndInv'
      <2>1. clock' \in 0..MaxClock /\ clock <= clock'
          BY <1>0, <1>6
      <2>2. handler' = [handler EXCEPT ![h] = IdleHandler]
          BY <1>6 DEF Leave
      <2> QED
          BY <1>1, <1>6, <2>1, <2>2, ConstantTypes, HandlerMove
  <1>7. ASSUME Refuse(h) PROVE IndInv'
      BY <1>2, <1>6, <1>7 DEF Refuse
  <1>8. ASSUME InsertConflict(h) PROVE IndInv'
      <2>1. /\ handler[h].pc = "insert" /\ Reuse(handler[h].req) /\ Leave(h)
            /\ UNCHANGED <<op, repos, clock, run>>
          BY <1>8 DEF InsertConflict
      <2>2. handler[h].req \in Requests
          BY <1>0, <2>1 DEF HandlerInv, Going
      <2>3. /\ answer' \in [Requests -> SUBSET Ops]
            /\ \A s \in Requests : AnswerInv(s)'
          BY <2>1, <2>2, ReuseInv
      <2> QED
          BY <1>6, <2>1, <2>3
  <1> QED
      BY <1>3, <1>4, <1>5, <1>7, <1>8
\* A row is inserted: its scope is new, it is the only unfinished mutation of
\* its repo, and it is late when something younger is running there.
LEMMA InsertInv ==
    ASSUME IndInv, NEW h \in Handlers, Insert(h), PassUnchanged
    PROVE  IndInv'
  <1> DEFINE r == handler[h].req
             age == handler[h].created
             row == QueuedRow(r, age)
  <1>0. /\ TypeOK /\ op \in [Ops -> OperationRow] /\ handler \in [Handlers -> HandlerRecord]
        /\ answer \in [Requests -> SUBSET Ops]
      BY DEF IndInv, TypeOK, IntakeTypeOK
  <1>1. /\ Going(h) /\ Existing(r) = {} /\ Insertable(r) /\ Leave(h)
        /\ UNCHANGED <<repos, clock, run, pass, undelivered, faults>>
      BY DEF Insert, PassUnchanged, Going
  <1>2. PICK n \in Ops : /\ op[n].state = "absent" /\ op' = [op EXCEPT ![n] = row]
                         /\ answer' = [answer EXCEPT ![r] = @ \cup {n}]
      BY DEF Insert
  <1>3. r \in Requests /\ age < clock /\ age \in Int /\ (Lifecycle(r) => r.repo \in repos)
      BY <1>0, <1>1 DEF IndInv, HandlerInv, HandlerRecord
  <1>4. /\ row \in OperationRow /\ row.req = r /\ row.state = "queued" /\ row.created = age
        /\ row.late = ComesLate(r, age) /\ row.owner = NoOwner /\ row.lease = "none"
      <2>1. age \in 0..MaxClock /\ ComesLate(r, age) \in BOOLEAN
          BY <1>0 DEF HandlerRecord, ComesLate
      <2> QED
          BY <1>3, <2>1 DEF QueuedRow, Absent, OperationRow
  <1> HIDE DEF row
  <1>5. /\ op' \in [Ops -> OperationRow] /\ op'[n] = row
        /\ \A o \in Ops \ {n} : op'[o] = op[o]
      BY <1>0, <1>2, <1>4
  <1>6. /\ handler' \in [Handlers -> HandlerRecord] /\ ~Going(h)'
        /\ \A g \in Handlers \ {h} : handler'[g] = handler[g]
      BY <1>0, <1>1, ConstantTypes DEF Leave, Going
  <1>7. /\ answer' \in [Requests -> SUBSET Ops]
        /\ answer'[r] = answer[r] \cup {n}
        /\ \A s \in Requests \ {r} : answer'[s] = answer[s]
      BY <1>0, <1>2, <1>3
  <1> HIDE DEF r, age
  <1>8. /\ Made(n)' /\ ~Made(n)
        /\ \A o \in Ops \ {n} : Made(o)' <=> Made(o)
      BY <1>2, <1>4, <1>5 DEF Made
  <1>9. \A o \in Ops \ {n} : Made(o) => op[o].created # age
      BY <1>1 DEF IndInv, Ages, age
  <1>10. TypeOK'
      <2>1. ASSUME NEW o \in Ops
            PROVE  /\ op'[o].state = "running" <=> op'[o].owner # NoOwner
                   /\ op'[o].state = "running" <=> op'[o].lease # "none"
          <3>1. /\ op[o].state = "running" <=> op[o].owner # NoOwner
                /\ op[o].state = "running" <=> op[o].lease # "none"
              BY <1>0, LeasePair
          <3> QED
              BY <1>4, <1>5, <3>1
      <2>2. IntakeTypeOK'
          BY <1>0, <1>1, <1>5, <1>6, <1>7 DEF TypeOK, IntakeTypeOK
      <2> QED
          BY <1>0, <1>1, <2>1, <2>2 DEF TypeOK
  <1>11. ASSUME NEW o \in Ops PROVE RowInv(o)'
      <2>1. CASE o = n
          BY <1>1, <1>3, <1>4, <1>5, <2>1 DEF RowInv, Lifecycle
      <2>2. CASE o # n
          BY <1>1, <1>5, <1>8, <2>2 DEF IndInv, RowInv, Lifecycle
      <2> QED
          BY <2>1, <2>2
  <1>12. ASSUME NEW c \in Ops PROVE CloneFirst(c)'
      <2> SUFFICES ASSUME Made(c)', op'[c].req.type = "template_clone"
                   PROVE  CloneFirst(c)'
          BY DEF CloneFirst
      <2>1. CASE c = n
          <3>1. op'[c].req = r /\ r.type = "template_clone"
              BY <1>4, <1>5, <2>1
          <3>2. r.repo \notin repos
              BY <1>1, <1>3, <3>1 DEF Insertable, CreatesRepo
          <3>3. ASSUME NEW o \in Ops, Made(o)', Lifecycle(op'[o].req),
                       op'[o].req.repo = r.repo
                PROVE  FALSE
              <4>1. CASE o = n
                  BY <1>4, <1>5, <3>1, <3>3, <4>1 DEF Lifecycle, RepoLifecycleAndPurge
              <4>2. CASE o # n
                  BY <1>5, <1>8, <3>2, <3>3, <4>2 DEF IndInv, RowInv
              <4> QED
                  BY <4>1, <4>2
          <3>4. ASSUME NEW g \in Handlers, Going(g)', Lifecycle(handler'[g].req),
                       handler'[g].req.repo = r.repo
                PROVE  FALSE
              <4>1. g # h /\ handler'[g] = handler[g] /\ Going(g)
                  BY <1>6, <3>4 DEF Going
              <4> QED
                  BY <3>2, <3>4, <4>1 DEF IndInv, HandlerInv
          <3> QED
              BY <3>1, <3>3, <3>4 DEF CloneFirst, Lifecycle
      <2>2. CASE c # n
          <3>0. Made(c) /\ op'[c] = op[c] /\ CloneFirst(c) /\ op[c].req.type = "template_clone"
              BY <1>5, <1>8, <2>2 DEF IndInv
          <3>1. ASSUME NEW o \in Ops, Made(o)', Lifecycle(op'[o].req),
                       op'[o].req.repo = op[c].req.repo
                PROVE  op[c].created < op'[o].created
              <4>1. CASE o = n
                  <5>1. Lifecycle(r) /\ r.repo = op[c].req.repo /\ op'[o].created = age
                      BY <1>4, <1>5, <3>1, <4>1
                  <5> QED
                      BY <1>1, <3>0, <5>1 DEF CloneFirst, r, age
              <4>2. CASE o # n
                  BY <1>5, <1>8, <3>0, <3>1, <4>2 DEF CloneFirst, Older
              <4> QED
                  BY <4>1, <4>2
          <3>2. ASSUME NEW g \in Handlers, Going(g)', Lifecycle(handler'[g].req),
                       handler'[g].req.repo = op[c].req.repo
                PROVE  op[c].created < handler'[g].created
              <4>1. g # h /\ handler'[g] = handler[g] /\ Going(g)
                  BY <1>6, <3>2 DEF Going
              <4> QED
                  BY <3>0, <3>2, <4>1 DEF CloneFirst
          <3> QED
              BY <3>0, <3>1, <3>2 DEF CloneFirst, Lifecycle, Older
      <2> QED
          BY <2>1, <2>2
  <1>13. ASSUME NEW g \in Handlers PROVE HandlerInv(g)'
      <2> SUFFICES ASSUME Going(g)' PROVE HandlerInv(g)'
          BY DEF HandlerInv
      <2>1. g # h /\ handler'[g] = handler[g] /\ Going(g)
          BY <1>6 DEF Going
      <2> QED
          BY <1>1, <2>1 DEF IndInv, HandlerInv, Lifecycle
  <1>14. Ages'
      <2>0. \A g \in Handlers : Going(g)' => g # h /\ handler'[g] = handler[g] /\ Going(g)
          BY <1>6 DEF Going
      <2>1. ASSUME NEW o \in Ops, NEW p \in Ops, Made(o)', Made(p)', o # p
            PROVE  op'[o].created # op'[p].created
          <3>1. CASE o = n
              BY <1>4, <1>5, <1>8, <1>9, <2>1, <3>1
          <3>2. CASE p = n
              BY <1>4, <1>5, <1>8, <1>9, <2>1, <3>2
          <3>3. CASE o # n /\ p # n
              BY <1>5, <1>8, <2>1, <3>3 DEF IndInv, Ages
          <3> QED
              BY <3>1, <3>2, <3>3
      <2>2. ASSUME NEW o \in Ops, NEW g \in Handlers, Made(o)', Going(g)'
            PROVE  op'[o].created # handler'[g].created
          <3>1. CASE o = n
              BY <1>1, <1>4, <1>5, <2>0, <2>2, <3>1 DEF IndInv, Ages, age
          <3>2. CASE o # n
              BY <1>5, <1>8, <2>0, <2>2, <3>2 DEF IndInv, Ages
          <3> QED
              BY <3>1, <3>2
      <2>3. ASSUME NEW f \in Handlers, NEW g \in Handlers, Going(f)', Going(g)', f # g
            PROVE  handler'[f].created # handler'[g].created
          BY <2>0, <2>3 DEF IndInv, Ages
      <2> QED
          BY <2>1, <2>2, <2>3 DEF Ages
  <1>15. OneRowPerScope'
      <2>1. \A o \in Ops \ {n} : Made(o) => ~SameScope(op[o].req, r)
          BY <1>1 DEF Existing, Made
      <2>2. ASSUME NEW o \in Ops, NEW p \in Ops, Made(o)', Made(p)',
                   SameScope(op'[o].req, op'[p].req)
            PROVE  o = p
          <3>1. CASE o = n
              BY <1>4, <1>5, <1>8, <2>1, <2>2, <3>1 DEF SameScope
          <3>2. CASE p = n
              BY <1>4, <1>5, <1>8, <2>1, <2>2, <3>2 DEF SameScope
          <3>3. CASE o # n /\ p # n
              BY <1>5, <1>8, <2>2, <3>3 DEF IndInv, OneRowPerScope
          <3> QED
              BY <3>1, <3>2, <3>3
      <2> QED
          BY <2>2 DEF OneRowPerScope, SameScope
  <1>16. ASSUME NEW s \in Requests PROVE AnswerInv(s)'
      <2>0. ASSUME NEW o \in answer[s]
            PROVE  Made(o)' /\ SameScope(op'[o].req, s) /\ op'[o].req.hash = s.hash
          <3>1. Made(o) /\ SameScope(op[o].req, s) /\ op[o].req.hash = s.hash /\ o \in Ops
              BY <1>0 DEF IndInv, AnswerInv
          <3> QED
              BY <1>5, <1>8, <3>1
      <2>1. CASE s = r
          <3>1. Made(n)' /\ SameScope(op'[n].req, s) /\ op'[n].req.hash = s.hash
              BY <1>4, <1>5, <1>8, <2>1 DEF SameScope
          <3> QED
              BY <1>7, <2>0, <2>1, <3>1 DEF AnswerInv, SameScope
      <2>2. CASE s # r
          BY <1>7, <2>0, <2>2 DEF AnswerInv, SameScope
      <2> QED
          BY <2>1, <2>2
  <1>17. OneMutation'
      <2>0. \A o \in Ops \ {n} : Unfinished(o)' => Unfinished(o)
          BY <1>5 DEF Unfinished
      <2>1. r.type \in JVSMutation =>
                \A o \in Ops : Unfinished(o) /\ op[o].req.type \in JVSMutation
                                 => op[o].req.repo # r.repo
          BY <1>1 DEF Insertable, MutationInProgress
      <2>2. ASSUME NEW o \in Ops, NEW p \in Ops, Unfinished(o)', Unfinished(p)',
                   op'[o].req.repo = op'[p].req.repo,
                   op'[o].req.type \in JVSMutation, op'[p].req.type \in JVSMutation
            PROVE  o = p
          <3>1. CASE o = n
              BY <1>4, <1>5, <2>0, <2>1, <2>2, <3>1
          <3>2. CASE p = n
              BY <1>4, <1>5, <2>0, <2>1, <2>2, <3>2
          <3>3. CASE o # n /\ p # n
              BY <1>5, <2>0, <2>2, <3>3 DEF IndInv, OneMutation
          <3> QED
              BY <3>1, <3>2, <3>3
      <2> QED
          BY <2>2 DEF OneMutation
  <1>18. ASSUME NEW o \in Ops, NEW p \in Ops PROVE OlderIsLate(o, p)'
      <2>1. CASE p = n
          BY <1>4, <1>5, <2>1 DEF OlderIsLate
      <2>2. CASE p # n /\ o = n
          <3> SUFFICES ASSUME op'[p].state = "running", op'[o].created < op'[p].created,
                              op'[o].req.repo = op'[p].req.repo
                       PROVE  op'[o].late
              BY DEF OlderIsLate, Older, Conflict
          <3>1. op[p].state = "running" /\ op[p].req.repo = r.repo /\ op[p].created > age
              <4>1. op[p].created \in Int
                  BY <1>0 DEF OperationRow
              <4> QED
                  BY <1>3, <1>4, <1>5, <2>2, <4>1
          <3> QED
              BY <1>4, <1>5, <2>2, <3>1 DEF ComesLate
      <2>3. CASE p # n /\ o # n
          BY <1>5, <2>3 DEF IndInv, OlderIsLate, Older, Conflict
      <2> QED
          BY <2>1, <2>2, <2>3
  <1>19. \A w \in Workers : PassInv(w)'
      BY <1>1 DEF IndInv, PassInv
  <1> QED
      BY <1>10, <1>11, <1>12, <1>13, <1>14, <1>15, <1>16, <1>17, <1>18, <1>19 DEF IndInv
------------------------------------------------------------------------------
(* The invariant.                                                           *)

LEMMA InitIndInv == Init => IndInv
  <1> SUFFICES ASSUME Init PROVE IndInv
      OBVIOUS
  <1>1. /\ op = [o \in Ops |-> Absent] /\ repos = Repos0 /\ clock = 0 /\ run = "none"
        /\ handler = [h \in Handlers |-> IdleHandler]
        /\ answer = [r \in Requests |-> {}]
        /\ pass = [w \in Workers |-> IdlePass] /\ undelivered = FALSE /\ faults = 0
      BY DEF Init, IntakeInit
  <1>2. /\ \A o \in Ops : op[o] = Absent /\ op[o].state = "absent"
        /\ \A h \in Handlers : handler[h].pc = "idle"
        /\ \A w \in Workers : pass[w].pc = "idle"
        /\ \A r \in Requests : answer[r] = {}
      BY <1>1, ConstantTypes
  <1>3. TypeOK
      <2>1. IntakeTypeOK
          BY <1>1, ConstantTypes DEF IntakeTypeOK
      <2>2. pass \in [Workers -> PassRecord] /\ faults \in 0..MaxFaults
          BY <1>1, ConstantTypes
      <2>3. undelivered \in BOOLEAN
          BY <1>1
      <2>4. ASSUME NEW o \in Ops
            PROVE  /\ op[o].state = "running" <=> op[o].owner # NoOwner
                   /\ op[o].state = "running" <=> op[o].lease # "none"
          <3>1. op[o].state = "absent" /\ op[o].owner = NoOwner /\ op[o].lease = "none"
              BY <1>2, ConstantTypes
          <3> QED
              BY <3>1
      <2> QED
          BY <2>1, <2>2, <2>3, <2>4 DEF TypeOK
  <1>4. /\ \A o \in Ops : ~Made(o) /\ ~Unfinished(o)
        /\ \A h \in Handlers : ~Going(h)
      BY <1>2 DEF Made, Going, Unfinished
  <1>5. \A o \in Ops : RowInv(o) /\ CloneFirst(o)
      BY <1>4 DEF RowInv, CloneFirst
  <1>6. \A h \in Handlers : HandlerInv(h)
      BY <1>4 DEF HandlerInv
  <1>7. Ages /\ OneRowPerScope /\ OneMutation
      BY <1>4 DEF Ages, OneRowPerScope, OneMutation
  <1>8. \A r \in Requests : AnswerInv(r)
      BY <1>2 DEF AnswerInv
  <1>9. \A o, p \in Ops : OlderIsLate(o, p)
      BY <1>2 DEF OlderIsLate
  <1>10. \A w \in Workers : PassInv(w)
      BY <1>2 DEF PassInv
  <1> QED
      BY <1>3, <1>5, <1>6, <1>7, <1>8, <1>9, <1>10 DEF IndInv

LEMMA NextIndInv == IndInv /\ [Next]_vars => IndInv'
  <1> SUFFICES ASSUME IndInv, [Next]_vars PROVE IndInv'
      OBVIOUS
  <1>1. ASSUME NEW h \in Handlers, HandlerStep(h), PassUnchanged PROVE IndInv'
      BY <1>1, HandlerStepInv, InsertInv DEF HandlerStep
  <1>2. ASSUME NEW w \in Workers, PassStep(w) PROVE IndInv'
      BY <1>2, PassStepInv, AcquireInv, ExecuteInv DEF PassStep
  <1>3. ASSUME NEW w \in Workers, Stop(w) PROVE IndInv'
      BY <1>3, PassStepInv
  <1>4. ASSUME NEW o \in Ops, ExpireLease(o) \/ OperatorRepair(o) PROVE IndInv'
      BY <1>4, ClockInv
  <1>5. ASSUME StartRun PROVE IndInv'
      BY <1>5, StartRunInv
  <1>6. CASE UNCHANGED vars
      <2>1. UNCHANGED <<op, repos, handler, clock, run, answer, pass, undelivered, faults>>
          BY <1>6 DEF vars
      <2>2. /\ run \in {"none", "reconciling", "blocked"} /\ pass \in [Workers -> PassRecord]
            /\ undelivered \in BOOLEAN /\ faults \in 0..MaxFaults
          BY DEF IndInv, TypeOK, IntakeTypeOK
      <2>3. \A w \in Workers : PassInv(w)'
          BY <2>1, PassKept
      <2> QED
          BY <2>1, <2>2, <2>3, PassMove
  <1> QED
      BY <1>1, <1>2, <1>3, <1>4, <1>5, <1>6 DEF Next, Environment

\* The inductive invariant holds in every state of every behaviour: intake,
\* passes, stops, lost leases, reconciliation runs and repairs in any order.
THEOREM IndInvAlways == Spec => []IndInv
  BY InitIndInv, NextIndInv, PTL DEF Spec

\* Rows, handlers and passes keep their types, and an operation has a lease
\* and an owner exactly while it is running: no row with half a lease, which
\* the planner would refuse for ever (validateOperationLeasePair).
THEOREM TypeCorrect == Spec => []TypeOK
  <1>1. IndInv => TypeOK
      BY DEF IndInv
  <1> QED
      BY <1>1, IndInvAlways, PTL

\* However many handlers serve a request and others under its key at once,
\* its answers name one operation, which was made of that request
\* (CompareIdempotency, the ON CONFLICT of the insert).
THEOREM OneOperationPerKeyAlways == Spec => []OneOperationPerKey
  <1>1. IndInv => OneOperationPerKey
      <2> SUFFICES ASSUME IndInv, NEW r \in Requests, NEW s \in Requests, SameScope(r, s),
                          NEW o \in answer[r], NEW p \in answer[s]
                   PROVE  o = p /\ op[o].req.hash = r.hash
          BY DEF OneOperationPerKey
      <2>1. o \in Ops /\ p \in Ops
          BY DEF IndInv, TypeOK, IntakeTypeOK
      <2>2. Made(o) /\ SameScope(op[o].req, r) /\ op[o].req.hash = r.hash
          BY DEF IndInv, AnswerInv
      <2>3. Made(p) /\ SameScope(op[p].req, s)
          BY DEF IndInv, AnswerInv
      <2>4. SameScope(op[o].req, op[p].req)
          BY <2>2, <2>3 DEF SameScope
      <2> QED
          BY <2>1, <2>2, <2>3, <2>4 DEF IndInv, OneRowPerScope
  <1> QED
      BY <1>1, IndInvAlways, PTL

\* A JVS mutation and another mutation or a lifecycle operation of its repo
\* are executed together only when the older of them was inserted late (the
\* acquire statements, which look for an earlier created_at).
THEOREM ExclusiveUseAlways == Spec => []ExclusiveUse
  <1>1. IndInv => ExclusiveUse
      <2> SUFFICES ASSUME IndInv, NEW o \in Ops, NEW p \in Ops, o # p,
                          Executing(o), Executing(p), op[o].req.repo = op[p].req.repo,
                          op[o].req.type \in JVSMutation,
                          op[p].req.type \in JVSMutation \cup RepoLifecycleAndPurge
                   PROVE  op[o].late \/ op[p].late
          BY DEF ExclusiveUse
      <2>1. /\ op[o].created \in Int /\ op[p].created \in Int
            /\ op[o].created # op[p].created
          <3>1. op \in [Ops -> OperationRow]
              BY DEF IndInv, TypeOK, IntakeTypeOK
          <3>2. Made(o) /\ Made(p)
              BY DEF Executing, Made
          <3> QED
              BY <3>1, <3>2 DEF IndInv, Ages, OperationRow
      <2>2. Conflict(o, p) /\ Conflict(p, o)
          BY DEF Conflict
      <2>3. OlderIsLate(o, p) /\ OlderIsLate(p, o)
          BY DEF IndInv
      <2>4. Older(o, p) \/ Older(p, o)
          BY <2>1 DEF Older
      <2> QED
          BY <2>2, <2>3, <2>4 DEF OlderIsLate, Executing
  <1> QED
      BY <1>1, IndInvAlways, PTL

------------------------------------------------------------------------------
(* The state table.                                                         *)

States == INSTANCE OperationStates WITH state <- [o \in Ops |-> op[o].state]

\* The abstract life of an operation, of OperationStates.
StatesSpec == States!Spec

\* A statement that rewrites one row so that its state stays, or starts, or
\* moves as the table allows, is a step of the table or none.
LEMMA TableMove ==
    ASSUME DOMAIN op = Ops, NEW o \in Ops, op' = [op EXCEPT ![o] = op'[o]],
           \/ op'[o].state = op[o].state
           \/ op[o].state = "absent" /\ op'[o].state = "queued"
           \/ op[o].state = "queued" /\ op'[o].state = "running"
           \/ /\ op[o].state = "running"
              /\ op'[o].state \in {"succeeded", "failed",
                                   "operator_intervention_required"}
           \/ /\ op[o].state = "operator_intervention_required"
              /\ op'[o].state = "failed"
    PROVE  \/ States!Next
           \/ [p \in Ops |-> op[p].state]' = [p \in Ops |-> op[p].state]
  <1> DEFINE st == [p \in Ops |-> op[p].state]
  <1>1. \A p \in Ops \ {o} : op'[p] = op[p]
      OBVIOUS
  <1>2. st' = [st EXCEPT ![o] = op'[o].state]
      BY <1>1
  <1>3. CASE op'[o].state = op[o].state
      BY <1>2, <1>3
  <1>4. CASE op[o].state = "absent" /\ op'[o].state = "queued"
      BY <1>2, <1>4 DEF States!Next, States!Create, States!Absent
  <1>5. CASE /\ op[o].state \in States!OperationState
             /\ op'[o].state \in States!AllowedNextStates[op[o].state]
      BY <1>2, <1>5 DEF States!Next, States!Transition
  <1> QED
      BY <1>3, <1>4, <1>5 DEF States!OperationState, States!AllowedNextStates

\* Every step of the workers, the intake and the operator moves the rows as
\* the table allows.
LEMMA StepFollowsTable ==
    ASSUME IndInv, [Next]_vars
    PROVE  \/ States!Next
           \/ [o \in Ops |-> op[o].state]' = [o \in Ops |-> op[o].state]
  <1> DEFINE Follows ==
        \/ States!Next
        \/ [o \in Ops |-> op[o].state]' = [o \in Ops |-> op[o].state]
  <1>1. op \in [Ops -> OperationRow] /\ DOMAIN op = Ops
      BY DEF IndInv, TypeOK, IntakeTypeOK
  <1>2. CASE op' = op
      BY <1>2
  <1>3. ASSUME NEW h \in Handlers, Insert(h) PROVE Follows
      <2>1. PICK o \in Ops :
               /\ op[o].state = "absent"
               /\ op' = [op EXCEPT ![o] = QueuedRow(handler[h].req, handler[h].created)]
          BY <1>3 DEF Insert
      <2>2. QueuedRow(handler[h].req, handler[h].created).state = "queued"
          BY DEF QueuedRow, Absent
      <2>3. op' = [op EXCEPT ![o] = op'[o]] /\ op'[o].state = "queued"
          BY <1>1, <2>1, <2>2
      <2> QED
          BY <1>1, <2>1, <2>3, TableMove
  <1>4. ASSUME NEW w \in Workers, Acquire(w) PROVE Follows
      <2>1. PICK o \in Ops : o = Current(w)
          BY <1>4, CurrentTypes DEF Acquire, AtCandidate
      <2>2. op[o].state \in {"queued", "running"}
          BY <1>4, <2>1 DEF Acquire, Acquirable, LeaseFree
      <2>3. op' = [op EXCEPT ![o] = op'[o]] /\ op'[o].state = "running"
          BY <1>1, <1>4, <2>1 DEF Acquire, OperationRow
      <2> QED
          BY <1>1, <2>2, <2>3, TableMove
  <1>5. ASSUME NEW o \in Ops, op[o].state = "running",
               NEW s \in {"succeeded", "failed", "operator_intervention_required"},
               NEW m \in BOOLEAN, op' = Finished(o, s, m)
        PROVE  Follows
      <2>1. op' = [op EXCEPT ![o] = op'[o]] /\ op'[o].state = s
          <3> DEFINE r == [op[o] EXCEPT !.state = s, !.lease = "none",
                                !.owner = NoOwner, !.marked = m, !.late = FALSE]
          <3>1. op' = [op EXCEPT ![o] = r]
              BY <1>1, <1>5 DEF Finished
          <3>2. r.state = s
              BY <1>1 DEF OperationRow
          <3> HIDE DEF r
          <3> QED
              BY <1>1, <3>1, <3>2
      <2> QED
          BY <1>1, <1>5, <2>1, TableMove
  <1>6. ASSUME NEW w \in Workers, ExecuteCommits(w) PROVE Follows
      <2>1. PICK o \in Ops : o = Current(w)
          BY <1>6, CurrentTypes DEF ExecuteCommits
      <2>2. op[o].state = "running"
          BY <1>6, <2>1 DEF ExecuteCommits, Holds
      <2>3. PICK s \in {"succeeded", "failed", "operator_intervention_required"} :
                op' = Finished(o, s, FALSE)
          BY <1>6, <2>1 DEF ExecuteCommits
      <2> QED
          BY <1>5, <2>2, <2>3
  <1>7. ASSUME NEW w \in Workers, CommitUnsupported(w), Holds(w, Current(w))
        PROVE  Follows
      <2>1. PICK o \in Ops : o = Current(w)
          BY <1>7, CurrentTypes DEF CommitUnsupported
      <2>2. /\ op[o].state = "running"
            /\ op' = Finished(o, "operator_intervention_required", TRUE)
          BY <1>7, <2>1 DEF CommitUnsupported, Holds
      <2> QED
          BY <1>5, <2>2
  <1>8. ASSUME NEW o \in Ops, ExpireLease(o) \/ OperatorRepair(o) PROVE Follows
      <2>1. CASE ExpireLease(o)
          <3>1. op' = [op EXCEPT ![o] = op'[o]] /\ op'[o].state = op[o].state
              BY <1>1, <2>1 DEF ExpireLease, OperationRow
          <3> QED
              BY <1>1, <3>1, TableMove
      <2>2. CASE OperatorRepair(o)
          <3>1. /\ op' = [op EXCEPT ![o] = op'[o]] /\ op'[o].state = "failed"
                /\ op[o].state = "operator_intervention_required"
              BY <1>1, <2>2 DEF OperatorRepair, OperationRow
          <3> QED
              BY <1>1, <3>1, TableMove
      <2> QED
          BY <1>8, <2>1, <2>2
  <1>9. ASSUME NEW h \in Handlers, HandlerStep(h) PROVE Follows
      <2>1. CASE Insert(h)
          BY <1>3, <2>1
      <2>2. CASE ~ Insert(h)
          BY <1>2, <1>9, <2>2 DEF HandlerStep, ReplayExisting, Admit, ReadGate,
             Refuse, InsertConflict
      <2> QED
          BY <2>1, <2>2
  <1>10. ASSUME NEW w \in Workers, PassStep(w) \/ Stop(w) PROVE Follows
      <2>1. CASE /\ CommitUnsupported(w) /\ ~ Holds(w, Current(w))
          BY <1>2, <2>1 DEF CommitUnsupported
      <2>2. CASE \/ ReconcileClean(w) \/ ReconcileBlocked(w) \/ ListOperations(w)
                 \/ SkipManual(w) \/ LoseRace(w) \/ ExecuteFails(w) \/ DeliverAudit(w) \/ Stop(w)
          BY <1>2, <2>2 DEF ReconcileClean, ReconcileBlocked, ListOperations, SkipManual,
             LoseRace, ExecuteFails, DeliverAudit, Stop
      <2> QED
          BY <1>4, <1>6, <1>7, <1>10, <2>1, <2>2 DEF PassStep
  <1>11. CASE StartRun \/ UNCHANGED vars
      BY <1>2, <1>11 DEF StartRun, vars
  <1> QED
      BY <1>8, <1>9, <1>10, <1>11 DEF Next, Environment

\* The rows of the intake, the worker passes and the operator's repair live
\* as the state table of state.go says, although no statement consults it.
THEOREM ImplementsStates == Spec => StatesSpec
  <1> DEFINE st == [o \in Ops |-> op[o].state]
  <1>1. Init => States!Init
      BY DEF Init, IntakeInit, Absent, States!Init, States!Absent
  <1>2. IndInv /\ [Next]_vars => [States!Next]_st
      BY StepFollowsTable
  <1> QED
      BY <1>1, <1>2, IndInvAlways, PTL DEF Spec, StatesSpec, States!Spec

==============================================================================

-------------------------- MODULE MountBinding_proofs -------------------------
(***************************************************************************)
(* The workload mount bindings, proved for any set of bindings, any        *)
(* reports and any number of queued changes.                               *)
(*                                                                         *)
(* The inductive invariant ties three views of a mount together: a queued  *)
(* change belongs to a binding that exists, or creates one that does not;  *)
(* a queued report of the end is true, and what has ended is not mounted;  *)
(* and while an operation has the repo to itself every binding is absent,  *)
(* harmless to it, overtaken, or confirmed to have ended.                  *)
(***************************************************************************)
EXTENDS MountBinding, TLAPS

CreateFollowsAbsence ==
    \A m \in Mounts :
        /\ m \in creating => Operation(m, "create") \in pending
        /\ Operation(m, "create") \in pending => binding[m].status = "absent"

QueuedHasBinding ==
    \A o \in pending :
        o.type # "create" => binding[o.mount].status # "absent"

QueuedIsHonest ==
    \A o \in pending :
        o.type = "status" /\ o.status \in {"released", "revoked"} =>
            orch[o.mount].done

OrchestratorIsHonest ==
    \A m \in Mounts :
        /\ orch[m].plan \/ orch[m].mounted => binding[m].status # "absent"
        /\ orch[m].done => ~orch[m].mounted

ClearedForUse ==
    user.pc = "working" =>
        \A m \in Mounts :
            \/ binding[m].status = "absent"
            \/ user.kind = "restore" /\ m \in readOnly
            \/ m \in overtaken
            \/ binding[m].confirmed

IndInv ==
    /\ TypeOK
    /\ CreateFollowsAbsence
    /\ QueuedHasBinding
    /\ QueuedIsHonest
    /\ OrchestratorIsHonest
    /\ ClearedForUse
    /\ EvidenceIsHonest

USE ReportsAssumption, PendingAssumption

\* The initial state satisfies the inductive invariant.
LEMMA InitIndInv == Init => IndInv
  <1> SUFFICES ASSUME Init PROVE IndInv
      OBVIOUS
  <1>1. TypeOK
      <2>1. binding \in [Mounts -> Binding]
          BY DEF Init, Binding, MountStatus
      <2>2. orch \in [Mounts -> [plan: BOOLEAN, mounted: BOOLEAN, done: BOOLEAN]]
          BY DEF Init
      <2>3. user \in [kind: Kinds, pc: {"idle", "fenced", "working", "stuck"}]
          BY DEF Init, Kinds
      <2>4. usable \in BOOLEAN
          BY DEF Init
      <2> QED
          BY <2>1, <2>2, <2>3, <2>4 DEF Init, TypeOK
  <1>2. /\ CreateFollowsAbsence /\ QueuedHasBinding /\ QueuedIsHonest
        /\ OrchestratorIsHonest /\ ClearedForUse /\ EvidenceIsHonest
      BY DEF Init, CreateFollowsAbsence, QueuedHasBinding, QueuedIsHonest,
         OrchestratorIsHonest, ClearedForUse, EvidenceIsHonest
  <1> QED
      BY <1>1, <1>2 DEF IndInv

\* What the handler queues.
LEMMA OperationType ==
    ASSUME NEW m \in Mounts, NEW t \in {"create", "heartbeat", "release", "revoke"}
    PROVE  /\ Operation(m, t) \in MountOperation
           /\ Operation(m, t).mount = m
           /\ Operation(m, t).type = t
  BY DEF Operation, MountOperation

LEMMA ReportType ==
    ASSUME NEW m \in Mounts, NEW s \in Reports
    PROVE  /\ Report(m, s) \in MountOperation
           /\ Report(m, s).mount = m
           /\ Report(m, s).type = "status"
           /\ Report(m, s).status = s
  BY DEF Report, MountOperation

\* A create operation is known by its type.
LEMMA CreateOperation ==
    ASSUME NEW o \in MountOperation
    PROVE  /\ o.mount \in Mounts
           /\ o.type = "create" => o = Operation(o.mount, "create")
           /\ o.type = "status" => o.status \in Reports
  BY DEF MountOperation, Operation

\* What a status report makes of a row: what has ended keeps its status and
\* its evidence, and new evidence comes only from released and revoked.
LEMMA ObservedRow ==
    ASSUME NEW b \in Binding, NEW s \in Reports, NEW renews \in BOOLEAN
    PROVE  /\ Observed(b, s, renews) \in Binding
           /\ b.status \in TerminalStatus => Observed(b, s, renews) = b
           /\ Observed(b, s, renews).status = "absent" => b.status = "absent"
           /\ b.confirmed => Observed(b, s, renews).confirmed
           /\ Observed(b, s, renews).confirmed =>
                  b.confirmed \/ s \in {"released", "revoked"}
  <1> DEFINE n == [status |-> s, lease |-> IF renews THEN "live" ELSE b.lease,
                   confirmed |-> b.confirmed \/ s \in {"released", "revoked"}]
  <1>1. CASE StatusApplies(b, s)
      <2>1. Observed(b, s, renews) = n
          BY <1>1 DEF Observed
      <2>2. s \in MountStatus /\ s # "absent"
          BY DEF MountStatus, TerminalStatus, Issuable
      <2>3. n.lease \in {"live", "lapsed"}
          BY DEF Binding
      <2>4. n.confirmed \in BOOLEAN
          OBVIOUS
      <2>5. n \in Binding
          BY <2>2, <2>3, <2>4 DEF Binding
      <2>6. b.status \notin TerminalStatus
          BY <1>1 DEF StatusApplies
      <2>7. /\ n.status = s
            /\ n.confirmed <=> (b.confirmed \/ s \in {"released", "revoked"})
          OBVIOUS
      <2> HIDE DEF n
      <2> QED
          BY <2>1, <2>2, <2>5, <2>6, <2>7
  <1>2. CASE ~StatusApplies(b, s)
      BY <1>2 DEF Observed
  <1> QED
      BY <1>1, <1>2

\* What a queued change makes of the rows.
LEMMA CommitEffect ==
    ASSUME TypeOK, NEW o \in pending, Commit(o)
    PROVE  /\ o.mount \in Mounts
           /\ binding' = [binding EXCEPT ![o.mount] = binding'[o.mount]]
           /\ binding'[o.mount] \in Binding
           /\ binding[o.mount].status \in TerminalStatus =>
                  /\ binding'[o.mount].status \in TerminalStatus
                  /\ binding'[o.mount].confirmed = binding[o.mount].confirmed
           /\ binding[o.mount].status # "absent" =>
                  binding'[o.mount].status # "absent"
           /\ binding[o.mount].confirmed => binding'[o.mount].confirmed
           /\ binding'[o.mount].confirmed =>
                  \/ binding[o.mount].confirmed
                  \/ o.type = "status" /\ o.status \in {"released", "revoked"}
           /\ o.type # "create"
  <1> DEFINE m == o.mount
             b == binding[m]
  <1>1. m \in Mounts /\ b \in Binding /\ (o.type = "status" => o.status \in Reports)
      BY CreateOperation DEF TypeOK
  <1>2. CASE CommitStatus(o)
      <2>1. PICK renews \in BOOLEAN :
                binding' = [binding EXCEPT ![m] = Observed(b, o.status, renews)]
          BY <1>2 DEF CommitStatus
      <2>2. o.type = "status" /\ binding'[m] = Observed(b, o.status, renews)
          BY <1>1, <1>2, <2>1 DEF CommitStatus, TypeOK
      <2>3. o.status \in Reports
          BY <1>1, <2>2
      <2> DEFINE n == Observed(b, o.status, renews)
      <2>4. /\ n \in Binding
            /\ b.status \in TerminalStatus => n = b
            /\ n.status = "absent" => b.status = "absent"
            /\ b.confirmed => n.confirmed
            /\ n.confirmed => b.confirmed \/ o.status \in {"released", "revoked"}
          BY <1>1, <2>3, ObservedRow
      <2>5. binding' = [binding EXCEPT ![m] = binding'[m]]
          BY <2>1, <2>2
      <2> QED
          BY <1>1, <2>2, <2>4, <2>5
  <1>3. CASE CommitHeartbeat(o)
      <2> DEFINE l == IF b.status \in Issuable THEN "live" ELSE b.lease
      <2>1. /\ o.type = "heartbeat"
            /\ binding' = [binding EXCEPT ![m].lease = l]
          BY <1>3 DEF CommitHeartbeat
      <2>2. l \in {"live", "lapsed"}
          BY <1>1 DEF Binding
      <2>3. /\ binding' = [binding EXCEPT ![m] = binding'[m]]
            /\ binding'[m] = [b EXCEPT !.lease = l]
          BY <1>1, <2>1 DEF TypeOK
      <2>4. /\ binding'[m] \in Binding /\ binding'[m].status = b.status
            /\ binding'[m].confirmed = b.confirmed
          BY <1>1, <2>2, <2>3 DEF Binding
      <2> QED
          BY <1>1, <2>1, <2>3, <2>4
  <1>4. CASE CommitRelease(o) \/ CommitRevoke(o)
      <2> DEFINE s == Releasing(b.status)
      <2>1. /\ o.type \in {"release", "revoke"}
            /\ binding' = [binding EXCEPT ![m].status = s]
          BY <1>4 DEF CommitRelease, CommitRevoke
      <2>2. /\ s \in MountStatus /\ s # "absent"
            /\ b.status \in TerminalStatus => s = b.status
          BY <1>1 DEF Releasing, MountStatus, TerminalStatus
      <2>3. /\ binding' = [binding EXCEPT ![m] = binding'[m]]
            /\ binding'[m] = [b EXCEPT !.status = s]
          BY <1>1, <2>1 DEF TypeOK
      <2>4. /\ binding'[m] \in Binding /\ binding'[m].status = s
            /\ binding'[m].confirmed = b.confirmed
          BY <1>1, <2>2, <2>3 DEF Binding
      <2> QED
          BY <1>1, <2>1, <2>2, <2>3, <2>4
  <1> QED
      BY <1>2, <1>3, <1>4 DEF Commit

\* Queueing a true change of a binding that exists, or the create of one that
\* does not, preserves the invariant.
LEMMA QueueStep ==
    ASSUME IndInv, NEW o \in MountOperation, Enqueue(o),
           UNCHANGED <<binding, orch, gate, usable, user, createVars>>,
           o.type = "create" <=> binding[o.mount].status = "absent",
           o.type = "status" /\ o.status \in {"released", "revoked"} =>
               orch[o.mount].done
    PROVE  IndInv'
  <1>1. /\ pending' = pending \cup {o}
        /\ UNCHANGED <<binding, orch, gate, usable, user, readOnly, creating,
                       overtaken>>
      BY DEF Enqueue, createVars
  <1>2. TypeOK'
      BY <1>1 DEF IndInv, TypeOK
  <1>3. CreateFollowsAbsence'
      <2> SUFFICES ASSUME NEW m \in Mounts,
                          Operation(m, "create") \in pending'
                   PROVE  binding[m].status = "absent"
          BY <1>1 DEF IndInv, CreateFollowsAbsence, Operation
      <2>1. CASE Operation(m, "create") \in pending
          BY <2>1 DEF IndInv, CreateFollowsAbsence
      <2>2. CASE Operation(m, "create") = o
          BY <2>2, OperationType
      <2> QED
          BY <1>1, <2>1, <2>2
  <1>4. QueuedHasBinding' /\ QueuedIsHonest'
      BY <1>1 DEF IndInv, QueuedHasBinding, QueuedIsHonest
  <1>5. OrchestratorIsHonest' /\ ClearedForUse' /\ EvidenceIsHonest'
      BY <1>1 DEF IndInv, OrchestratorIsHonest, ClearedForUse, EvidenceIsHonest
  <1> QED
      BY <1>2, <1>3, <1>4, <1>5 DEF IndInv

\* A step of the orchestrator: it forgets no end, mounts nothing that has
\* ended and holds plans only of bindings that exist.
LEMMA OrchestratorStep ==
    ASSUME IndInv, NEW m \in Mounts, NEW r,
           r \in [plan: BOOLEAN, mounted: BOOLEAN, done: BOOLEAN],
           orch' = [orch EXCEPT ![m] = r],
           UNCHANGED <<binding, pending, gate, usable, user, createVars>>,
           orch[m].done => r.done,
           r.plan \/ r.mounted => binding[m].status # "absent",
           r.done => ~r.mounted
    PROVE  IndInv'
  <1>1. /\ orch'[m] = r /\ \A n \in Mounts \ {m} : orch'[n] = orch[n]
        /\ UNCHANGED <<binding, pending, gate, usable, user, readOnly, creating,
                       overtaken>>
      BY DEF IndInv, TypeOK, createVars
  <1>2. TypeOK'
      BY <1>1 DEF IndInv, TypeOK
  <1>3. CreateFollowsAbsence' /\ QueuedHasBinding' /\ ClearedForUse'
      BY <1>1 DEF IndInv, CreateFollowsAbsence, QueuedHasBinding, ClearedForUse,
         Operation
  <1>4. \A n \in Mounts : orch[n].done => orch'[n].done
      BY <1>1
  <1>5. QueuedIsHonest'
      <2>1. \A o \in pending : o.mount \in Mounts
          BY CreateOperation DEF IndInv, TypeOK
      <2> QED
          BY <1>1, <1>4, <2>1 DEF IndInv, QueuedIsHonest
  <1>6. OrchestratorIsHonest' /\ EvidenceIsHonest'
      BY <1>1, <1>4 DEF IndInv, OrchestratorIsHonest, EvidenceIsHonest
  <1> QED
      BY <1>2, <1>3, <1>5, <1>6 DEF IndInv

\* Every step preserves the inductive invariant.
LEMMA IndInvNext == IndInv /\ [Next]_vars => IndInv'
  <1> SUFFICES ASSUME IndInv, [Next]_vars PROVE IndInv'
      OBVIOUS
  <1>0. TypeOK
      BY DEF IndInv
  <1>1. ASSUME NEW m \in Mounts, RequestCreate(m) PROVE IndInv'
      <2>1. /\ Operation(m, "create") \in MountOperation
            /\ Operation(m, "create").mount = m
            /\ Operation(m, "create").type = "create"
          BY OperationType
      <2> QED
          BY <1>1, <2>1, QueueStep DEF RequestCreate
  <1>2. ASSUME NEW m \in Mounts, NEW t \in {"heartbeat", "release", "revoke"},
               RequestMutation(m, Operation(m, t))
        PROVE  IndInv'
      <2>1. /\ Operation(m, t) \in MountOperation
            /\ Operation(m, t).mount = m /\ Operation(m, t).type = t
          BY OperationType
      <2> QED
          BY <1>2, <2>1, QueueStep DEF RequestMutation, MutationAdmitted
  <1>3. ASSUME NEW m \in Mounts, NEW s \in Reports,
               RequestMutation(m, Report(m, s)),
               s \in {"released", "revoked"} => orch[m].done
        PROVE  IndInv'
      <2>1. /\ Report(m, s) \in MountOperation
            /\ Report(m, s).mount = m /\ Report(m, s).type = "status"
            /\ Report(m, s).status = s
          BY ReportType
      <2> QED
          BY <1>3, <2>1, QueueStep DEF RequestMutation, MutationAdmitted
  <1>4. ASSUME NEW m \in Mounts, ReadFences(m) PROVE IndInv'
      <2>1. /\ UNCHANGED <<binding, pending, orch, gate, usable, user, readOnly,
                           overtaken>>
            /\ creating' = creating \cup {m}
            /\ Operation(m, "create") \in pending
          BY <1>4 DEF ReadFences
      <2>2. TypeOK'
          BY <1>0, <2>1 DEF TypeOK
      <2>3. CreateFollowsAbsence'
          BY <2>1 DEF IndInv, CreateFollowsAbsence, Operation
      <2> QED
          BY <2>1, <2>2, <2>3 DEF IndInv, QueuedHasBinding, QueuedIsHonest,
             OrchestratorIsHonest, ClearedForUse, EvidenceIsHonest
  <1>5. ASSUME NEW m \in Mounts, CommitCreate(m) PROVE IndInv'
      <2> DEFINE c == Operation(m, "create")
      <2>1. /\ c \in pending /\ c \in MountOperation
            /\ c.mount = m /\ c.type = "create"
            /\ binding[m].status = "absent"
          BY <1>5, OperationType DEF CommitCreate, IndInv, CreateFollowsAbsence
      <2>2. /\ UNCHANGED <<orch, gate, usable, user, readOnly>>
            /\ pending' = pending \ {c} /\ creating' = creating \ {m}
            /\ overtaken' = IF FenceAdmits(m) THEN overtaken
                                             ELSE overtaken \cup {m}
          BY <1>5 DEF CommitCreate
      <2>3. /\ binding'[m].status = "issued" /\ binding'[m].confirmed = FALSE
            /\ \A n \in Mounts \ {m} : binding'[n] = binding[n]
            /\ binding' \in [Mounts -> Binding]
          <3>1. Issued \in Binding
              BY DEF Issued, Binding, MountStatus, Issuable
          <3>2. binding' = [binding EXCEPT ![m] = Issued]
              BY <1>5 DEF CommitCreate
          <3> QED
              BY <1>0, <3>1, <3>2 DEF TypeOK, Issued
      <2>4. TypeOK'
          BY <1>0, <2>2, <2>3 DEF TypeOK
      <2>5. CreateFollowsAbsence'
          <3> SUFFICES ASSUME NEW n \in Mounts
                       PROVE  /\ n \in creating' =>
                                     Operation(n, "create") \in pending'
                              /\ Operation(n, "create") \in pending' =>
                                     binding'[n].status = "absent"
              BY DEF CreateFollowsAbsence, Operation
          <3>1. CASE n = m
              BY <2>2, <3>1
          <3>2. CASE n # m
              <4>1. Operation(n, "create") # c
                  BY <2>1, <3>2, OperationType
              <4> QED
                  BY <2>2, <2>3, <3>2, <4>1 DEF IndInv, CreateFollowsAbsence
          <3> QED
              BY <3>1, <3>2
      <2>6. \A o \in pending' :
                o \in pending /\ o.mount \in Mounts /\ o.mount # m
          <3> SUFFICES ASSUME NEW o \in pending'
                       PROVE  o \in pending /\ o.mount \in Mounts /\ o.mount # m
              OBVIOUS
          <3>1. o \in pending /\ o # c /\ o \in MountOperation
              BY <1>0, <2>2 DEF TypeOK
          <3>2. CASE o.mount = m
              <4>1. o.type # "create"
                  BY <3>1, <3>2, CreateOperation
              <4> QED
                  BY <2>1, <3>1, <3>2, <4>1 DEF IndInv, QueuedHasBinding
          <3> QED
              BY <3>1, <3>2, CreateOperation
      <2>7. QueuedHasBinding' /\ QueuedIsHonest'
          BY <2>2, <2>3, <2>6 DEF IndInv, QueuedHasBinding, QueuedIsHonest
      <2>8. OrchestratorIsHonest' /\ EvidenceIsHonest'
          BY <2>2, <2>3 DEF IndInv, OrchestratorIsHonest, EvidenceIsHonest
      <2>9. ClearedForUse'
          <3>1. user.pc = "working" =>
                    m \in overtaken' \/ (user.kind = "restore" /\ m \in readOnly)
              BY <1>0, <2>2 DEF FenceAdmits, Fenced, TypeOK, Kinds
          <3> QED
              BY <2>2, <2>3, <3>1 DEF IndInv, ClearedForUse
      <2> QED
          BY <2>4, <2>5, <2>7, <2>8, <2>9 DEF IndInv
  <1>6. ASSUME NEW m \in Mounts, CreateRefused(m) PROVE IndInv'
      <2>1. /\ UNCHANGED <<binding, pending, orch, gate, usable, user, readOnly,
                           overtaken>>
            /\ creating' = creating \ {m}
          BY <1>6 DEF CreateRefused
      <2>2. TypeOK'
          BY <1>0, <2>1 DEF TypeOK
      <2>3. CreateFollowsAbsence'
          BY <2>1 DEF IndInv, CreateFollowsAbsence, Operation
      <2> QED
          BY <2>1, <2>2, <2>3 DEF IndInv, QueuedHasBinding, QueuedIsHonest,
             OrchestratorIsHonest, ClearedForUse, EvidenceIsHonest
  <1>7. ASSUME NEW o \in pending, Commit(o) PROVE IndInv'
      <2> DEFINE m == o.mount
      <2>1. /\ m \in Mounts /\ o.type # "create"
            /\ binding[m].status # "absent" /\ binding'[m].status # "absent"
            /\ binding[m].confirmed => binding'[m].confirmed
            /\ binding'[m].confirmed => orch[m].done
            /\ binding'[m] \in Binding
            /\ binding' = [binding EXCEPT ![m] = binding'[m]]
          <3>1. /\ m \in Mounts /\ o.type # "create"
                /\ binding[m].status # "absent"
              BY <1>0, <1>7, CommitEffect DEF IndInv, QueuedHasBinding
          <3>2. /\ binding'[m].status # "absent"
                /\ binding[m].confirmed => binding'[m].confirmed
                /\ binding'[m] \in Binding
                /\ binding' = [binding EXCEPT ![m] = binding'[m]]
              BY <1>0, <1>7, <3>1, CommitEffect
          <3>3. binding'[m].confirmed => orch[m].done
              <4>1. binding'[m].confirmed =>
                        \/ binding[m].confirmed
                        \/ o.type = "status" /\ o.status \in {"released", "revoked"}
                  BY <1>0, <1>7, CommitEffect
              <4> QED
                  BY <3>1, <4>1 DEF IndInv, EvidenceIsHonest, QueuedIsHonest
          <3> QED
              BY <3>1, <3>2, <3>3
      <2>2. /\ pending' = pending \ {o}
            /\ UNCHANGED <<orch, gate, usable, user, readOnly, creating, overtaken>>
          BY <1>7 DEF Commit, createVars
      <2>3. \A n \in Mounts \ {m} : binding'[n] = binding[n]
          BY <1>0, <2>1 DEF TypeOK
      <2>4. TypeOK'
          BY <1>0, <2>1, <2>2 DEF TypeOK
      <2>5. CreateFollowsAbsence'
          <3>1. \A n \in Mounts : Operation(n, "create") # o
              BY <2>1, OperationType
          <3>2. \A n \in Mounts : Operation(n, "create") \in pending => n # m
              BY <2>1 DEF IndInv, CreateFollowsAbsence
          <3> QED
              BY <2>2, <2>3, <3>1, <3>2 DEF IndInv, CreateFollowsAbsence, Operation
      <2>6. QueuedHasBinding'
          <3>1. \A p \in pending : p.mount \in Mounts
              BY <1>0, CreateOperation DEF TypeOK
          <3> QED
              BY <2>1, <2>2, <2>3, <3>1 DEF IndInv, QueuedHasBinding
      <2>7. QueuedIsHonest'
          BY <2>2 DEF IndInv, QueuedIsHonest
      <2>8. OrchestratorIsHonest' /\ EvidenceIsHonest'
          BY <2>1, <2>2, <2>3 DEF IndInv, OrchestratorIsHonest, EvidenceIsHonest
      <2>9. ClearedForUse'
          BY <2>1, <2>2, <2>3 DEF IndInv, ClearedForUse
      <2> QED
          BY <2>4, <2>5, <2>6, <2>7, <2>8, <2>9 DEF IndInv
  <1>8. ASSUME NEW m \in Mounts, GetPlan(m) PROVE IndInv'
      <2> DEFINE r == [orch[m] EXCEPT !.plan = TRUE]
      <2>1. /\ r \in [plan: BOOLEAN, mounted: BOOLEAN, done: BOOLEAN]
            /\ r.done = orch[m].done /\ r.mounted = orch[m].mounted
            /\ orch' = [orch EXCEPT ![m] = r]
          BY <1>0, <1>8 DEF GetPlan, TypeOK
      <2>2. binding[m].status # "absent"
          BY <1>8 DEF GetPlan, Freshness, Issuable
      <2> QED
          BY <1>8, <2>1, <2>2, OrchestratorStep DEF GetPlan, IndInv,
             OrchestratorIsHonest
  <1>9. ASSUME NEW m \in Mounts, Mount(m) PROVE IndInv'
      <2> DEFINE r == [orch[m] EXCEPT !.mounted = TRUE]
      <2>1. /\ r \in [plan: BOOLEAN, mounted: BOOLEAN, done: BOOLEAN]
            /\ r.done = orch[m].done /\ r.plan = orch[m].plan
            /\ orch' = [orch EXCEPT ![m] = r]
          BY <1>0, <1>9 DEF Mount, TypeOK
      <2>2. orch[m].plan /\ ~orch[m].done /\ binding[m].status # "absent"
          BY <1>9 DEF Mount, IndInv, OrchestratorIsHonest
      <2> QED
          BY <1>9, <2>1, <2>2, OrchestratorStep DEF Mount
  <1>10. ASSUME NEW m \in Mounts, Unmount(m) PROVE IndInv'
      <2> DEFINE r == [plan |-> FALSE, mounted |-> FALSE, done |-> TRUE]
      <2>1. /\ r \in [plan: BOOLEAN, mounted: BOOLEAN, done: BOOLEAN]
            /\ r.done /\ ~r.plan /\ ~r.mounted
            /\ orch' = [orch EXCEPT ![m] = r]
          BY <1>10 DEF Unmount
      <2> HIDE DEF r
      <2> QED
          BY <1>10, <2>1, OrchestratorStep DEF Unmount
  <1>11. ASSUME NEW m \in Mounts, LeaseLapses(m) PROVE IndInv'
      <2>1. \A n \in Mounts : /\ binding'[n].status = binding[n].status
                              /\ binding'[n].confirmed = binding[n].confirmed
          BY <1>0, <1>11 DEF LeaseLapses, TypeOK, Binding
      <2>2. UNCHANGED <<pending, orch, gate, usable, user, readOnly, creating,
                        overtaken>>
          BY <1>11 DEF LeaseLapses, createVars
      <2>3. TypeOK'
          BY <1>0, <1>11, <2>2 DEF LeaseLapses, TypeOK, Binding
      <2>4. \A o \in pending : o.mount \in Mounts
          BY <1>0, CreateOperation DEF TypeOK
      <2>5. CreateFollowsAbsence' /\ QueuedHasBinding' /\ QueuedIsHonest'
          BY <2>1, <2>2, <2>4 DEF IndInv, CreateFollowsAbsence,
             QueuedHasBinding, QueuedIsHonest, Operation
      <2>6. OrchestratorIsHonest' /\ ClearedForUse' /\ EvidenceIsHonest'
          BY <2>1, <2>2 DEF IndInv, OrchestratorIsHonest, ClearedForUse,
             EvidenceIsHonest
      <2> QED
          BY <2>3, <2>5, <2>6 DEF IndInv
  <1>12. CASE (\E k \in Kinds : TakeFence(k)) \/ EvaluateGate \/ FinishUse
      <2>1. UNCHANGED <<binding, pending, orch, gate, readOnly, creating,
                        overtaken>>
          BY <1>12 DEF TakeFence, EvaluateGate, FinishUse, createVars
      <2>2. /\ user' \in [kind: Kinds, pc: {"idle", "fenced", "working", "stuck"}]
            /\ usable' = usable \/ usable' = (usable /\ user.kind = "restore")
          <3>1. CASE \E k \in Kinds : TakeFence(k)
              BY <3>1 DEF TakeFence
          <3>2. CASE EvaluateGate
              BY <1>0, <3>2 DEF EvaluateGate, TypeOK
          <3>3. CASE FinishUse
              BY <1>0, <3>3 DEF FinishUse, TypeOK
          <3> QED
              BY <1>12, <3>1, <3>2, <3>3
      <2>3. TypeOK'
          <3>1. usable' \in BOOLEAN
              BY <1>0, <2>2 DEF TypeOK
          <3> QED
              BY <1>0, <2>1, <2>2, <3>1 DEF TypeOK
      <2>4. ClearedForUse'
          <3> SUFFICES ASSUME user'.pc = "working", NEW m \in Mounts
                       PROVE  \/ binding[m].status = "absent"
                              \/ user'.kind = "restore" /\ m \in readOnly
                              \/ m \in overtaken
                              \/ binding[m].confirmed
              BY <2>1 DEF ClearedForUse
          <3>1. /\ Blockers(user.kind) \subseteq {"none"}
                /\ user'.kind = user.kind
              BY <1>0, <1>12 DEF TakeFence, EvaluateGate, FinishUse, TypeOK
          <3>2. MountBlocker(user.kind, m) = "none"
              BY <3>1 DEF Blockers
          <3> QED
              BY <3>1, <3>2 DEF MountBlocker
      <2> QED
          BY <2>1, <2>3, <2>4 DEF IndInv, CreateFollowsAbsence,
             QueuedHasBinding, QueuedIsHonest, OrchestratorIsHonest,
             EvidenceIsHonest, Operation
  <1>13. CASE CloseGate \/ OpenGate \/ DisableMetadata \/ UNCHANGED vars
      <2>1. UNCHANGED <<binding, pending, orch, user, readOnly, creating,
                        overtaken>>
          BY <1>13 DEF CloseGate, OpenGate, DisableMetadata, vars, createVars
      <2>2. gate' \in {"open", "closed"} /\ usable' \in BOOLEAN
          BY <1>0, <1>13 DEF CloseGate, OpenGate, DisableMetadata, vars, TypeOK
      <2>3. TypeOK'
          BY <1>0, <2>1, <2>2 DEF TypeOK
      <2> QED
          BY <2>1, <2>3 DEF IndInv, CreateFollowsAbsence,
             QueuedHasBinding, QueuedIsHonest, OrchestratorIsHonest,
             ClearedForUse, EvidenceIsHonest, Operation
  <1> QED
      BY <1>1, <1>2, <1>3, <1>4, <1>5, <1>6, <1>7, <1>8, <1>9, <1>10, <1>11,
         <1>12, <1>13 DEF Next, Release, Observe, ReportReleased

\* The inductive invariant holds in every reachable state.
THEOREM IndInvAlways == Spec => []IndInv
  <1>1. Init => IndInv
      BY InitIndInv
  <1>2. IndInv /\ [Next]_vars => IndInv'
      BY IndInvNext
  <1> QED
      BY <1>1, <1>2, PTL DEF Spec

\* Type correctness of the bindings, of the queue and of the gates.
THEOREM TypeCorrect == Spec => []TypeOK
  <1>1. IndInv => TypeOK
      BY DEF IndInv
  <1> QED
      BY <1>1, IndInvAlways, PTL

\* confirmed_unmounted_at is never written of a mount that exists or can come
\* back, in whatever order the reports are committed.
THEOREM EvidenceIsHonestAlways == Spec => []EvidenceIsHonest
  <1>1. IndInv => EvidenceIsHonest
      BY DEF IndInv
  <1> QED
      BY <1>1, IndInvAlways, PTL

\* An operation that has the repo to itself shares it with no mount that was
\* not overtaken by its fence: what is mounted has a binding and no evidence
\* of its end, and the gate lets no such binding pass.
THEOREM NoMountDuringExclusiveUseAlways == Spec => []NoMountDuringExclusiveUse
  <1>1. IndInv => NoMountDuringExclusiveUse
      BY DEF IndInv, NoMountDuringExclusiveUse, OrchestratorIsHonest,
         ClearedForUse, EvidenceIsHonest
  <1> QED
      BY <1>1, IndInvAlways, PTL

-------------------------------------------------------------------------------
(* The refinement: the bindings together are one RepoSession.              *)

\* A binding is out of the way of a lifecycle operation when it is absent or
\* confirmed to have ended.
OutOfTheWay(m) ==
    \/ binding[m].status = "absent"
    \/ binding[m].status \in TerminalStatus /\ binding[m].confirmed

LEMMA BlockerOf ==
    ASSUME NEW m \in Mounts
    PROVE  /\ MountBlocker("lifecycle", m) \in {"none", "active", "stale"}
           /\ MountBlocker("lifecycle", m) = "none" <=> OutOfTheWay(m)
  BY DEF OutOfTheWay, MountBlocker, TerminalStatus

\* The session is none exactly when every binding is out of the way, and
\* active as soon as one lease is live.
SessionFacts ==
    /\ SessionOf \in {"none", "active", "stale"}
    /\ SessionOf = "none" <=> \A m \in Mounts : OutOfTheWay(m)
    /\ (\E m \in Mounts : MountBlocker("lifecycle", m) = "active") =>
           SessionOf = "active"

LEMMA SessionHasFacts == SessionFacts
  <1> DEFINE B == Blockers("lifecycle")
  <1>1. B \subseteq {"none", "active", "stale"}
      BY BlockerOf DEF Blockers
  <1>2. "active" \in B <=> \E m \in Mounts :
                              MountBlocker("lifecycle", m) = "active"
      BY DEF Blockers
  <1>3. (\A m \in Mounts : OutOfTheWay(m)) <=> B \subseteq {"none"}
      BY BlockerOf DEF Blockers
  <1>4. SessionOf = IF "active" \in B THEN "active"
                    ELSE IF "stale" \in B THEN "stale" ELSE "none"
      BY DEF SessionOf
  <1> HIDE DEF B
  <1>5. SessionOf \in {"none", "active", "stale"}
      BY <1>4
  <1>6. SessionOf = "none" <=> B \subseteq {"none"}
      BY <1>1, <1>4
  <1>7. "active" \in B => SessionOf = "active"
      BY <1>4
  <1> QED
      BY <1>2, <1>3, <1>5, <1>6, <1>7 DEF SessionFacts

LEMMA SessionHasFactsNext == SessionFacts'
  BY SessionHasFacts, PTL

\* The bindings implement the session that RepoLifecycle counts on: only a
\* create statement leads out of the state without a session, one that began
\* while the repo was usable and not fenced, and only into a live session of a
\* repo that is still usable.
THEOREM ImplementsRepoSessionAlways == Spec => ImplementsRepoSession
  <1>1. Init => Session!Init
      <2> SUFFICES ASSUME Init PROVE Session!Init
          OBVIOUS
      <2>1. \A m \in Mounts : OutOfTheWay(m)
          BY DEF Init, OutOfTheWay
      <2>2. SessionOf = "none"
          BY <2>1, SessionHasFacts DEF SessionFacts
      <2>3. (creating # {}) = FALSE
          BY DEF Init
      <2> QED
          BY <2>2, <2>3 DEF Session!Init
  <1>2. IndInv /\ IndInv' /\ [Next]_vars => [Session!Next]_(Session!vars)
      <2> SUFFICES ASSUME IndInv, IndInv', [Next]_vars
                   PROVE  Session!Next
          OBVIOUS
      <2>1. /\ TypeOK /\ TypeOK' /\ SessionFacts /\ SessionFacts'
          BY SessionHasFacts, SessionHasFactsNext DEF IndInv
      <2>2. ASSUME UNCHANGED <<binding, readOnly>> PROVE SessionOf' = SessionOf
          BY <2>2 DEF SessionOf, Blockers, MountBlocker
      <2>3. ASSUME NEW m \in Mounts, ReadFences(m) PROVE Session!Next
          <3>1. /\ usable /\ ~Fenced("lifecycle")
                /\ creating' # {} /\ UNCHANGED <<binding, readOnly>>
              BY <2>3 DEF ReadFences, CreateAdmitted, FenceAdmits
          <3>2. (creating # {})' = TRUE /\ SessionOf' = SessionOf
              BY <2>2, <3>1
          <3> QED
              BY <3>1, <3>2 DEF Session!Next, Session!Begin
      <2>4. ASSUME NEW m \in Mounts, CommitCreate(m) PROVE Session!Next
          <3>1. creating # {} /\ usable
              BY <2>4 DEF CommitCreate
          <3>2. binding'[m] = Issued
              BY <2>1, <2>4 DEF CommitCreate, TypeOK
          <3>3. MountBlocker("lifecycle", m)' = "active"
              BY <3>2 DEF MountBlocker, Issued, TerminalStatus
          <3>4. SessionOf' = "active"
              BY <2>1, <3>3 DEF SessionFacts
          <3>5. (creating # {})' \in BOOLEAN
              OBVIOUS
          <3> QED
              BY <3>1, <3>4, <3>5 DEF Session!Next, Session!Open
      <2>5. ASSUME NEW m \in Mounts, CreateRefused(m) PROVE Session!Next
          <3>1. creating # {} /\ UNCHANGED <<binding, readOnly>>
              BY <2>5 DEF CreateRefused
          <3>2. SessionOf' = SessionOf /\ (creating # {})' \in BOOLEAN
              BY <2>2, <3>1
          <3> QED
              BY <3>1, <3>2 DEF Session!Next, Session!GiveUp
      <2>6. ASSUME creating' = creating,
                   (\A m \in Mounts : OutOfTheWay(m)) =>
                       \A m \in Mounts : OutOfTheWay(m)'
            PROVE  Session!Next
          <3>1. (creating # {})' = (creating # {})
              BY <2>6
          <3>2. CASE SessionOf = "none"
              <4>1. SessionOf' = SessionOf
                  BY <2>1, <2>6, <3>2 DEF SessionFacts
              <4> QED
                  BY <3>1, <4>1 DEF Session!Next
          <3>3. CASE SessionOf # "none"
              BY <2>1, <3>1, <3>3 DEF Session!Next, Session!Change, SessionFacts
          <3> QED
              BY <3>2, <3>3
      <2>7. ASSUME NEW o \in pending, Commit(o) PROVE Session!Next
          <3>1. /\ o.mount \in Mounts
                /\ binding' = [binding EXCEPT ![o.mount] = binding'[o.mount]]
                /\ binding[o.mount].status \in TerminalStatus =>
                       /\ binding'[o.mount].status \in TerminalStatus
                       /\ binding'[o.mount].confirmed =
                              binding[o.mount].confirmed
                /\ o.type # "create"
              BY <2>1, <2>7, CommitEffect
          <3>2. binding[o.mount].status # "absent"
              BY <3>1 DEF IndInv, QueuedHasBinding
          <3>3. \A n \in Mounts \ {o.mount} : binding'[n] = binding[n]
              BY <2>1, <3>1 DEF TypeOK
          <3>4. creating' = creating
              BY <2>7 DEF Commit, createVars
          <3> QED
              BY <2>6, <3>1, <3>2, <3>3, <3>4 DEF OutOfTheWay
      <2>8. ASSUME NEW m \in Mounts, LeaseLapses(m) PROVE Session!Next
          <3>1. \A n \in Mounts : /\ binding'[n].status = binding[n].status
                                  /\ binding'[n].confirmed = binding[n].confirmed
              BY <2>1, <2>8 DEF LeaseLapses, TypeOK, Binding
          <3>2. creating' = creating
              BY <2>8 DEF LeaseLapses, createVars
          <3> QED
              BY <2>6, <3>1, <3>2 DEF OutOfTheWay
      <2>9. CASE UNCHANGED <<binding, creating>>
          BY <2>6, <2>9 DEF OutOfTheWay
      <2>10. \/ UNCHANGED <<binding, creating>>
             \/ \E m \in Mounts : \/ ReadFences(m) \/ CommitCreate(m)
                                  \/ CreateRefused(m) \/ LeaseLapses(m)
             \/ \E o \in pending : Commit(o)
          BY DEF Next, vars, createVars, RequestCreate, Release,
             RequestMutation, GetPlan, Mount, Unmount, Observe,
             ReportReleased, TakeFence, EvaluateGate, FinishUse, CloseGate,
             OpenGate, DisableMetadata
      <2> QED
          BY <2>3, <2>4, <2>5, <2>7, <2>8, <2>9, <2>10
  <1> QED
      BY <1>1, <1>2, IndInvAlways, PTL DEF Spec, ImplementsRepoSession, Session!Spec
===============================================================================

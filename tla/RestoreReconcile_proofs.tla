------------------------ MODULE RestoreReconcile_proofs -----------------------
(***************************************************************************)
(* The reconciliation run, proved for any number of repos and workers.     *)
(*                                                                         *)
(* The inductive invariant says what a pass that blocked nothing knows: no *)
(* target it went past has to be upheld as purged.  The targets do not     *)
(* change under a pass, because the run exists before a pass can begin,    *)
(* and a pass that did block something did so in a run that is blocked.    *)
(* While a run is not blocked only lifecycle operations change a repo, so  *)
(* every snapshot and every clean observation, however old, is still right *)
(* of the repos no lifecycle operation has moved.                          *)
(***************************************************************************)
EXTENDS RestoreReconcile, TLAPS

\* A pass runs only while there is a run, and has blocked only a blocked run.
PassBelongsToRun ==
    \A w \in Workers :
        /\ pass[w].pc # "idle" => mode # "none"
        /\ pass[w].blocked # 0 => mode = "blocked_operator_intervention"

PassIsAtTarget ==
    \A w \in Workers :
        /\ pass[w].pc \in {"observing", "mismatch", "committing"} =>
               pass[w].next \in Repos
        /\ pass[w].pc = "completing" => pass[w].next = 0 /\ pass[w].blocked = 0

PassedTargetsAreKept ==
    \A w \in Workers, r \in Repos :
        /\ pass[w].pc # "idle"
        /\ pass[w].blocked = 0
        /\ pass[w].next = 0 \/ r < pass[w].next
        => expected[r] # "purged"

\* Only the commit of a mismatch audits, and it blocks the run.
AuditedOnlyWhenBlocked ==
    mode # "blocked_operator_intervention" => audited = {}

NothingSeenBefore == mode = "none" => \A r \in Repos : seen[r] = "none"

Unblocked == mode \in {"reconciling", "completed"}

CleanIsTrue ==
    Unblocked => \A r \in Repos :
        seen[r] = "clean" => status[r] = expected[r] \/ r \in moved

SnapshotIsTrue ==
    Unblocked => \A w \in Workers :
        pass[w].pc \in {"observing", "committing"} =>
            pass[w].saw = status[pass[w].next] \/ pass[w].next \in moved

CompletingIsTrue ==
    Unblocked => \A w \in Workers : pass[w].pc = "completing" =>
        \A r \in Repos : status[r] = expected[r] \/ r \in moved

PassInv == PassBelongsToRun /\ PassIsAtTarget /\ PassedTargetsAreKept

EvidenceInv ==
    NothingSeenBefore /\ CleanIsTrue /\ SnapshotIsTrue /\ CompletingIsTrue

RunInv ==
    /\ PurgedTargetBlocks
    /\ AuditedOnlyWhenBlocked
    /\ BlockIsExplained
    /\ CompletionIsTrue

IndInv == TypeOK /\ PassInv /\ EvidenceInv /\ RunInv

USE ReconcileAssumption

\* The target after r: the next one, or 0 after the last.
LEMMA FollowingTarget ==
    ASSUME NEW r \in Repos
    PROVE  (r + 1) % (LastRepo + 1) = IF r = LastRepo THEN 0 ELSE r + 1
  BY DEF Repos

\* The initial state satisfies the inductive invariant.
LEMMA InitIndInv == Init => IndInv
  BY DEF Init, IndInv, PassInv, EvidenceInv, RunInv, TypeOK, PassBelongsToRun,
         PassIsAtTarget, PassedTargetsAreKept, NothingSeenBefore, CleanIsTrue,
         SnapshotIsTrue, CompletingIsTrue, Unblocked, PurgedTargetBlocks,
         AuditedOnlyWhenBlocked, BlockIsExplained, CompletionIsTrue,
         PassRecord, IdlePass, Settled, Status, Repos

LEMMA IdlePassType == IdlePass \in PassRecord
  BY DEF IdlePass, PassRecord, Status, Settled

\* What going on to the next target makes of a pass.
LEMMA NextTargetIs ==
    ASSUME NEW p \in PassRecord, p.next \in Repos
    PROVE  /\ NextTarget(p) \in PassRecord
           /\ NextTarget(p).pc = "listed"
           /\ NextTarget(p).next = IF p.next = LastRepo THEN 0 ELSE p.next + 1
           /\ NextTarget(p).blocked = p.blocked
  <1>1. (p.next + 1) % (LastRepo + 1)
            = IF p.next = LastRepo THEN 0 ELSE p.next + 1
      BY FollowingTarget
  <1>2. (IF p.next = LastRepo THEN 0 ELSE p.next + 1) \in 0..LastRepo
      BY DEF Repos
  <1> QED
      BY <1>1, <1>2 DEF NextTarget, PassRecord

\* Type correctness is preserved by every step.  That a pass never counts
\* more than one blocked target is what bounds its counter.
LEMMA TypeNext == IndInv /\ [Next]_vars => TypeOK'
  <1> SUFFICES ASSUME IndInv, [Next]_vars PROVE TypeOK'
      OBVIOUS
  <1> USE IdlePassType
  <1>0. TypeOK
      BY DEF IndInv
  <1>1. CASE StartRun
      BY <1>0, <1>1 DEF StartRun, TypeOK
  <1>2. ASSUME NEW r \in Repos, CommitLifecycle(r) PROVE TypeOK'
      BY <1>0, <1>2 DEF CommitLifecycle, TypeOK
  <1>3. ASSUME NEW w \in Workers, Begin(w) PROVE TypeOK'
      <2>1. /\ IdlePass.blocked = 0 /\ IdlePass.saw \in Status
            /\ 1 \in 0..LastRepo
          BY DEF IdlePass, Status, Settled
      <2>2. [IdlePass EXCEPT !.pc = "listed", !.next = 1] \in PassRecord
          BY <2>1, IdlePassType DEF PassRecord
      <2> QED
          BY <1>0, <1>3, <2>2 DEF Begin, TypeOK
  <1>4. ASSUME NEW w \in Workers,
               Look(w, "listed", "observing") \/ BeginMismatch(w)
        PROVE  TypeOK'
      <2>1. PICK to \in {"observing", "committing"} :
                \E from \in {"listed", "mismatch"} : Look(w, from, to)
          BY <1>4 DEF BeginMismatch
      <2> DEFINE p == [pass[w] EXCEPT !.pc = to, !.saw = status[pass[w].next]]
      <2>2. pass[w] \in PassRecord /\ pass[w].next \in Repos
          BY <1>0, <2>1 DEF Look, TypeOK
      <2>3. p \in PassRecord
          BY <1>0, <2>2 DEF PassRecord, TypeOK
      <2>4. pass' = [pass EXCEPT ![w] = p]
          BY <1>0, <2>1 DEF Look, TypeOK
      <2> HIDE DEF p
      <2> QED
          BY <1>0, <2>1, <2>3, <2>4 DEF Look, TypeOK
  <1>5. ASSUME NEW w \in Workers, ObserveTarget(w) PROVE TypeOK'
      <2>1. pass[w] \in PassRecord /\ pass[w].next \in Repos
          BY <1>0, <1>5 DEF ObserveTarget, TypeOK, IndInv, PassInv, PassIsAtTarget
      <2>2. [pass[w] EXCEPT !.pc = "mismatch"] \in PassRecord
          BY <2>1 DEF PassRecord
      <2>3. pass' \in [Workers -> PassRecord]
          BY <1>0, <1>5, <2>1, <2>2, NextTargetIs DEF ObserveTarget, TypeOK
      <2>4. seen' \in [Repos -> {"none", "clean", "mismatch"}]
          BY <1>0, <1>5 DEF ObserveTarget, TypeOK
      <2> QED
          BY <1>0, <1>5, <2>3, <2>4 DEF ObserveTarget, TypeOK
  <1>6. ASSUME NEW w \in Workers, CommitMismatch(w) PROVE TypeOK'
      <2> DEFINE p == Counted(pass[w])
      <2>1. /\ pass[w] \in PassRecord /\ pass[w].next \in Repos
            /\ pass[w].blocked = 0
          BY <1>0, <1>6 DEF CommitMismatch, CanCommit, TypeOK, IndInv, PassInv,
             PassIsAtTarget, PassBelongsToRun
      <2>2. p \in PassRecord /\ p.next \in Repos
          BY <2>1 DEF PassRecord, Counted
      <2>3. pass' = [pass EXCEPT ![w] = IF Affected(pass[w].next, pass[w].saw)
                                        THEN NextTarget(p) ELSE IdlePass]
          BY <1>0, <1>6 DEF CommitMismatch, TypeOK
      <2>4. pass' \in [Workers -> PassRecord]
          BY <1>0, <2>2, <2>3, NextTargetIs DEF TypeOK
      <2>5. status' \in [Repos -> Status] /\ audited' \subseteq Repos
          BY <1>0, <1>6, <2>1 DEF CommitMismatch, Marked, TypeOK, Status
      <2>6. seen' \in [Repos -> {"none", "clean", "mismatch"}]
          BY <1>0, <1>6 DEF CommitMismatch, TypeOK
      <2> QED
          BY <1>0, <1>6, <2>4, <2>5, <2>6 DEF CommitMismatch, ModeAfterMismatch,
             TypeOK
  <1>7. ASSUME NEW w \in Workers,
               CommitFails(w) \/ RefuseEvidence(w) \/ CompleteRun(w) \/ Stop(w)
        PROVE  TypeOK'
      BY <1>0, <1>7 DEF CommitFails, RefuseEvidence, CompleteRun, Stop, TypeOK
  <1>8. ASSUME NEW w \in Workers, BeginComplete(w) PROVE TypeOK'
      <2>1. [pass[w] EXCEPT !.pc = "completing"] \in PassRecord
          BY <1>0 DEF TypeOK, PassRecord
      <2> QED
          BY <1>0, <1>8, <2>1 DEF BeginComplete, TypeOK
  <1>9. CASE UNCHANGED vars
      BY <1>0, <1>9 DEF vars, TypeOK
  <1> QED
      BY <1>1, <1>2, <1>3, <1>4, <1>5, <1>6, <1>7, <1>8, <1>9 DEF Next, PassStep

\* A step that only ends passes changes nothing the invariant is about.
LEMMA IdlingKeeps ==
    ASSUME IndInv, NEW w \in Workers,
           pass' = [pass EXCEPT ![w] = IdlePass],
           UNCHANGED <<status, mode, expected, seen, audited, moved>>
    PROVE  PassInv' /\ EvidenceInv' /\ RunInv'
  <1>1. pass \in [Workers -> PassRecord]
      BY DEF IndInv, TypeOK
  <1>2. PassInv'
      BY <1>1 DEF IndInv, PassInv, PassBelongsToRun, PassIsAtTarget,
         PassedTargetsAreKept, IdlePass
  <1>3. EvidenceInv'
      BY <1>1 DEF IndInv, EvidenceInv, NothingSeenBefore, CleanIsTrue,
         SnapshotIsTrue, CompletingIsTrue, Unblocked, IdlePass
  <1>4. RunInv'
      BY DEF IndInv, RunInv, PurgedTargetBlocks, AuditedOnlyWhenBlocked,
         BlockIsExplained, CompletionIsTrue
  <1> QED
      BY <1>2, <1>3, <1>4

\* Every step preserves the inductive invariant.
LEMMA IndInvNext == IndInv /\ [Next]_vars => IndInv'
  <1> SUFFICES ASSUME IndInv, [Next]_vars PROVE IndInv'
      OBVIOUS
  <1>0. TypeOK /\ TypeOK'
      BY TypeNext DEF IndInv
  <1> SUFFICES PassInv' /\ EvidenceInv' /\ RunInv'
      BY <1>0 DEF IndInv
  <1> USE DEF Unblocked
  <1>1. CASE StartRun
      <2>1. \A w \in Workers : pass[w].pc = "idle" /\ pass[w].blocked = 0
          BY <1>1 DEF StartRun, IndInv, PassInv, PassBelongsToRun
      <2>2. PassInv'
          BY <1>1, <2>1 DEF StartRun, PassInv, PassBelongsToRun, PassIsAtTarget,
             PassedTargetsAreKept
      <2>3. EvidenceInv'
          BY <1>1, <2>1 DEF StartRun, IndInv, EvidenceInv, NothingSeenBefore,
             CleanIsTrue, SnapshotIsTrue, CompletingIsTrue
      <2>4. RunInv'
          BY <1>1 DEF StartRun, IndInv, RunInv, PurgedTargetBlocks,
             AuditedOnlyWhenBlocked, BlockIsExplained, CompletionIsTrue
      <2> QED
          BY <2>2, <2>3, <2>4
  <1>2. ASSUME NEW r \in Repos, CommitLifecycle(r)
        PROVE  PassInv' /\ EvidenceInv' /\ RunInv'
      <2>1. /\ moved' = moved \cup {r}
            /\ \A q \in Repos \ {r} : status'[q] = status[q]
            /\ UNCHANGED <<mode, expected, seen, audited, pass>>
          BY <1>0, <1>2 DEF CommitLifecycle, TypeOK
      <2>2. PassInv'
          BY <2>1 DEF IndInv, PassInv, PassBelongsToRun, PassIsAtTarget,
             PassedTargetsAreKept
      <2>3. EvidenceInv'
          BY <2>1 DEF IndInv, EvidenceInv, NothingSeenBefore, CleanIsTrue,
             SnapshotIsTrue, CompletingIsTrue, PassInv, PassIsAtTarget
      <2>4. \A q \in Repos :
                status[q] \in {"purged", "operator_intervention_required"}
                => status'[q] = status[q]
          BY <1>0, <1>2 DEF CommitLifecycle, LifecycleMoves, TypeOK
      <2>5. RunInv'
          BY <2>1, <2>4 DEF IndInv, RunInv, PurgedTargetBlocks,
             AuditedOnlyWhenBlocked, BlockIsExplained, CompletionIsTrue
      <2> QED
          BY <2>2, <2>3, <2>5
  <1>3. ASSUME NEW w \in Workers, Begin(w)
        PROVE  PassInv' /\ EvidenceInv' /\ RunInv'
      <2>1. /\ pass'[w].pc = "listed" /\ pass'[w].next = 1
            /\ pass'[w].blocked = 0
            /\ \A v \in Workers \ {w} : pass'[v] = pass[v]
            /\ mode = "reconciling"
            /\ UNCHANGED <<status, mode, expected, seen, audited, moved>>
          BY <1>0, <1>3 DEF Begin, IdlePass, TypeOK
      <2>2. PassInv'
          BY <2>1 DEF IndInv, PassInv, PassBelongsToRun, PassIsAtTarget,
             PassedTargetsAreKept, Repos
      <2>3. EvidenceInv'
          BY <2>1 DEF IndInv, EvidenceInv, NothingSeenBefore, CleanIsTrue,
             SnapshotIsTrue, CompletingIsTrue
      <2>4. RunInv'
          BY <2>1 DEF IndInv, RunInv, PurgedTargetBlocks,
             AuditedOnlyWhenBlocked, BlockIsExplained, CompletionIsTrue
      <2> QED
          BY <2>2, <2>3, <2>4
  <1>4. ASSUME NEW w \in Workers,
               Look(w, "listed", "observing") \/ BeginMismatch(w)
        PROVE  PassInv' /\ EvidenceInv' /\ RunInv'
      <2>1. PICK to \in {"observing", "committing"} :
                \E from \in {"listed", "mismatch"} : Look(w, from, to)
          BY <1>4 DEF BeginMismatch
      <2>2. /\ pass[w].pc \in {"listed", "mismatch"} /\ pass[w].next \in Repos
            /\ pass'[w].pc \in {"observing", "committing"}
            /\ pass'[w].next = pass[w].next
            /\ pass'[w].blocked = pass[w].blocked
            /\ pass'[w].saw = status[pass[w].next]
            /\ \A v \in Workers \ {w} : pass'[v] = pass[v]
            /\ UNCHANGED <<status, mode, expected, seen, audited, moved>>
          BY <1>0, <2>1 DEF Look, TypeOK, PassRecord
      <2>3. PassInv'
          BY <2>2 DEF IndInv, PassInv, PassBelongsToRun, PassIsAtTarget,
             PassedTargetsAreKept
      <2>4. EvidenceInv'
          BY <2>2 DEF IndInv, EvidenceInv, NothingSeenBefore, CleanIsTrue,
             SnapshotIsTrue, CompletingIsTrue
      <2>5. RunInv'
          BY <2>2 DEF IndInv, RunInv, PurgedTargetBlocks,
             AuditedOnlyWhenBlocked, BlockIsExplained, CompletionIsTrue
      <2> QED
          BY <2>3, <2>4, <2>5
  <1>5. ASSUME NEW w \in Workers, ObserveTarget(w)
        PROVE  PassInv' /\ EvidenceInv' /\ RunInv'
      <2> DEFINE r == pass[w].next
                 saw == pass[w].saw
      <2>1. /\ r \in Repos /\ pass[w].pc = "observing"
            /\ pass[w] \in PassRecord
            /\ UNCHANGED <<status, mode, expected, audited, moved>>
            /\ \A v \in Workers \ {w} : pass'[v] = pass[v]
            /\ seen' = [seen EXCEPT ![r] = IF Matches(r, saw) THEN "clean"
                                                              ELSE "mismatch"]
          BY <1>0, <1>5 DEF ObserveTarget, TypeOK, IndInv, PassInv, PassIsAtTarget
      <2>2. /\ pass'[w].pc \in {"mismatch", "listed"}
            /\ pass'[w].blocked = pass[w].blocked
            /\ pass'[w].pc = "mismatch" => pass'[w].next = r
            /\ pass'[w].pc = "listed" =>
                   /\ ~DecidesMismatch(r, saw)
                   /\ pass'[w].next = IF r = LastRepo THEN 0 ELSE r + 1
          <3>1. CASE DecidesMismatch(r, saw)
              <4>1. pass'[w] = [pass[w] EXCEPT !.pc = "mismatch"]
                  BY <1>0, <1>5, <3>1 DEF ObserveTarget, TypeOK
              <4> QED
                  BY <2>1, <4>1 DEF PassRecord
          <3>2. CASE ~DecidesMismatch(r, saw)
              <4>1. pass'[w] = NextTarget(pass[w])
                  BY <1>0, <1>5, <3>2 DEF ObserveTarget, TypeOK
              <4> QED
                  BY <2>1, <3>2, <4>1, NextTargetIs
          <3> QED
              BY <3>1, <3>2
      <2>3. PassBelongsToRun' /\ PassIsAtTarget'
          BY <2>1, <2>2 DEF IndInv, PassInv, PassBelongsToRun, PassIsAtTarget
      <2>4. ASSUME NEW q \in Repos, pass'[w].blocked = 0,
                   pass'[w].next = 0 \/ q < pass'[w].next
            PROVE  expected[q] # "purged"
          <3>1. q < r => expected[q] # "purged"
              BY <2>1, <2>2, <2>4 DEF IndInv, PassInv, PassedTargetsAreKept
          <3>2. CASE pass'[w].pc = "mismatch"
              BY <2>1, <2>2, <2>4, <3>1, <3>2 DEF Repos
          <3>3. CASE pass'[w].pc = "listed"
              <4>1. q = r \/ q < r
                  BY <2>1, <2>2, <2>4, <3>3 DEF Repos
              <4> QED
                  BY <2>2, <3>1, <3>3, <4>1 DEF DecidesMismatch
          <3> QED
              BY <2>2, <3>2, <3>3
      <2>5. PassedTargetsAreKept'
          BY <2>1, <2>4 DEF IndInv, PassInv, PassedTargetsAreKept
      <2>6. NothingSeenBefore' /\ SnapshotIsTrue' /\ CompletingIsTrue'
          BY <2>1, <2>2 DEF IndInv, EvidenceInv, PassInv, PassBelongsToRun,
             NothingSeenBefore, SnapshotIsTrue, CompletingIsTrue
      <2>7. CleanIsTrue'
          BY <1>0, <2>1 DEF IndInv, EvidenceInv, CleanIsTrue, SnapshotIsTrue,
             Matches, TypeOK
      <2>8. RunInv'
          BY <2>1 DEF IndInv, RunInv, PurgedTargetBlocks,
             AuditedOnlyWhenBlocked, BlockIsExplained, CompletionIsTrue
      <2> QED
          BY <2>3, <2>5, <2>6, <2>7, <2>8 DEF PassInv, EvidenceInv
  <1>6. ASSUME NEW w \in Workers, CommitMismatch(w)
        PROVE  PassInv' /\ EvidenceInv' /\ RunInv'
      <2> DEFINE r == pass[w].next
                 saw == pass[w].saw
                 p == Counted(pass[w])
      <2>1. /\ r \in Repos /\ mode = "reconciling" /\ pass[w].blocked = 0
            /\ mode' = "blocked_operator_intervention"
            /\ UNCHANGED <<expected, moved>>
            /\ \A v \in Workers \ {w} : pass'[v] = pass[v]
          BY <1>0, <1>6 DEF CommitMismatch, CanCommit, ModeAfterMismatch, IndInv,
             PassInv, PassIsAtTarget, PassBelongsToRun, TypeOK
      <2>2. \/ pass'[w].pc = "listed" /\ pass'[w].blocked = 1
            \/ pass'[w].pc = "idle" /\ pass'[w].blocked = 0
          <3>1. p \in PassRecord /\ p.next \in Repos /\ p.blocked = 1
              BY <1>0, <2>1 DEF TypeOK, PassRecord, Counted
          <3>2. pass'[w] = IF Affected(r, saw) THEN NextTarget(p) ELSE IdlePass
              BY <1>0, <1>6 DEF CommitMismatch, TypeOK
          <3> HIDE DEF p
          <3> QED
              BY <3>1, <3>2, NextTargetIs DEF IdlePass
      <2>3. PassInv'
          BY <2>1, <2>2 DEF IndInv, PassInv, PassBelongsToRun, PassIsAtTarget,
             PassedTargetsAreKept
      <2>4. EvidenceInv'
          BY <2>1 DEF EvidenceInv, NothingSeenBefore, CleanIsTrue,
             SnapshotIsTrue, CompletingIsTrue
      <2>5. status'[r] \in {"purged", "operator_intervention_required"}
          BY <1>0, <1>6, <2>1 DEF CommitMismatch, Marked, TypeOK
      <2>6. CASE Affected(r, saw)
          <3>1. r \in audited'
              BY <1>6, <2>6 DEF CommitMismatch
          <3> QED
              BY <2>1, <2>3, <2>4, <2>5, <3>1 DEF RunInv, PurgedTargetBlocks,
                 AuditedOnlyWhenBlocked, BlockIsExplained, CompletionIsTrue
      <2>7. CASE ~Affected(r, saw)
          <3>1. status[r] = "purged" /\ saw # "purged"
              BY <2>7 DEF Affected
          <3>2. status' = status
              BY <1>6, <3>1 DEF CommitMismatch, Marked
          <3>3. r \in moved
              BY <1>6, <2>1, <3>1 DEF CommitMismatch, IndInv, EvidenceInv,
                 SnapshotIsTrue
          <3> QED
              BY <2>1, <2>3, <2>4, <3>1, <3>2, <3>3 DEF RunInv,
                 PurgedTargetBlocks, AuditedOnlyWhenBlocked, BlockIsExplained,
                 CompletionIsTrue
      <2> QED
          BY <2>6, <2>7
  <1>7. ASSUME NEW w \in Workers, CommitFails(w) \/ RefuseEvidence(w) \/ Stop(w)
        PROVE  PassInv' /\ EvidenceInv' /\ RunInv'
      BY <1>7, IdlingKeeps DEF CommitFails, RefuseEvidence, Stop
  <1>8. ASSUME NEW w \in Workers, BeginComplete(w)
        PROVE  PassInv' /\ EvidenceInv' /\ RunInv'
      <2>1. CASE pass[w].blocked = 0 /\ CleanEvidence
          <3>1. /\ pass[w].pc = "listed" /\ pass[w].next = 0
                /\ pass'[w].pc = "completing" /\ pass'[w].next = 0
                /\ pass'[w].blocked = 0
                /\ \A v \in Workers \ {w} : pass'[v] = pass[v]
                /\ UNCHANGED <<status, mode, expected, seen, audited, moved>>
              BY <1>0, <1>8, <2>1 DEF BeginComplete, TypeOK, PassRecord
          <3>2. PassInv'
              BY <2>1, <3>1 DEF IndInv, PassInv, PassBelongsToRun,
                 PassIsAtTarget, PassedTargetsAreKept
          <3>3. EvidenceInv'
              BY <2>1, <3>1 DEF IndInv, EvidenceInv, NothingSeenBefore,
                 CleanIsTrue, SnapshotIsTrue, CompletingIsTrue, CleanEvidence
          <3>4. RunInv'
              BY <3>1 DEF IndInv, RunInv, PurgedTargetBlocks,
                 AuditedOnlyWhenBlocked, BlockIsExplained, CompletionIsTrue
          <3> QED
              BY <3>2, <3>3, <3>4
      <2>2. CASE ~(pass[w].blocked = 0 /\ CleanEvidence)
          BY <1>8, <2>2, IdlingKeeps DEF BeginComplete
      <2> QED
          BY <2>1, <2>2
  <1>9. ASSUME NEW w \in Workers, CompleteRun(w)
        PROVE  PassInv' /\ EvidenceInv' /\ RunInv'
      <2>1. CASE mode = "reconciling"
          <3>1. /\ mode' = "completed" /\ pass[w].pc = "completing"
                /\ pass' = [pass EXCEPT ![w] = IdlePass]
                /\ UNCHANGED <<status, expected, seen, audited, moved>>
              BY <1>9, <2>1 DEF CompleteRun
          <3>2. PassInv'
              BY <1>0, <2>1, <3>1 DEF IndInv, PassInv, PassBelongsToRun,
                 PassIsAtTarget, PassedTargetsAreKept, IdlePass, TypeOK
          <3>3. EvidenceInv'
              BY <1>0, <2>1, <3>1 DEF IndInv, EvidenceInv, NothingSeenBefore,
                 CleanIsTrue, SnapshotIsTrue, CompletingIsTrue, IdlePass, TypeOK
          <3>4. PurgedTargetBlocks'
              BY <3>1 DEF IndInv, PassInv, PassIsAtTarget, PassedTargetsAreKept,
                 PurgedTargetBlocks
          <3>5. CompletionIsTrue'
              BY <2>1, <3>1 DEF IndInv, EvidenceInv, CompletingIsTrue,
                 CompletionIsTrue
          <3>6. AuditedOnlyWhenBlocked' /\ BlockIsExplained'
              BY <2>1, <3>1 DEF IndInv, RunInv, AuditedOnlyWhenBlocked,
                 BlockIsExplained
          <3> QED
              BY <3>2, <3>3, <3>4, <3>5, <3>6 DEF RunInv
      <2>2. CASE mode # "reconciling"
          BY <1>9, <2>2, IdlingKeeps DEF CompleteRun
      <2> QED
          BY <2>1, <2>2
  <1>10. CASE UNCHANGED vars
      BY <1>10 DEF vars, IndInv, PassInv, EvidenceInv, RunInv, PassBelongsToRun,
         PassIsAtTarget, PassedTargetsAreKept, NothingSeenBefore, CleanIsTrue,
         SnapshotIsTrue, CompletingIsTrue, PurgedTargetBlocks,
         AuditedOnlyWhenBlocked, BlockIsExplained, CompletionIsTrue
  <1> QED
      BY <1>1, <1>2, <1>3, <1>4, <1>5, <1>6, <1>7, <1>8, <1>9, <1>10
         DEF Next, PassStep

\* The inductive invariant holds in every reachable state.
THEOREM IndInvAlways == Spec => []IndInv
  <1>1. Init => IndInv
      BY InitIndInv
  <1>2. IndInv /\ [Next]_vars => IndInv'
      BY IndInvNext
  <1> QED
      BY <1>1, <1>2, PTL DEF Spec

\* Type correctness of the run, its evidence and the passes.
THEOREM TypeCorrect == Spec => []TypeOK
  <1>1. IndInv => TypeOK
      BY DEF IndInv
  <1> QED
      BY <1>1, IndInvAlways, PTL

\* A run with a target whose purge has to be upheld never completes, however
\* many workers overlap.
THEOREM PurgedTargetBlocksAlways == Spec => []PurgedTargetBlocks
  <1>1. IndInv => PurgedTargetBlocks
      BY DEF IndInv, RunInv
  <1> QED
      BY <1>1, IndInvAlways, PTL

\* A completed run reports the truth of every repo no lifecycle operation has
\* moved during it, however old the evidence it was completed on.
THEOREM CompletionIsTrueAlways == Spec => []CompletionIsTrue
  <1>1. IndInv => CompletionIsTrue
      BY DEF IndInv, RunInv
  <1> QED
      BY <1>1, IndInvAlways, PTL

\* A blocked run has an audited repo that is purged or set aside, or one whose
\* purge overtook the mismatch statement, and only a blocked run is audited.
THEOREM BlockIsExplainedAlways == Spec => []BlockIsExplained
  <1>1. IndInv => BlockIsExplained
      BY DEF IndInv, RunInv
  <1> QED
      BY <1>1, IndInvAlways, PTL
===============================================================================

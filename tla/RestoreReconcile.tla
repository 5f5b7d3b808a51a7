---------------------------- MODULE RestoreReconcile --------------------------
(***************************************************************************)
(* The reconciliation run that follows a restore of the metadata or of the *)
(* storage: internal/restorereconcile and its statements in                *)
(* internal/store/postgres/restore_reconciliation.go.                      *)
(*                                                                         *)
(* An operator inserts the run and its targets.  Each worker pass that     *)
(* finds the run reconciling observes the targets one after the other,     *)
(* commits the mismatches it decides on and, when there was none,          *)
(* completes the run.  Passes of several workers overlap.  The markers a   *)
(* target expects are functions of the status it expects, so a target is   *)
(* its expected status.                                                    *)
(*                                                                         *)
(* A statement judges by the snapshot it starts with and writes later,     *)
(* possibly after it has waited for a row another statement has locked;    *)
(* of a row it has locked it sees the latest version.  So each of the      *)
(* three statements of a pass is two steps.                                *)
(***************************************************************************)
EXTENDS Integers

CONSTANTS
    LastRepo,       \* repos, and targets, are 1..LastRepo in repo_id order
    Workers,        \* processes with the reconciliation enabled
    Sensitive,      \* repos whose id the evidence filter takes for a secret
    MaxLifecycle,   \* bound on lifecycle commits
    MaxStop         \* bound on passes that end early

ASSUME ReconcileAssumption ==
    /\ LastRepo \in Nat \ {0} /\ Sensitive \subseteq 1..LastRepo
    /\ MaxLifecycle \in Nat /\ MaxStop \in Nat

Repos == 1..LastRepo

VARIABLES
    status,     \* repos.status
    mode,       \* mode of the run
    expected,   \* expected_repo_status of each target
    seen,       \* result column of each observation
    audited,    \* repos a mismatch event was appended for
    moved,      \* repos a lifecycle commit has changed since the run began
    pass,       \* the pass each worker is in
    moves,      \* lifecycle commits so far
    stops       \* passes ended early so far

vars == <<status, mode, expected, seen, audited, moved, pass, moves, stops>>

Settled == {"active", "archived", "tombstoned", "purged"}
Status == Settled \cup {"operator_intervention_required"}

\* next: the target the pass is at; blocked: mismatches it has committed;
\* saw: the status of the repo in the snapshot of the statement under way.
PassRecord ==
    [pc: {"idle", "listed", "observing", "mismatch", "committing",
          "completing"},
     next: 0..LastRepo,
     blocked: 0..LastRepo,
     saw: Status]

TypeOK ==
    /\ status \in [Repos -> Status]
    /\ mode \in {"none", "reconciling", "blocked_operator_intervention",
                 "completed"}
    /\ expected \in [Repos -> Settled]
    /\ seen \in [Repos -> {"none", "clean", "mismatch"}]
    /\ audited \subseteq Repos
    /\ moved \subseteq Repos
    /\ pass \in [Workers -> PassRecord]
    /\ moves \in 0..MaxLifecycle
    /\ stops \in 0..MaxStop

IdlePass == [pc |-> "idle", next |-> 0, blocked |-> 0, saw |-> "active"]

Init ==
    /\ status \in [Repos -> Settled]
    /\ mode = "none"
    /\ expected = status
    /\ seen = [r \in Repos |-> "none"]
    /\ audited = {}
    /\ moved = {}
    /\ pass = [w \in Workers |-> IdlePass]
    /\ moves = 0
    /\ stops = 0

-------------------------------------------------------------------------------
(* The operator and the lifecycle operations *)

StartRun ==
    /\ mode = "none"
    /\ mode' = "reconciling"
    /\ expected' \in [Repos -> Settled]
    /\ moved' = {}
    /\ UNCHANGED <<status, seen, audited, pass, moves, stops>>

LifecycleMoves ==
    {<<"active", "archived">>, <<"archived", "active">>,
     <<"active", "tombstoned">>, <<"archived", "tombstoned">>,
     <<"tombstoned", "active">>, <<"tombstoned", "archived">>,
     <<"tombstoned", "purged">>}

\* The gate of a run is at the intake: an operation admitted before the run
\* commits during it.
CommitLifecycle(r) ==
    /\ moves < MaxLifecycle
    /\ moves' = moves + 1
    /\ \E to \in Status :
           /\ <<status[r], to>> \in LifecycleMoves
           /\ status' = [status EXCEPT ![r] = to]
    /\ moved' = moved \cup {r}
    /\ UNCHANGED <<mode, expected, seen, audited, pass, stops>>

-------------------------------------------------------------------------------
(* A pass *)

Begin(w) ==
    /\ pass[w].pc = "idle"
    /\ mode = "reconciling"
    /\ pass' = [pass EXCEPT ![w] = [IdlePass EXCEPT !.pc = "listed", !.next = 1]]
    /\ UNCHANGED <<status, mode, expected, seen, audited, moved, moves, stops>>

\* The pass at the target after its own, or at 0 after the last.
NextTarget(p) ==
    [p EXCEPT !.pc = "listed", !.next = (p.next + 1) % (LastRepo + 1)]

Counted(p) == [p EXCEPT !.blocked = @ + 1]

\* The snapshot of the observing or of the mismatch statement.
Look(w, from, to) ==
    /\ pass[w].pc = from
    /\ pass[w].next \in Repos
    /\ pass' = [pass EXCEPT ![w].pc = to, ![w].saw = status[pass[w].next]]
    /\ UNCHANGED <<status, mode, expected, seen, audited, moved, moves, stops>>

\* Wrong: only the tombstone and purge markers are compared.
MarkersMatch(r, saw) ==
    saw \in {"tombstoned", "purged"} \/ expected[r] \in {"tombstoned", "purged"} =>
        saw = expected[r]

\* The observation is made of the repos row and says storage is present.
Matches(r, saw) == saw = expected[r]

\* Wrong: a purged target is clean when its row is purged.
DecidesByResult(r, saw) == ~Matches(r, saw)

\* DecideObservationForTarget: storage seen for a purged target is a mismatch.
DecidesMismatch(r, saw) == expected[r] = "purged" \/ ~Matches(r, saw)

\* The observation is written whatever the mode of the run.
ObserveTarget(w) ==
    LET r == pass[w].next
        saw == pass[w].saw
    IN /\ pass[w].pc = "observing"
       /\ seen' = [seen EXCEPT ![r] = IF Matches(r, saw) THEN "clean"
                                                         ELSE "mismatch"]
       /\ pass' = [pass EXCEPT
                      ![w] = IF DecidesMismatch(r, saw)
                             THEN [@ EXCEPT !.pc = "mismatch"]
                             ELSE NextTarget(@)]
       /\ UNCHANGED <<status, mode, expected, audited, moved, moves, stops>>

\* RedactedEvidence refuses the evidence: the pass fails.
RefuseEvidence(w) ==
    /\ pass[w].pc = "mismatch"
    /\ pass[w].next \in Sensitive
    /\ pass' = [pass EXCEPT ![w] = IdlePass]
    /\ UNCHANGED <<status, mode, expected, seen, audited, moved, moves, stops>>

BeginMismatch(w) ==
    pass[w].next \notin Sensitive /\ Look(w, "mismatch", "committing")

Marked(r) ==
    IF status[r] = "purged" THEN status
    ELSE [status EXCEPT ![r] = "operator_intervention_required"]

CanCommit == mode = "reconciling"

\* Wrong: the run is not blocked by the commit.
ModeKept == mode

ModeAfterMismatch == "blocked_operator_intervention"

\* Wrong: a repo that is purged already does not count.
AffectedIfMarked(r, saw) == status[r] # "purged"

\* affected_repo: the row the statement marks, or one that was purged in its
\* snapshot already.  A repo purged since the snapshot is neither.
Affected(r, saw) == status[r] = "purged" => saw = "purged"

\* The run is locked and blocked in any case; the event, and the answer to
\* the pass, depend on the affected repo.
CommitMismatch(w) ==
    LET r == pass[w].next
        affected == Affected(r, pass[w].saw)
    IN /\ pass[w].pc = "committing"
       /\ CanCommit
       /\ seen' = [seen EXCEPT ![r] = "mismatch"]
       /\ status' = Marked(r)
       /\ mode' = ModeAfterMismatch
       /\ audited' = IF affected THEN audited \cup {r} ELSE audited
       /\ pass' = [pass EXCEPT
                      ![w] = IF affected
                             THEN NextTarget(Counted(@))
                             ELSE IdlePass]
       /\ UNCHANGED <<expected, moved, moves, stops>>

\* The run is no longer reconciling: the pass fails.
CommitFails(w) ==
    /\ pass[w].pc = "committing"
    /\ ~CanCommit
    /\ pass' = [pass EXCEPT ![w] = IdlePass]
    /\ UNCHANGED <<status, mode, expected, seen, audited, moved, moves, stops>>

CleanEvidence == \A r \in Repos : seen[r] = "clean"

\* After the last target the pass completes the run if it blocked nothing;
\* the observations are those of the snapshot of the completing statement.
BeginComplete(w) ==
    /\ pass[w].pc = "listed"
    /\ pass[w].next = 0
    /\ pass' = [pass EXCEPT
                   ![w] = IF pass[w].blocked = 0 /\ CleanEvidence
                          THEN [@ EXCEPT !.pc = "completing"]
                          ELSE IdlePass]
    /\ UNCHANGED <<status, mode, expected, seen, audited, moved, moves, stops>>

\* The run is locked, and its mode looked at again.
CompleteRun(w) ==
    /\ pass[w].pc = "completing"
    /\ mode' = IF mode = "reconciling" THEN "completed" ELSE mode
    /\ pass' = [pass EXCEPT ![w] = IdlePass]
    /\ UNCHANGED <<status, expected, seen, audited, moved, moves, stops>>

\* The process ends or a statement fails.
Stop(w) ==
    /\ pass[w].pc # "idle"
    /\ stops < MaxStop
    /\ stops' = stops + 1
    /\ pass' = [pass EXCEPT ![w] = IdlePass]
    /\ UNCHANGED <<status, mode, expected, seen, audited, moved, moves>>

PassStep(w) ==
    \/ Begin(w)
    \/ Look(w, "listed", "observing") \/ ObserveTarget(w)
    \/ RefuseEvidence(w) \/ BeginMismatch(w)
    \/ CommitMismatch(w) \/ CommitFails(w)
    \/ BeginComplete(w) \/ CompleteRun(w)

Next ==
    \/ StartRun
    \/ \E r \in Repos : CommitLifecycle(r)
    \/ \E w \in Workers : PassStep(w) \/ Stop(w)

\* The worker loop runs one pass after another.
Spec == Init /\ [][Next]_vars /\ \A w \in Workers : WF_vars(PassStep(w))

-------------------------------------------------------------------------------
(* Properties *)

\* A run with a target whose purge has to be upheld never completes: no
\* overlap of passes lets one worker complete what another decided to block.
\* The statement that completes does not look at purged targets itself.
PurgedTargetBlocks ==
    mode = "completed" => \A r \in Repos : expected[r] # "purged"

\* What a completed run reports is true of the repos: a target that is not
\* as expected has been changed by a lifecycle operation during the run.  In
\* particular no repo has been set aside, whatever observations the passes
\* overwrite for one another and however late the completing statement is.
CompletionIsTrue ==
    mode = "completed" =>
        \A r \in Repos : status[r] = expected[r] \/ r \in moved

\* A blocked run shows the operator why: some repo has an audit event and is
\* purged or set aside.  The one exception is a repo whose purge was
\* committed during the run, while the mismatch statement waited for it: the
\* run is then blocked without an event.  An event is evidence of a block.
BlockIsExplained ==
    /\ mode = "blocked_operator_intervention" =>
           \E r \in Repos :
               \/ /\ r \in audited
                  /\ status[r] \in {"purged", "operator_intervention_required"}
               \/ r \in moved /\ status[r] = "purged"
    /\ audited # {} => mode = "blocked_operator_intervention"

\* Every run ends reconciling, also when lifecycle operations and stopped
\* passes interfere, unless the evidence filter refuses for ever to report
\* a mismatch.
RunSettles ==
    mode = "reconciling" ~>
        \/ mode # "reconciling"
        \/ [](\E r \in Sensitive : DecidesMismatch(r, status[r]))
===============================================================================

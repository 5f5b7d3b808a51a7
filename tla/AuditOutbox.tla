------------------------------ MODULE AuditOutbox -----------------------------
(***************************************************************************)
(* The audit outbox (internal/audit, internal/store/postgres) and the      *)
(* worker passes that empty it (internal/auditdelivery): recover stale     *)
(* claims, claim a batch, post each record, mark the answer.               *)
(*                                                                         *)
(* The outbox has no owner column: a claim is only a status, so a          *)
(* deliverer whose claim was recovered and claimed again by another marks  *)
(* the other's claim.  There is no clock; `timer' says whether the time    *)
(* the row waits for has passed: next_retry_at in retry_wait, the stale    *)
(* threshold in delivering.  Events are numbered by event_time.            *)
(***************************************************************************)
EXTENDS Integers, FiniteSets

CONSTANTS
    LastEvent,      \* events are 1..LastEvent, oldest first
    Deliverers,     \* worker processes
    Limit,          \* batch size of a claim and of a stale recovery
    MaxAttempts,    \* AFSCP_AUDIT_DELIVERY_MAX_ATTEMPTS
    MaxFaults       \* bound on processes that stop in mid-batch and claims
                    \* that go stale in a live process, together

ASSUME OutboxAssumption ==
    /\ LastEvent \in Nat /\ Limit \in Nat \ {0} /\ MaxAttempts \in Nat \ {0}
    /\ MaxFaults \in Nat
    /\ IsFiniteSet(Deliverers)

Events == 1..LastEvent

VARIABLES
    outbox,     \* the rows
    pass,       \* the pass each process is in
    posts,      \* times each event was posted to the sink
    accepted,   \* events the sink has stored
    faults      \* stops, and claims gone stale under a live process, so far

vars == <<outbox, pass, posts, accepted, faults>>

Terminal == {"delivered", "failed"}

OutboxRecord ==
    [status: {"absent", "pending", "delivering", "retry_wait"} \cup Terminal,
     attempt: Nat,
     timer: {"running", "passed"}]

\* batch: claimed and not yet posted; current: posted, the answer in hand.
PassRecord ==
    [pc: {"idle", "recovered", "posting", "marking"},
     batch: SUBSET Events,
     current: 0..LastEvent,
     answer: {"none", "ok", "error"}]

TypeOK ==
    /\ outbox \in [Events -> OutboxRecord]
    /\ pass \in [Deliverers -> PassRecord]
    /\ posts \in [Events -> Nat]
    /\ accepted \subseteq Events
    /\ faults \in 0..MaxFaults

IdlePass == [pc |-> "idle", batch |-> {}, current |-> 0, answer |-> "none"]

Init ==
    /\ outbox = [e \in Events |-> [status |-> "absent", attempt |-> 0,
                                   timer |-> "running"]]
    /\ pass = [d \in Deliverers |-> IdlePass]
    /\ posts = [e \in Events |-> 0]
    /\ accepted = {}
    /\ faults = 0

-------------------------------------------------------------------------------
(* The statements *)

NewRecord == [status |-> "pending", attempt |-> 0, timer |-> "running"]

\* The terminal commit of an operation, or a handler, inserts its event.
AppendAuditEvent(e) ==
    /\ outbox[e].status = "absent"
    /\ outbox' = [outbox EXCEPT ![e] = NewRecord]
    /\ UNCHANGED <<pass, posts, accepted, faults>>

\* A pass starts with the stale recovery.  The order by updated_at is left
\* open: any choice of at most Limit stale claims, as many as there are.
\* Faulty variant: a claim with no attempts left is not recovered.
StaleBelowMax(e) ==
    /\ outbox[e].status = "delivering"
    /\ outbox[e].timer = "passed"
    /\ outbox[e].attempt < MaxAttempts

Stale(e) == outbox[e].status = "delivering" /\ outbox[e].timer = "passed"

Full(chosen, all) ==
    \/ chosen = all
    \/ chosen \subseteq all /\ Cardinality(chosen) = Limit
                            /\ Cardinality(all) > Limit

\* The stale recovery never fails a record, whatever its attempts.
Recovered(r) == [r EXCEPT !.status = "retry_wait", !.timer = "running"]

RecoverStale(d) ==
    /\ pass[d].pc = "idle"
    /\ \E chosen \in SUBSET Events :
           /\ Full(chosen, {e \in Events : Stale(e)})
           /\ outbox' = [e \in Events |-> IF e \in chosen
                                          THEN Recovered(outbox[e])
                                          ELSE outbox[e]]
    /\ pass' = [pass EXCEPT ![d].pc = "recovered"]
    /\ UNCHANGED <<posts, accepted, faults>>

Due(e) == \/ outbox[e].status = "pending"
          \/ outbox[e].status = "retry_wait" /\ outbox[e].timer = "passed"

\* The oldest due events, at most Limit of them.
DueBatch == {e \in Events : Due(e) /\ Cardinality({f \in 1..e : Due(f)}) <= Limit}

\* Faulty variant: the attempt is not counted by the claim.
ClaimedUncounted(r) == [r EXCEPT !.status = "delivering", !.timer = "running"]

Claimed(r) == [r EXCEPT !.status = "delivering", !.timer = "running",
                        !.attempt = @ + 1]

ClaimDue(d) ==
    /\ pass[d].pc = "recovered"
    /\ outbox' = [e \in Events |-> IF e \in DueBatch THEN Claimed(outbox[e])
                                                     ELSE outbox[e]]
    /\ pass' = [pass EXCEPT
                   ![d] = IF DueBatch = {} THEN IdlePass
                          ELSE [@ EXCEPT !.pc = "posting", !.batch = DueBatch]]
    /\ UNCHANGED <<posts, accepted, faults>>

\* The POST of one record of the batch.  A sink that stored the event may
\* still be answered for by a timeout or a status other than 2xx.
Post(d, e, stored, answer) ==
    /\ pass[d].pc = "posting"
    /\ e \in pass[d].batch
    /\ answer = "ok" => stored
    /\ posts' = [posts EXCEPT ![e] = @ + 1]
    /\ accepted' = IF stored THEN accepted \cup {e} ELSE accepted
    /\ pass' = [pass EXCEPT ![d].pc = "marking", ![d].batch = @ \ {e},
                            ![d].current = e, ![d].answer = answer]
    /\ UNCHANGED <<outbox, faults>>

\* Faulty variant: the error of the POST is dropped.
MarkedWhateverAnswer(r, answer) == [r EXCEPT !.status = "delivered"]

\* MarkAuditOutboxDelivered and MarkAuditOutboxDeliveryFailed.
Marked(r, answer) ==
    CASE answer = "ok" -> [r EXCEPT !.status = "delivered"]
      [] answer = "error" /\ r.attempt >= MaxAttempts ->
             [r EXCEPT !.status = "failed"]
      [] OTHER -> [r EXCEPT !.status = "retry_wait", !.timer = "running"]

CanMark(r) == r.status = "delivering"

MoreOrIdle(p) ==
    IF p.batch = {} THEN IdlePass
    ELSE [p EXCEPT !.pc = "posting", !.current = 0, !.answer = "none"]

Mark(d) ==
    LET e == pass[d].current
    IN /\ pass[d].pc = "marking"
       /\ CanMark(outbox[e])
       /\ outbox' = [outbox EXCEPT ![e] = Marked(@, pass[d].answer)]
       /\ pass' = [pass EXCEPT ![d] = MoreOrIdle(@)]
       /\ UNCHANGED <<posts, accepted, faults>>

\* The mark found no delivering row: RunOnce returns and the rest of its
\* batch stays delivering.
MarkRefused(d) ==
    /\ pass[d].pc = "marking"
    /\ ~CanMark(outbox[pass[d].current])
    /\ pass' = [pass EXCEPT ![d] = IdlePass]
    /\ UNCHANGED <<outbox, posts, accepted, faults>>

-------------------------------------------------------------------------------
(* The environment *)

Held(e) == \E d \in Deliverers : e \in pass[d].batch \/ e = pass[d].current

TimerPasses(e) ==
    /\ outbox[e].status \in {"retry_wait", "delivering"}
    /\ outbox[e].timer = "running"
    /\ IF outbox[e].status = "delivering" /\ Held(e)
       THEN faults < MaxFaults /\ faults' = faults + 1
       ELSE faults' = faults
    /\ outbox' = [outbox EXCEPT ![e].timer = "passed"]
    /\ UNCHANGED <<pass, posts, accepted>>

\* The process ends, or a statement fails and RunOnce returns.
Stop(d) ==
    /\ pass[d].pc # "idle"
    /\ faults < MaxFaults
    /\ faults' = faults + 1
    /\ pass' = [pass EXCEPT ![d] = IdlePass]
    /\ UNCHANGED <<outbox, posts, accepted>>

PassStep(d) ==
    \/ RecoverStale(d)
    \/ ClaimDue(d)
    \/ \E e \in Events, stored \in BOOLEAN, answer \in {"ok", "error"} :
           Post(d, e, stored, answer)
    \/ Mark(d)
    \/ MarkRefused(d)

Next ==
    \/ \E e \in Events : AppendAuditEvent(e) \/ TimerPasses(e)
    \/ \E d \in Deliverers : PassStep(d) \/ Stop(d)

\* The worker loop runs one pass after another and time passes; nothing is
\* assumed of the sink.
Fairness ==
    /\ \A d \in Deliverers : WF_vars(PassStep(d))
    /\ \A e \in Events : WF_vars(TimerPasses(e))

Spec == Init /\ [][Next]_vars /\ Fairness

-------------------------------------------------------------------------------
(* Properties *)

\* A record marked delivered was stored by the sink, also when the mark was
\* made by a deliverer that no longer holds the claim, or was stopped and
\* replaced between the post and the mark.
DeliveredWasAccepted ==
    \A e \in Events : outbox[e].status = "delivered" => e \in accepted

\* delivery_attempt counts every post: the posts made and the posts that
\* claims in memory still allow never exceed it, so the runbook can read the
\* number of possible duplicates at the sink from the row.
PostsWithinAttempts ==
    \A e \in Events :
        posts[e] + Cardinality({d \in Deliverers : e \in pass[d].batch})
            <= outbox[e].attempt

\* Every event that was appended ends delivered or failed and stays so, although
\* batches are smaller than the backlog, are abandoned by stops and refused
\* marks, and nothing is assumed of the sink: abandoned claims are recovered and
\* the attempts run out.
Settles ==
    <>[](\A e \in Events : outbox[e].status \in {"absent"} \cup Terminal)

===============================================================================

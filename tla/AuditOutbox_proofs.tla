-------------------------- MODULE AuditOutbox_proofs --------------------------
(***************************************************************************)
(* The audit outbox, proved for any number of events and of worker         *)
(* processes and any batch size, attempt limit and bound on faults.        *)
(*                                                                         *)
(* The inductive invariant adds to the two checked invariants what a pass  *)
(* remembers between the post and the mark: the event in hand is a real    *)
(* one, and an answer "ok" in hand means that the sink stored it.  And a   *)
(* row that is not there yet has counted no attempt, so that the insert    *)
(* starts from the right number.                                           *)
(***************************************************************************)
EXTENDS AuditOutbox, FiniteSetTheorems, TLAPS

HandIsHonest ==
    \A d \in Deliverers :
        pass[d].pc = "marking" =>
            /\ pass[d].current \in Events
            /\ pass[d].answer = "ok" => pass[d].current \in accepted

UnseenIsUncounted ==
    \A e \in Events : outbox[e].status = "absent" => outbox[e].attempt = 0

IndInv ==
    /\ TypeOK
    /\ HandIsHonest
    /\ UnseenIsUncounted
    /\ DeliveredWasAccepted
    /\ PostsWithinAttempts

\* The deliverers that may still post e from memory.
Owing(e) == {d \in Deliverers : e \in pass[d].batch}

USE OutboxAssumption

\* The rows the statements write are rows again.
LEMMA RecoveredType ==
    ASSUME NEW r \in OutboxRecord
    PROVE  /\ Recovered(r) \in OutboxRecord
           /\ Recovered(r).attempt = r.attempt
           /\ Recovered(r).status = "retry_wait"
  BY DEF Recovered, OutboxRecord, Terminal

LEMMA ClaimedType ==
    ASSUME NEW r \in OutboxRecord
    PROVE  /\ Claimed(r) \in OutboxRecord
           /\ Claimed(r).status = "delivering"
           /\ Claimed(r).attempt = r.attempt + 1
  <1>1. r.attempt + 1 \in Nat
      BY DEF OutboxRecord
  <1> QED
      BY <1>1 DEF Claimed, OutboxRecord, Terminal

LEMMA MarkedType ==
    ASSUME NEW r \in OutboxRecord, NEW a \in {"none", "ok", "error"}
    PROVE  /\ Marked(r, a) \in OutboxRecord
           /\ Marked(r, a).attempt = r.attempt
           /\ Marked(r, a).status = "delivered" /\ r.status = "delivering"
                  => a = "ok"
           /\ Marked(r, a).status # "absent"
  <1>1. CASE a = "ok"
      BY <1>1 DEF Marked, OutboxRecord, Terminal
  <1>2. CASE a = "error" /\ r.attempt >= MaxAttempts
      BY <1>2 DEF Marked, OutboxRecord, Terminal
  <1>3. CASE a # "ok" /\ ~(a = "error" /\ r.attempt >= MaxAttempts)
      BY <1>3 DEF Marked, OutboxRecord, Terminal
  <1> QED
      BY <1>1, <1>2, <1>3

\* So are the passes.
LEMMA IdlePassType == IdlePass \in PassRecord
  BY DEF IdlePass, PassRecord, Events

LEMMA MoreOrIdleType ==
    ASSUME NEW p \in PassRecord
    PROVE  /\ MoreOrIdle(p) \in PassRecord
           /\ MoreOrIdle(p).pc \in {"idle", "posting"}
           /\ MoreOrIdle(p).batch = p.batch
  <1>1. CASE p.batch = {}
      BY <1>1, IdlePassType DEF MoreOrIdle, IdlePass
  <1>2. CASE p.batch # {}
      <2>1. /\ 0 \in 0..LastEvent
            /\ MoreOrIdle(p) = [p EXCEPT !.pc = "posting", !.current = 0,
                                         !.answer = "none"]
          BY <1>2 DEF MoreOrIdle
      <2> QED
          BY <2>1 DEF PassRecord
  <1> QED
      BY <1>1, <1>2

\* The initial state satisfies the inductive invariant.
LEMMA InitIndInv == Init => IndInv
  <1> SUFFICES ASSUME Init PROVE IndInv
      OBVIOUS
  <1>1. TypeOK
      BY IdlePassType DEF Init, TypeOK, OutboxRecord
  <1>2. HandIsHonest /\ DeliveredWasAccepted /\ UnseenIsUncounted
      BY DEF Init, HandIsHonest, DeliveredWasAccepted, UnseenIsUncounted,
         IdlePass
  <1>3. PostsWithinAttempts
      <2>1. ASSUME NEW e \in Events PROVE Owing(e) = {}
          BY DEF Owing, Init, IdlePass
      <2>2. ASSUME NEW e \in Events
            PROVE  posts[e] = 0 /\ outbox[e].attempt = 0 /\ Cardinality(Owing(e)) = 0
          BY <2>1, FS_EmptySet DEF Init
      <2> QED
          BY <2>2 DEF PostsWithinAttempts, Owing
  <1> QED
      BY <1>1, <1>2, <1>3 DEF IndInv
\* Type correctness is preserved by every step.
LEMMA TypeNext == TypeOK /\ HandIsHonest /\ [Next]_vars => TypeOK'
  <1> SUFFICES ASSUME TypeOK, HandIsHonest, [Next]_vars PROVE TypeOK'
      OBVIOUS
  <1> USE IdlePassType
  <1>1. ASSUME NEW e \in Events, AppendAuditEvent(e) PROVE TypeOK'
      <2>1. NewRecord \in OutboxRecord
          BY DEF NewRecord, OutboxRecord
      <2> QED
          BY <1>1, <2>1 DEF AppendAuditEvent, TypeOK
  <1>2. ASSUME NEW e \in Events, TimerPasses(e) PROVE TypeOK'
      <2>1. [outbox[e] EXCEPT !.timer = "passed"] \in OutboxRecord
          BY DEF TypeOK, OutboxRecord
      <2>2. outbox' \in [Events -> OutboxRecord]
          BY <1>2, <2>1 DEF TimerPasses, TypeOK
      <2>3. faults' \in 0..MaxFaults
          BY <1>2 DEF TimerPasses, TypeOK
      <2> QED
          BY <1>2, <2>2, <2>3 DEF TimerPasses, TypeOK
  <1>3. ASSUME NEW d \in Deliverers, RecoverStale(d) PROVE TypeOK'
      <2>1. PICK chosen \in SUBSET Events :
                outbox' = [e \in Events |-> IF e \in chosen
                                            THEN Recovered(outbox[e])
                                            ELSE outbox[e]]
          BY <1>3 DEF RecoverStale
      <2>2. outbox' \in [Events -> OutboxRecord]
          BY <2>1, RecoveredType DEF TypeOK
      <2>3. pass' \in [Deliverers -> PassRecord]
          BY <1>3 DEF RecoverStale, TypeOK, PassRecord
      <2> QED
          BY <1>3, <2>2, <2>3 DEF RecoverStale, TypeOK
  <1>4. ASSUME NEW d \in Deliverers, ClaimDue(d) PROVE TypeOK'
      <2>1. outbox' \in [Events -> OutboxRecord]
          BY <1>4, ClaimedType DEF ClaimDue, TypeOK
      <2>2. DueBatch \in SUBSET Events
          BY DEF DueBatch
      <2>3. [pass[d] EXCEPT !.pc = "posting", !.batch = DueBatch] \in PassRecord
          BY <2>2 DEF TypeOK, PassRecord
      <2>4. pass' \in [Deliverers -> PassRecord]
          BY <1>4, <2>3 DEF ClaimDue, TypeOK
      <2> QED
          BY <1>4, <2>1, <2>4 DEF ClaimDue, TypeOK
  <1>5. ASSUME NEW d \in Deliverers, NEW e \in Events, NEW stored \in BOOLEAN,
               NEW answer \in {"ok", "error"}, Post(d, e, stored, answer)
        PROVE  TypeOK'
      <2> DEFINE p == [pass[d] EXCEPT !.pc = "marking",
                                      !.batch = pass[d].batch \ {e},
                                      !.current = e, !.answer = answer]
      <2>1. pass' = [pass EXCEPT ![d] = p]
          BY <1>5 DEF Post, TypeOK
      <2>2. p \in PassRecord
          <3>1. pass[d] \in PassRecord /\ e \in 0..LastEvent
              BY DEF TypeOK, Events
          <3>2. pass[d].batch \ {e} \in SUBSET Events
              BY <3>1 DEF PassRecord
          <3> QED
              BY <3>1, <3>2 DEF PassRecord
      <2>3. posts' \in [Events -> Nat] /\ accepted' \subseteq Events
          BY <1>5 DEF Post, TypeOK
      <2> QED
          BY <1>5, <2>1, <2>2, <2>3 DEF Post, TypeOK
  <1>6. ASSUME NEW d \in Deliverers, Mark(d) PROVE TypeOK'
      <2>1. /\ pass[d] \in PassRecord /\ pass[d].current \in Events
            /\ pass[d].answer \in {"none", "ok", "error"}
          BY <1>6 DEF Mark, HandIsHonest, TypeOK, PassRecord
      <2>2. outbox' \in [Events -> OutboxRecord]
          BY <1>6, <2>1, MarkedType DEF Mark, TypeOK
      <2>3. pass' \in [Deliverers -> PassRecord]
          BY <1>6, <2>1, MoreOrIdleType DEF Mark, TypeOK
      <2> QED
          BY <1>6, <2>2, <2>3 DEF Mark, TypeOK
  <1>7. ASSUME NEW d \in Deliverers, MarkRefused(d) PROVE TypeOK'
      BY <1>7 DEF MarkRefused, TypeOK
  <1>8. ASSUME NEW d \in Deliverers, Stop(d) PROVE TypeOK'
      BY <1>8 DEF Stop, TypeOK
  <1>9. CASE UNCHANGED vars
      BY <1>9 DEF vars, TypeOK
  <1> QED
      BY <1>1, <1>2, <1>3, <1>4, <1>5, <1>6, <1>7, <1>8, <1>9 DEF Next, PassStep

\* Taking one debtor away, or adding at most one, changes the count so.
LEMMA OwingCount ==
    ASSUME NEW S \in SUBSET Deliverers, NEW T \in SUBSET Deliverers,
           NEW d \in Deliverers
    PROVE  /\ Cardinality(S) \in Nat /\ Cardinality(T) \in Nat
           /\ T \subseteq S => Cardinality(T) <= Cardinality(S)
           /\ T \subseteq S \cup {d} => Cardinality(T) <= Cardinality(S) + 1
           /\ d \in S /\ T \subseteq S \ {d} =>
                  Cardinality(T) <= Cardinality(S) - 1
  <1>1. IsFiniteSet(S) /\ IsFiniteSet(T)
      BY FS_Subset
  <1>2. Cardinality(S) \in Nat /\ Cardinality(T) \in Nat
      BY <1>1, FS_CardinalityType
  <1>3. ASSUME T \subseteq S PROVE Cardinality(T) <= Cardinality(S)
      BY <1>1, <1>3, FS_Subset
  <1>4. ASSUME T \subseteq S \cup {d} PROVE Cardinality(T) <= Cardinality(S) + 1
      <2>1. /\ IsFiniteSet(S \cup {d})
            /\ \/ Cardinality(S \cup {d}) = Cardinality(S)
               \/ Cardinality(S \cup {d}) = Cardinality(S) + 1
          BY <1>1, FS_AddElement
      <2>2. Cardinality(T) <= Cardinality(S \cup {d})
          BY <1>4, <2>1, FS_Subset
      <2> QED
          BY <1>2, <2>1, <2>2
  <1>5. ASSUME d \in S, T \subseteq S \ {d}
        PROVE  Cardinality(T) <= Cardinality(S) - 1
      <2>1. /\ IsFiniteSet(S \ {d})
            /\ Cardinality(S \ {d}) = Cardinality(S) - 1
          BY <1>1, <1>5, FS_RemoveElement
      <2>2. Cardinality(T) <= Cardinality(S \ {d})
          BY <1>5, <2>1, FS_Subset
      <2> QED
          BY <1>2, <2>1, <2>2
  <1> QED
      BY <1>2, <1>3, <1>4, <1>5
\* A step after which no row is freshly delivered, no event newly owed or
\* posted and no attempt uncounted keeps both invariants.
LEMMA QuietStep ==
    ASSUME IndInv, TypeOK', UNCHANGED <<posts, accepted>>,
           \A e \in Events :
               /\ outbox'[e].attempt = outbox[e].attempt
               /\ outbox'[e].status = "delivered" =>
                      outbox[e].status = "delivered"
               /\ outbox'[e].status = "absent" =>
                      outbox[e].status = "absent",
           \A d \in Deliverers : pass'[d].batch \subseteq pass[d].batch
    PROVE  UnseenIsUncounted' /\ DeliveredWasAccepted' /\ PostsWithinAttempts'
  <1>1. UnseenIsUncounted' /\ DeliveredWasAccepted'
      BY DEF IndInv, UnseenIsUncounted, DeliveredWasAccepted
  <1>2. ASSUME NEW e \in Events
        PROVE  posts'[e] + Cardinality(Owing(e)') <= outbox'[e].attempt
      <2>1. Owing(e) \in SUBSET Deliverers /\ Owing(e)' \subseteq Owing(e)
          BY DEF Owing
      <2>2. /\ Cardinality(Owing(e)) \in Nat /\ Cardinality(Owing(e)') \in Nat
            /\ Cardinality(Owing(e)') <= Cardinality(Owing(e))
          <3>1. IsFiniteSet(Owing(e)) /\ IsFiniteSet(Owing(e)')
              BY <2>1, FS_Subset
          <3> QED
              BY <2>1, <3>1, FS_Subset, FS_CardinalityType
      <2>3. /\ posts[e] \in Nat /\ outbox[e].attempt \in Nat
            /\ posts[e] + Cardinality(Owing(e)) <= outbox[e].attempt
          BY DEF IndInv, TypeOK, OutboxRecord, PostsWithinAttempts, Owing
      <2> QED
          BY <2>2, <2>3
  <1> QED
      BY <1>1, <1>2 DEF PostsWithinAttempts, Owing

\* Every step preserves the inductive invariant.
LEMMA IndInvNext == IndInv /\ [Next]_vars => IndInv'
  <1> SUFFICES ASSUME IndInv, [Next]_vars PROVE IndInv'
      OBVIOUS
  <1> DEFINE Rest == /\ HandIsHonest /\ UnseenIsUncounted
                     /\ DeliveredWasAccepted /\ PostsWithinAttempts
  <1>0. TypeOK /\ TypeOK'
      BY TypeNext DEF IndInv
  <1> SUFFICES Rest'
      BY <1>0 DEF IndInv
  <1>1. ASSUME NEW e \in Events, AppendAuditEvent(e) PROVE Rest'
      <2>1. HandIsHonest'
          BY <1>1 DEF AppendAuditEvent, IndInv, HandIsHonest
      <2>2. \A f \in Events : /\ outbox'[f].attempt = outbox[f].attempt
                              /\ f # e => outbox'[f] = outbox[f]
                              /\ outbox'[e].status = "pending"
          BY <1>0, <1>1 DEF AppendAuditEvent, NewRecord, IndInv,
             UnseenIsUncounted, TypeOK
      <2>3. UNCHANGED <<pass, posts, accepted>>
          BY <1>1 DEF AppendAuditEvent
      <2> QED
          BY <1>0, <2>1, <2>2, <2>3, QuietStep
  <1>2. ASSUME NEW e \in Events, TimerPasses(e) PROVE Rest'
      <2>1. HandIsHonest'
          BY <1>2 DEF TimerPasses, IndInv, HandIsHonest
      <2>2. \A f \in Events : /\ outbox'[f].attempt = outbox[f].attempt
                              /\ outbox'[f].status = outbox[f].status
          BY <1>0, <1>2 DEF TimerPasses, TypeOK, OutboxRecord
      <2>3. UNCHANGED <<pass, posts, accepted>>
          BY <1>2 DEF TimerPasses
      <2> QED
          BY <1>0, <2>1, <2>2, <2>3, QuietStep
  <1>3. ASSUME NEW d \in Deliverers, RecoverStale(d) PROVE Rest'
      <2>1. PICK chosen \in SUBSET Events :
                outbox' = [e \in Events |-> IF e \in chosen
                                            THEN Recovered(outbox[e])
                                            ELSE outbox[e]]
          BY <1>3 DEF RecoverStale
      <2>2. \A e \in Events : /\ outbox'[e].attempt = outbox[e].attempt
                              /\ outbox'[e].status \in
                                     {"retry_wait", outbox[e].status}
          BY <1>0, <2>1, RecoveredType DEF TypeOK
      <2>3. /\ UNCHANGED <<posts, accepted>>
            /\ pass' = [pass EXCEPT ![d].pc = "recovered"]
          BY <1>3 DEF RecoverStale
      <2>4. HandIsHonest'
          BY <1>0, <2>3 DEF IndInv, HandIsHonest, TypeOK, PassRecord
      <2>5. \A c \in Deliverers : pass'[c].batch = pass[c].batch
          BY <1>0, <2>3 DEF TypeOK, PassRecord
      <2> QED
          BY <1>0, <2>2, <2>3, <2>4, <2>5, QuietStep
  <1>4. ASSUME NEW d \in Deliverers, ClaimDue(d) PROVE Rest'
      <2>1. /\ outbox' = [e \in Events |-> IF e \in DueBatch
                                           THEN Claimed(outbox[e])
                                           ELSE outbox[e]]
            /\ UNCHANGED <<posts, accepted>>
          BY <1>4 DEF ClaimDue
      <2>2. /\ pass'[d].pc # "marking" /\ pass'[d].batch = DueBatch
            /\ \A c \in Deliverers \ {d} : pass'[c] = pass[c]
          BY <1>0, <1>4 DEF ClaimDue, TypeOK, PassRecord, IdlePass
      <2>3. HandIsHonest'
          BY <2>1, <2>2 DEF IndInv, HandIsHonest
      <2>4. UnseenIsUncounted' /\ DeliveredWasAccepted'
          BY <1>0, <2>1, ClaimedType DEF IndInv, UnseenIsUncounted,
             DeliveredWasAccepted, TypeOK
      <2>5. ASSUME NEW e \in Events
            PROVE  posts'[e] + Cardinality(Owing(e)') <= outbox'[e].attempt
          <3>1. /\ Owing(e) \in SUBSET Deliverers
                /\ Owing(e)' \in SUBSET Deliverers
              BY DEF Owing
          <3>2. /\ posts[e] \in Nat /\ outbox[e].attempt \in Nat
                /\ posts[e] + Cardinality(Owing(e)) <= outbox[e].attempt
                /\ posts'[e] = posts[e]
              BY <1>0, <2>1 DEF IndInv, TypeOK, OutboxRecord,
                 PostsWithinAttempts, Owing
          <3>3. CASE e \in DueBatch
              <4>1. Owing(e)' \subseteq Owing(e) \cup {d}
                  BY <2>2 DEF Owing
              <4>2. outbox'[e].attempt = outbox[e].attempt + 1
                  BY <1>0, <2>1, <3>3, ClaimedType DEF TypeOK
              <4> QED
                  BY <3>1, <3>2, <4>1, <4>2, OwingCount
          <3>4. CASE e \notin DueBatch
              <4>1. Owing(e)' \subseteq Owing(e)
                  BY <2>2, <3>4 DEF Owing
              <4>2. outbox'[e].attempt = outbox[e].attempt
                  BY <2>1, <3>4
              <4> QED
                  BY <3>1, <3>2, <4>1, <4>2, OwingCount
          <3> QED
              BY <3>3, <3>4
      <2> QED
          BY <2>3, <2>4, <2>5 DEF PostsWithinAttempts, Owing
  <1>5. ASSUME NEW d \in Deliverers, NEW e \in Events, NEW stored \in BOOLEAN,
               NEW answer \in {"ok", "error"}, Post(d, e, stored, answer)
        PROVE  Rest'
      <2>1. /\ outbox' = outbox
            /\ accepted \subseteq accepted'
            /\ answer = "ok" => e \in accepted'
            /\ posts' = [posts EXCEPT ![e] = posts[e] + 1]
          BY <1>5 DEF Post
      <2>2. /\ pass'[d].current = e /\ pass'[d].answer = answer
            /\ pass'[d].batch = pass[d].batch \ {e}
            /\ \A c \in Deliverers \ {d} : pass'[c] = pass[c]
          BY <1>0, <1>5 DEF Post, TypeOK, PassRecord
      <2>3. HandIsHonest' /\ UnseenIsUncounted' /\ DeliveredWasAccepted'
          BY <2>1, <2>2 DEF IndInv, HandIsHonest, UnseenIsUncounted,
             DeliveredWasAccepted
      <2>4. ASSUME NEW f \in Events
            PROVE  posts'[f] + Cardinality(Owing(f)') <= outbox'[f].attempt
          <3>1. /\ Owing(f) \in SUBSET Deliverers
                /\ Owing(f)' \in SUBSET Deliverers
              BY DEF Owing
          <3>2. /\ posts[f] \in Nat /\ outbox[f].attempt \in Nat
                /\ posts[f] + Cardinality(Owing(f)) <= outbox[f].attempt
                /\ posts'[f] = IF f = e THEN posts[f] + 1 ELSE posts[f]
              BY <1>0, <2>1 DEF IndInv, TypeOK, OutboxRecord,
                 PostsWithinAttempts, Owing
          <3>3. CASE f = e
              <4>1. d \in Owing(f) /\ Owing(f)' \subseteq Owing(f) \ {d}
                  BY <1>5, <2>2, <3>3 DEF Owing, Post
              <4> QED
                  BY <2>1, <3>1, <3>2, <3>3, <4>1, OwingCount
          <3>4. CASE f # e
              <4>1. Owing(f)' \subseteq Owing(f)
                  BY <2>2, <3>4 DEF Owing
              <4> QED
                  BY <2>1, <3>1, <3>2, <3>4, <4>1, OwingCount
          <3> QED
              BY <3>3, <3>4
      <2> QED
          BY <2>3, <2>4 DEF PostsWithinAttempts, Owing
  <1>6. ASSUME NEW d \in Deliverers, Mark(d) PROVE Rest'
      <2> DEFINE e == pass[d].current
                 a == pass[d].answer
      <2>1. /\ pass[d] \in PassRecord /\ e \in Events
            /\ a \in {"none", "ok", "error"} /\ outbox[e] \in OutboxRecord
            /\ outbox[e].status = "delivering"
            /\ a = "ok" => e \in accepted
          BY <1>0, <1>6 DEF Mark, CanMark, IndInv, HandIsHonest, TypeOK, PassRecord
      <2>2. /\ outbox' = [outbox EXCEPT ![e] = Marked(outbox[e], a)]
            /\ pass' = [pass EXCEPT ![d] = MoreOrIdle(pass[d])]
            /\ UNCHANGED <<posts, accepted>>
          BY <1>6 DEF Mark
      <2>3. /\ Marked(outbox[e], a).attempt = outbox[e].attempt
            /\ Marked(outbox[e], a).status = "delivered" => a = "ok"
            /\ Marked(outbox[e], a).status # "absent"
          BY <2>1, MarkedType
      <2>4. /\ pass'[d].pc # "marking" /\ pass'[d].batch = pass[d].batch
            /\ \A c \in Deliverers \ {d} : pass'[c] = pass[c]
          BY <1>0, <2>1, <2>2, MoreOrIdleType DEF TypeOK
      <2>5. HandIsHonest'
          BY <2>2, <2>4 DEF IndInv, HandIsHonest
      <2>6. UnseenIsUncounted' /\ DeliveredWasAccepted'
          BY <1>0, <2>1, <2>2, <2>3 DEF IndInv, UnseenIsUncounted,
             DeliveredWasAccepted, TypeOK
      <2>7. ASSUME NEW f \in Events
            PROVE  posts'[f] + Cardinality(Owing(f)') <= outbox'[f].attempt
          <3>1. Owing(f)' = Owing(f)
              BY <2>4 DEF Owing
          <3>2. outbox'[f].attempt = outbox[f].attempt
              BY <1>0, <2>1, <2>2, <2>3 DEF TypeOK
          <3> QED
              BY <2>2, <3>1, <3>2 DEF IndInv, PostsWithinAttempts, Owing
      <2> QED
          BY <2>5, <2>6, <2>7 DEF PostsWithinAttempts, Owing
  <1>7. ASSUME NEW d \in Deliverers, MarkRefused(d) \/ Stop(d) PROVE Rest'
      <2>1. /\ UNCHANGED <<outbox, posts, accepted>>
            /\ pass' = [pass EXCEPT ![d] = IdlePass]
          BY <1>7 DEF MarkRefused, Stop
      <2>2. HandIsHonest'
          BY <1>0, <2>1 DEF IndInv, HandIsHonest, IdlePass, TypeOK
      <2>3. \A c \in Deliverers : pass'[c].batch \subseteq pass[c].batch
          BY <1>0, <2>1 DEF IdlePass, TypeOK
      <2> QED
          BY <1>0, <2>1, <2>2, <2>3, QuietStep
  <1>8. CASE UNCHANGED vars
      BY <1>8 DEF vars, IndInv, HandIsHonest, UnseenIsUncounted,
         DeliveredWasAccepted, PostsWithinAttempts
  <1> QED
      BY <1>1, <1>2, <1>3, <1>4, <1>5, <1>6, <1>7, <1>8 DEF Next, PassStep

\* The inductive invariant holds in every reachable state.
THEOREM IndInvAlways == Spec => []IndInv
  <1>1. Init => IndInv
      BY InitIndInv
  <1>2. IndInv /\ [Next]_vars => IndInv'
      BY IndInvNext
  <1> QED
      BY <1>1, <1>2, PTL DEF Spec

\* Type correctness of the outbox and of the passes: in particular the
\* events in a batch and in hand are always rows of the outbox.
THEOREM TypeCorrect == Spec => []TypeOK
  <1>1. IndInv => TypeOK
      BY DEF IndInv
  <1> QED
      BY <1>1, IndInvAlways, PTL

\* A record marked delivered was stored by the sink, whoever marked it.
THEOREM DeliveredWasAcceptedAlways == Spec => []DeliveredWasAccepted
  <1>1. IndInv => DeliveredWasAccepted
      BY DEF IndInv
  <1> QED
      BY <1>1, IndInvAlways, PTL

\* delivery_attempt bounds the posts made and still owed, although a claim
\* has no owner and several passes may hold the same event.
THEOREM PostsWithinAttemptsAlways == Spec => []PostsWithinAttempts
  <1>1. IndInv => PostsWithinAttempts
      BY DEF IndInv
  <1> QED
      BY <1>1, IndInvAlways, PTL
===============================================================================

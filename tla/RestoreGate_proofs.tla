--------------------------- MODULE RestoreGate_proofs -------------------------
(***************************************************************************)
(* The export sessions, their ledger and the restore that waits for them,  *)
(* proved for any sets of sessions, requests and workers and any bounds.   *)
(*                                                                         *)
(* On the export side the invariant follows a request from its arrival to  *)
(* the end of its ledger row and counts the open rows of every session.    *)
(* On the restore side it says that whoever runs the restore has fenced    *)
(* the operation and that, while the fence is held, the sessions that      *)
(* passed the gate stay as quiet as the gate found them, but for sessions  *)
(* whose create statement the fence overtook, requests begun by a time     *)
(* that had passed and requests whose ledger row was closed as stale.      *)
(***************************************************************************)
EXTENDS RestoreGate, TLAPS, FiniteSetTheorems

\* A request on its way, in service, and in the ledger.
RequestInv(r) ==
    LET g == gateway[r]
        l == ledger[r]
    IN  /\ g.pc \in {"new", "beginning"} => l.state = "none"
        /\ g.pc \in {"beginning", "serving"} =>
              /\ g.export \in Sessions
              /\ session[g.export].status # "absent"
              /\ g.write = 1 => session[g.export].mode = "read_write"
        /\ g.pc = "serving" =>
              /\ l.state \in {"open", "recovered"}
              /\ l.export = g.export /\ l.write = g.write
        /\ l.state = "open" =>
              /\ l.export \in Sessions
              /\ session[l.export].status \in {"active", "revoking"}
              /\ l.write = 1 => session[l.export].mode = "read_write"

\* The counts of a session and what write_drained_at says of them.
SessionInv(s) ==
    /\ session[s].requests = Cardinality(Open(s))
    /\ session[s].writes = Cardinality(OpenWrites(s))
    /\ session[s].drained = "yes" => session[s].writes = 0

ReconInv ==
    recon # NoRecon => recon.export \in Sessions /\ recon.target \in TerminalStatus

\* A row about to be inserted is a new one.
CreatingInv ==
    \A s \in Sessions :
        creating[s] = NoRow \/ \E m \in Mode, t \in Nat : creating[s] = NewSession(m, t)

ExportInv ==
    /\ ExportTypeOK
    /\ \A r \in Requests : RequestInv(r)
    /\ \A s \in Sessions : SessionInv(s)
    /\ ReconInv

\* The operation row by itself.
OperationInv ==
    /\ op.state \in {"absent", "queued"} => op.phase = "validate_restore"
    /\ op.state = "running" => op.owner \in Workers

\* A worker knows only the phase the row has, and works behind the fence.
WorkerInv(w) ==
    /\ worker[w].phase = "restore_writer_fenced" => op.phase = "restore_writer_fenced"
    /\ worker[w].pc \in {"gate", "restoring"} =>
          worker[w].phase = "restore_writer_fenced"
    /\ worker[w].pc = "committing" => worker[w].outcome # "none"
    /\ worker[w].time <= now

\* What the gate found of a session and what of it stays true: it admits
\* nothing that starts now, and a write still open on it has begun late.
Quiet(s) ==
    /\ session[s].mode = "read_write"
    /\ session[s].status \in {"active", "revoking"}
    /\ s \notin overtaken
    => /\ session[s].status = "revoking" \/ session[s].expires <= now
       /\ OpenWrites(s) \subseteq late

QuietWhileRestoring == Restoring => \A s \in Sessions : Quiet(s)

IndInv ==
    /\ TypeOK
    /\ ExportInv
    /\ CreatingInv
    /\ OperationInv
    /\ FenceFollowsOperation
    /\ \A w \in Workers : WorkerInv(w)
    /\ QuietWhileRestoring

USE SessionAssumption, RequestAssumption, TTLAssumption, ClockBoundAssumption,
    RestoreOwnerAssumption, RestoreBoundAssumption

------------------------------------------------------------------------------
(* Counting the open rows.                                                  *)

\* The open rows of a session are finitely many.
LEMMA OpenIsFinite ==
    ASSUME NEW s
    PROVE  /\ IsFiniteSet(Open(s)) /\ Cardinality(Open(s)) \in Nat
           /\ IsFiniteSet(OpenWrites(s)) /\ Cardinality(OpenWrites(s)) \in Nat
  <1>1. Open(s) \subseteq Requests /\ OpenWrites(s) \subseteq Requests
      BY DEF Open, OpenWrites
  <1>2. IsFiniteSet(Open(s)) /\ IsFiniteSet(OpenWrites(s))
      BY <1>1, FS_Subset
  <1> QED
      BY <1>2, FS_CardinalityType

\* A set of finite size and the set that gains a member, or loses a part.
LEMMA OneMore ==
    ASSUME NEW A, IsFiniteSet(A), NEW x, x \notin A
    PROVE  Cardinality(A \cup {x}) = Cardinality(A) + 1
  BY FS_AddElement

LEMMA SomeLess ==
    ASSUME NEW A, IsFiniteSet(A), NEW B, B \subseteq A
    PROVE  Cardinality(A \ B) = Cardinality(A) - Cardinality(B)
  <1>1. A \cap B = B
      OBVIOUS
  <1> QED
      BY <1>1, FS_Difference

\* A session whose counts and open rows are left alone.
LEMMA CountsKept ==
    ASSUME NEW s, SessionInv(s),
           Open(s)' = Open(s), OpenWrites(s)' = OpenWrites(s),
           session'[s].requests = session[s].requests,
           session'[s].writes = session[s].writes,
           session'[s].drained = session[s].drained \/ session'[s].writes = 0
    PROVE  SessionInv(s)'
  BY DEF SessionInv

\* The open rows of a session depend on three columns of the ledger.
LEMMA OpenKept ==
    ASSUME NEW s,
           \A r \in Requests :
               \/ /\ ledger'[r].state = ledger[r].state
                  /\ ledger'[r].export = ledger[r].export
                  /\ ledger'[r].write = ledger[r].write
               \/ /\ ~(ledger[r].state = "open" /\ ledger[r].export = s)
                  /\ ~(ledger'[r].state = "open" /\ ledger'[r].export = s)
    PROVE  Open(s)' = Open(s) /\ OpenWrites(s)' = OpenWrites(s)
  BY DEF Open, OpenWrites

------------------------------------------------------------------------------
(* What every statement leaves true of a session.                           *)

\* A session that exists keeps its mode and goes on existing; it ends only
\* when nothing is open on it.
SessionKeeps(s) ==
    /\ session[s].status # "absent" =>
          session'[s].status # "absent" /\ session'[s].mode = session[s].mode
    /\ session[s].status \in {"active", "revoking"} /\ Open(s) # {} =>
          session'[s].status \in {"active", "revoking"}

\* A request whose row and handler are left alone by the statement.
LEMMA RequestKept ==
    ASSUME ExportTypeOK, NEW r \in Requests, RequestInv(r),
           \A s \in Sessions : SessionKeeps(s),
           gateway'[r] = gateway[r], ledger'[r] = ledger[r], now' = now
    PROVE  RequestInv(r)'
  <1>1. ledger[r].state = "open" => r \in Open(ledger[r].export)
      BY DEF Open
  <1> QED
      BY <1>1 DEF RequestInv, SessionKeeps

\* The same for a handler that is done, whatever became of its row before.
LEMMA DoneRequest ==
    ASSUME ExportTypeOK, NEW r \in Requests, RequestInv(r),
           \A s \in Sessions : SessionKeeps(s),
           gateway'[r] = Done,
           ledger'[r] = ledger[r] \/ ledger'[r].state \in {"closed", "recovered"}
    PROVE  RequestInv(r)'
  <1>1. ledger[r].state = "open" => r \in Open(ledger[r].export)
      BY DEF Open
  <1> QED
      BY <1>1 DEF RequestInv, SessionKeeps, Done

------------------------------------------------------------------------------
(* The statements.                                                          *)

\* Rows of the session table stay rows.
LEMMA UpdatedRow ==
    ASSUME NEW row \in SessionRecord, NEW n \in Nat, NEW w \in Nat, NEW h \in Nat,
           NEW d \in {"no", "yes"}
    PROVE  /\ [row EXCEPT !.requests = n, !.writes = w, !.heartbeat = h, !.drained = d]
                 \in SessionRecord
           /\ [row EXCEPT !.requests = n, !.writes = w, !.drained = d] \in SessionRecord
  BY DEF SessionRecord

LEMMA BegunRow ==
    ASSUME NEW row \in SessionRecord, NEW t \in Nat, NEW w \in {0, 1},
           Latest(row.heartbeat, t + HeartbeatTTL) \in Nat
    PROVE  Begun(row, t, w) \in SessionRecord
  <1>1. row.requests \in Nat /\ row.writes \in Nat
      BY DEF SessionRecord
  <1>2. row.requests + 1 \in Nat /\ row.writes + w \in Nat
      BY <1>1
  <1> DEFINE d == IF row.writes + w = 0 THEN "yes" ELSE "no"
  <1>3. d \in {"no", "yes"}
      OBVIOUS
  <1>4. Begun(row, t, w) =
           [row EXCEPT !.requests = row.requests + 1, !.writes = row.writes + w,
                       !.heartbeat = Latest(row.heartbeat, t + HeartbeatTTL),
                       !.drained = d]
      BY DEF Begun, SessionRecord
  <1> HIDE DEF d
  <1>5. \A n, v, h \in Nat, x \in {"no", "yes"} :
           [row EXCEPT !.requests = n, !.writes = v, !.heartbeat = h, !.drained = x]
               \in SessionRecord
      BY UpdatedRow
  <1>6. [row EXCEPT !.requests = row.requests + 1, !.writes = row.writes + w,
                    !.heartbeat = Latest(row.heartbeat, t + HeartbeatTTL),
                    !.drained = d] \in SessionRecord
      BY <1>2, <1>3, <1>5, Zenon
  <1> QED
      BY <1>4, <1>6

LEMMA ReducedRow ==
    ASSUME NEW row \in SessionRecord, NEW n \in Nat, NEW w \in Nat,
           row.requests >= n, row.writes >= w
    PROVE  /\ Reduced(row, n, w) \in SessionRecord
           /\ Reduced(row, n, w).requests = row.requests - n
           /\ Reduced(row, n, w).writes = row.writes - w
           /\ Reduced(row, n, w).status = row.status
           /\ Reduced(row, n, w).mode = row.mode
           /\ Reduced(row, n, w).expires = row.expires
           /\ Reduced(row, n, w).drained = "yes" => row.writes - w = 0
  <1>1. row.requests \in Nat /\ row.writes \in Nat
      BY DEF SessionRecord
  <1>2. row.requests - n \in Nat /\ row.writes - w \in Nat
      BY <1>1
  <1> DEFINE d == IF row.writes - w = 0 THEN "yes" ELSE "no"
  <1>3. d \in {"no", "yes"}
      OBVIOUS
  <1>4. Reduced(row, n, w) =
           [row EXCEPT !.requests = row.requests - n, !.writes = row.writes - w,
                       !.drained = d]
      BY DEF Reduced, SessionRecord
  <1>5. d = "yes" => row.writes - w = 0
      OBVIOUS
  <1> HIDE DEF d
  <1>6. \A m, v \in Nat, x \in {"no", "yes"} :
           [row EXCEPT !.requests = m, !.writes = v, !.drained = x] \in SessionRecord
      BY UpdatedRow
  <1>7. [row EXCEPT !.requests = row.requests - n, !.writes = row.writes - w,
                    !.drained = d] \in SessionRecord
      BY <1>2, <1>3, <1>6, Zenon
  <1> QED
      BY <1>4, <1>5, <1>7 DEF SessionRecord

\* The begin statement counts the row it opens.
LEMMA BeginInv ==
    ASSUME ExportInv, NEW r \in Requests, NEW answered \in BOOLEAN,
           BeginRequest(r, answered)
    PROVE  ExportInv'
  <1> DEFINE e == gateway[r].export
             w == gateway[r].write
             t == gateway[r].started
  <1>0. ExportTypeOK /\ RequestInv(r) /\ ReconInv
      BY DEF ExportInv
  <1>1. gateway[r].pc = "beginning" /\ Admissible(e, t)
      BY DEF BeginRequest
  <1>2. e \in Sessions /\ w \in {0, 1} /\ t \in Nat /\ ledger[r].state = "none"
      BY <1>0, <1>1 DEF RequestInv, ExportTypeOK, GatewayRecord
  <1>3. w = 1 => session[e].mode = "read_write"
      BY <1>0, <1>1 DEF RequestInv
  <1>4. ledger' = [ledger EXCEPT ![r] = [state |-> "open", export |-> e, write |-> w,
                                         heartbeat |-> t + HeartbeatTTL]]
      BY DEF BeginRequest
  <1>5. session' = [session EXCEPT ![e] = Begun(session[e], t, w)]
      BY <1>0 DEF BeginRequest, ExportTypeOK
  <1>6. gateway' = [gateway EXCEPT ![r] = IF answered
                                          THEN [gateway[r] EXCEPT !.pc = "serving"]
                                          ELSE Done]
      BY <1>0 DEF BeginRequest, ExportTypeOK
  <1>7. now' = now /\ recon' = recon
      BY DEF BeginRequest
  <1>8. Begun(session[e], t, w) \in SessionRecord
      <2>1. session[e] \in SessionRecord
          BY <1>0, <1>2 DEF ExportTypeOK
      <2>2. Latest(session[e].heartbeat, t + HeartbeatTTL) \in Nat
          BY <2>1, <1>2 DEF Latest, SessionRecord
      <2> QED
          BY <2>1, <2>2, <1>2, BegunRow
  <1>9. /\ session'[e] = Begun(session[e], t, w)
        /\ \A s \in Sessions \ {e} : session'[s] = session[s]
        /\ \A q \in Requests \ {r} : ledger'[q] = ledger[q] /\ gateway'[q] = gateway[q]
      BY <1>0, <1>2, <1>4, <1>5, <1>6 DEF ExportTypeOK
  <1>10. /\ session'[e].mode = session[e].mode
         /\ session'[e].status = session[e].status
         /\ session'[e].requests = session[e].requests + 1
         /\ session'[e].writes = session[e].writes + w
         /\ session'[e].drained = "yes" => session[e].writes + w = 0
      BY <1>0, <1>2, <1>9 DEF Begun, ExportTypeOK, SessionRecord
  <1>11. ExportTypeOK'
      <2>1. session' \in [Sessions -> SessionRecord]
          BY <1>0, <1>5, <1>8 DEF ExportTypeOK
      <2>2. ledger' \in [Requests -> LedgerRecord]
          BY <1>0, <1>2, <1>4 DEF ExportTypeOK, LedgerRecord
      <2>3. gateway' \in [Requests -> GatewayRecord]
          <3>1. [gateway[r] EXCEPT !.pc = "serving"] \in GatewayRecord /\ Done \in GatewayRecord
              BY <1>0 DEF ExportTypeOK, GatewayRecord, Done
          <3> QED
              BY <1>0, <1>6, <3>1 DEF ExportTypeOK
      <2> QED
          BY <1>0, <1>7, <2>1, <2>2, <2>3 DEF ExportTypeOK
  <1>12. \A s \in Sessions : SessionKeeps(s)
      BY <1>9, <1>10 DEF SessionKeeps
  <1>13. ASSUME NEW q \in Requests PROVE RequestInv(q)'
      <2>1. CASE q # r
          BY <1>0, <1>7, <1>9, <1>12, <2>1, RequestKept DEF ExportInv
      <2>2. CASE q = r
          <3>1. ledger'[r] = [state |-> "open", export |-> e, write |-> w,
                              heartbeat |-> t + HeartbeatTTL]
              BY <1>0, <1>4 DEF ExportTypeOK
          <3>2. session'[e].status = "active" /\ (w = 1 => session'[e].mode = "read_write")
              BY <1>1, <1>3, <1>10 DEF Admissible
          <3>4. CASE answered
              <4>1. gateway'[r] = [gateway[r] EXCEPT !.pc = "serving"]
                  BY <1>0, <1>6, <3>4 DEF ExportTypeOK
              <4>2. /\ gateway'[r].pc = "serving" /\ gateway'[r].export = e
                    /\ gateway'[r].write = w
                  BY <4>1, <1>0 DEF ExportTypeOK, GatewayRecord
              <4> QED
                  BY <1>2, <1>7, <2>2, <3>1, <3>2, <4>2 DEF RequestInv
          <3>5. CASE ~answered
              <4>1. gateway'[r] = Done
                  BY <1>0, <1>6, <3>5 DEF ExportTypeOK
              <4> QED
                  BY <1>2, <2>2, <3>1, <3>2, <4>1 DEF RequestInv, Done
          <3> QED
              BY <3>4, <3>5
      <2> QED
          BY <2>1, <2>2
  <1>14. ASSUME NEW s \in Sessions PROVE SessionInv(s)'
      <2>0. SessionInv(s)
          BY DEF ExportInv
      <2>1. CASE s # e
          <3>1. Open(s)' = Open(s) /\ OpenWrites(s)' = OpenWrites(s)
              BY <1>0, <1>2, <1>4, <1>9, <2>1, OpenKept DEF ExportTypeOK
          <3> QED
              BY <1>9, <2>0, <2>1, <3>1, CountsKept
      <2>2. CASE s = e
          <3>1. Open(s)' = Open(s) \cup {r} /\ r \notin Open(s)
              BY <1>0, <1>2, <1>4, <2>2 DEF Open, ExportTypeOK
          <3>2. OpenWrites(s)' = OpenWrites(s) \cup (IF w = 1 THEN {r} ELSE {})
              BY <1>0, <1>2, <1>4, <2>2, <3>1 DEF Open, OpenWrites, ExportTypeOK
          <3>3. r \notin OpenWrites(s)
              BY <3>1 DEF OpenWrites
          <3>4. Cardinality(Open(s)') = Cardinality(Open(s)) + 1
              BY <3>1, OneMore, OpenIsFinite
          <3>5. Cardinality(OpenWrites(s)') = Cardinality(OpenWrites(s)) + w
              <4>1. CASE w = 1
                  BY <4>1, <3>2, <3>3, OneMore, OpenIsFinite
              <4>2. CASE w = 0
                  BY <4>2, <3>2, OpenIsFinite
              <4> QED
                  BY <1>2, <4>1, <4>2
          <3> QED
              BY <1>10, <2>0, <2>2, <3>4, <3>5 DEF SessionInv
      <2> QED
          BY <2>1, <2>2
  <1> QED
      BY <1>0, <1>7, <1>11, <1>13, <1>14 DEF ExportInv, ReconInv

\* The end statement takes the row it closes out of the counts, once.
LEMMA EndInv ==
    ASSUME ExportInv, NEW r \in Requests, EndRequest(r)
    PROVE  ExportInv'
  <1>0. ExportTypeOK /\ RequestInv(r) /\ ReconInv
      BY DEF ExportInv
  <1>1. gateway' = [gateway EXCEPT ![r] = Done] /\ now' = now /\ recon' = recon
      BY DEF EndRequest
  <1>2. gateway' \in [Requests -> GatewayRecord] /\ gateway'[r] = Done
        /\ \A q \in Requests \ {r} : gateway'[q] = gateway[q]
      BY <1>0, <1>1 DEF ExportTypeOK, Done, GatewayRecord
  <1>3. CASE ~CanEnd(r)
      <2>1. ledger' = ledger /\ session' = session
          BY <1>3 DEF EndRequest, CloseRow
      <2>2. \A s \in Sessions : SessionKeeps(s)
          BY <2>1 DEF SessionKeeps
      <2>3. ASSUME NEW q \in Requests PROVE RequestInv(q)'
          <3>1. RequestInv(q)
              BY DEF ExportInv
          <3>2. CASE q = r
              BY <1>0, <1>2, <2>1, <2>2, <3>1, <3>2, DoneRequest
          <3>3. CASE q # r
              BY <1>0, <1>1, <1>2, <2>1, <2>2, <3>1, <3>3, RequestKept
          <3> QED
              BY <3>2, <3>3
      <2>4. ASSUME NEW s \in Sessions PROVE SessionInv(s)'
          BY <2>1 DEF ExportInv, SessionInv, Open, OpenWrites
      <2> QED
          BY <1>0, <1>1, <1>2, <2>1, <2>3, <2>4 DEF ExportInv, ExportTypeOK, ReconInv
  <1>4. CASE CanEnd(r)
      <2> DEFINE e == ledger[r].export
                 w == ledger[r].write
      <2>1. ledger[r].state = "open" /\ e \in Sessions /\ w \in {0, 1}
          BY <1>0, <1>4 DEF CanEnd, RequestInv, ExportTypeOK, LedgerRecord
      <2>2. session[e] \in SessionRecord /\ session[e].requests >= 1 /\ session[e].writes >= w
          BY <1>0, <1>4, <2>1 DEF CanEnd, ExportTypeOK
      <2>3. ledger' = [ledger EXCEPT ![r].state = "closed"]
          BY <1>4 DEF EndRequest, CloseRow
      <2>4. session' = [session EXCEPT ![e] = Reduced(session[e], 1, w)]
          BY <1>0, <1>4 DEF EndRequest, CloseRow, ExportTypeOK
      <2>5. /\ session'[e] = Reduced(session[e], 1, w)
            /\ \A s \in Sessions \ {e} : session'[s] = session[s]
          BY <1>0, <2>1, <2>4 DEF ExportTypeOK
      <2>6. /\ session'[e] \in SessionRecord
            /\ session'[e].requests = session[e].requests - 1
            /\ session'[e].writes = session[e].writes - w
            /\ session'[e].status = session[e].status
            /\ session'[e].mode = session[e].mode
            /\ session'[e].drained = "yes" => session'[e].writes = 0
          <3>1. w \in Nat /\ 1 \in Nat
              BY <2>1
          <3> HIDE DEF e, w
          <3> QED
              BY <2>2, <2>5, <3>1, ReducedRow
      <2>7. /\ ledger' \in [Requests -> LedgerRecord]
            /\ ledger'[r].state = "closed"
            /\ \A q \in Requests \ {r} : ledger'[q] = ledger[q]
          BY <1>0, <2>3 DEF ExportTypeOK, LedgerRecord
      <2>8. ExportTypeOK'
          <3>1. session' \in [Sessions -> SessionRecord]
              BY <1>0, <2>4, <2>5, <2>6 DEF ExportTypeOK
          <3> QED
              BY <1>0, <1>1, <1>2, <2>7, <3>1 DEF ExportTypeOK
      <2>9. \A s \in Sessions : SessionKeeps(s)
          BY <2>5, <2>6 DEF SessionKeeps
      <2>10. ASSUME NEW q \in Requests PROVE RequestInv(q)'
          <3>1. RequestInv(q)
              BY DEF ExportInv
          <3>2. CASE q = r
              BY <1>0, <1>2, <2>7, <2>9, <3>1, <3>2, DoneRequest
          <3>3. CASE q # r
              BY <1>0, <1>1, <1>2, <2>7, <2>9, <3>1, <3>3, RequestKept
          <3> QED
              BY <3>2, <3>3
      <2>11. ASSUME NEW s \in Sessions PROVE SessionInv(s)'
          <3>0. SessionInv(s)
              BY DEF ExportInv
          <3>1. CASE s # e
              <4>1. Open(s)' = Open(s) /\ OpenWrites(s)' = OpenWrites(s)
                  BY <2>1, <2>7, <3>1, OpenKept
              <4> QED
                  BY <2>5, <3>0, <3>1, <4>1, CountsKept
          <3>2. CASE s = e
              <4>1. Open(s)' = Open(s) \ {r} /\ {r} \subseteq Open(s)
                  BY <2>1, <2>7, <3>2 DEF Open
              <4>2. OpenWrites(s)' = OpenWrites(s) \ {r}
                  BY <2>1, <2>7, <3>2 DEF Open, OpenWrites
              <4>3. r \in OpenWrites(s) <=> w = 1
                  BY <4>1 DEF OpenWrites
              <4>4. Cardinality(Open(s)') = Cardinality(Open(s)) - 1
                  BY <4>1, OpenIsFinite, FS_RemoveElement
              <4>5. Cardinality(OpenWrites(s)') = Cardinality(OpenWrites(s)) - w
                  <5>1. Cardinality(OpenWrites(s) \ {r}) =
                           IF r \in OpenWrites(s) THEN Cardinality(OpenWrites(s)) - 1
                           ELSE Cardinality(OpenWrites(s))
                      BY OpenIsFinite, FS_RemoveElement
                  <5>2. Cardinality(OpenWrites(s)) \in Nat
                      BY OpenIsFinite
                  <5> QED
                      BY <2>1, <4>2, <4>3, <5>1, <5>2
              <4> QED
                  BY <2>6, <3>0, <3>2, <4>4, <4>5 DEF SessionInv
          <3> QED
              BY <3>1, <3>2
      <2> QED
          BY <1>0, <1>1, <2>8, <2>10, <2>11 DEF ExportInv, ReconInv
  <1> QED
      BY <1>3, <1>4

\* The recovery of stale rows takes all of them out of the counts at once.
LEMMA RecoverInv ==
    ASSUME ExportInv, NEW S \in SUBSET Stale, RecoverStale(S)
    PROVE  ExportInv'
  <1>0. ExportTypeOK /\ ReconInv
      BY DEF ExportInv
  <1>1. S \subseteq Requests /\ \A r \in S : ledger[r].state = "open" /\ ledger[r].heartbeat <= now
      BY DEF Stale
  <1>2. UNCHANGED <<now, gateway, recon>>
      BY DEF RecoverStale
  <1>3. /\ ledger' \in [Requests -> LedgerRecord]
        /\ \A r \in Requests \ S : ledger'[r] = ledger[r]
        /\ \A r \in S : ledger'[r] = [ledger[r] EXCEPT !.state = "recovered"]
      BY <1>0, <1>1 DEF RecoverStale, ExportTypeOK, LedgerRecord
  <1>4. \A r \in S : /\ ledger'[r].state = "recovered"
                     /\ ledger'[r].export = ledger[r].export
                     /\ ledger'[r].write = ledger[r].write
      <2> TAKE r \in S
      <2>1. ledger[r] \in LedgerRecord
          BY <1>0, <1>1 DEF ExportTypeOK
      <2>2. ledger'[r] = [ledger[r] EXCEPT !.state = "recovered"]
          BY <1>3
      <2> QED
          BY <2>1, <2>2 DEF LedgerRecord
  <1>5. \A s \in Sessions :
           /\ StaleOf(S, s) \subseteq Open(s) /\ StaleWrites(S, s) \subseteq OpenWrites(s)
           /\ Cardinality(StaleOf(S, s)) \in Nat /\ Cardinality(StaleWrites(S, s)) \in Nat
      <2> TAKE s \in Sessions
      <2>1. StaleOf(S, s) \subseteq Open(s) /\ StaleWrites(S, s) \subseteq OpenWrites(s)
          BY <1>1 DEF StaleOf, StaleWrites, Open, OpenWrites
      <2>2. IsFiniteSet(StaleOf(S, s)) /\ IsFiniteSet(StaleWrites(S, s))
          BY <2>1, OpenIsFinite, FS_Subset
      <2> QED
          BY <2>1, <2>2, FS_CardinalityType
  <1>6. ASSUME NEW s \in Sessions
        PROVE  /\ session'[s] \in SessionRecord
               /\ session'[s].requests = session[s].requests - Cardinality(StaleOf(S, s))
               /\ session'[s].writes = session[s].writes - Cardinality(StaleWrites(S, s))
               /\ session'[s].status = session[s].status
               /\ session'[s].mode = session[s].mode
               /\ session'[s].drained = "yes" => session'[s].writes = 0
      <2>1. session[s] \in SessionRecord /\ SessionInv(s)
          BY <1>0 DEF ExportTypeOK, ExportInv
      <2>2. CASE StaleOf(S, s) = {}
          <3>1. StaleWrites(S, s) = {} /\ session'[s] = session[s]
              BY <2>2 DEF StaleWrites, RecoverStale
          <3>2. Cardinality({}) = 0
              BY FS_EmptySet
          <3>3. session[s].requests \in Nat /\ session[s].writes \in Nat
              BY <2>1 DEF SessionRecord
          <3> QED
              BY <2>1, <2>2, <3>1, <3>2, <3>3 DEF SessionInv
      <2>3. CASE StaleOf(S, s) # {}
          <3>1. session'[s] = Reduced(session[s], Cardinality(StaleOf(S, s)),
                                      Cardinality(StaleWrites(S, s)))
              BY <2>3 DEF RecoverStale
          <3>2. /\ session[s].requests >= Cardinality(StaleOf(S, s))
                /\ session[s].writes >= Cardinality(StaleWrites(S, s))
              BY DEF RecoverStale, CountsCover
          <3> QED
              BY <1>5, <2>1, <3>1, <3>2, ReducedRow
      <2> QED
          BY <2>2, <2>3
  <1>7. ExportTypeOK'
      <2>1. session' \in [Sessions -> SessionRecord]
          <3>1. session' = [s \in Sessions |-> session'[s]]
              BY DEF RecoverStale
          <3> QED
              BY <1>6, <3>1
      <2> QED
          BY <1>0, <1>2, <1>3, <2>1 DEF ExportTypeOK
  <1>8. \A s \in Sessions : SessionKeeps(s)
      BY <1>6 DEF SessionKeeps
  <1>9. ASSUME NEW q \in Requests PROVE RequestInv(q)'
      <2>1. RequestInv(q)
          BY DEF ExportInv
      <2>2. CASE q \notin S
          BY <1>0, <1>2, <1>3, <1>8, <2>1, <2>2, RequestKept
      <2>3. CASE q \in S
          <3>1. ledger[q].state = "open" /\ ~(now < ledger[q].heartbeat)
              BY <1>0, <1>1, <2>3 DEF ExportTypeOK, LedgerRecord
          <3> QED
              BY <1>2, <1>4, <1>8, <2>1, <2>3, <3>1 DEF RequestInv, SessionKeeps
      <2> QED
          BY <2>2, <2>3
  <1>10. ASSUME NEW s \in Sessions PROVE SessionInv(s)'
      <2>0. SessionInv(s)
          BY DEF ExportInv
      <2>1. Open(s)' = Open(s) \ StaleOf(S, s)
          BY <1>1, <1>3, <1>4 DEF Open, StaleOf
      <2>2. OpenWrites(s)' = OpenWrites(s) \ StaleWrites(S, s)
          BY <1>1, <1>3, <1>4, <2>1 DEF Open, OpenWrites, StaleOf, StaleWrites
      <2>3. Cardinality(Open(s)') = Cardinality(Open(s)) - Cardinality(StaleOf(S, s))
          BY <1>5, <2>1, SomeLess, OpenIsFinite
      <2>4. Cardinality(OpenWrites(s)') =
                Cardinality(OpenWrites(s)) - Cardinality(StaleWrites(S, s))
          BY <1>5, <2>2, SomeLess, OpenIsFinite
      <2> QED
          BY <1>6, <2>0, <2>3, <2>4 DEF SessionInv
  <1> QED
      BY <1>0, <1>2, <1>7, <1>9, <1>10 DEF ExportInv, ReconInv

\* The terminal statement ends a session with nothing open, or does nothing.
LEMMA ReconcileInv ==
    ASSUME ExportInv, ReconcileTerminal
    PROVE  ExportInv'
  <1> DEFINE e == recon.export
  <1>0. ExportTypeOK /\ ReconInv
      BY DEF ExportInv
  <1>1. recon # NoRecon /\ e \in Sessions /\ recon.target \in TerminalStatus
      BY <1>0 DEF ReconInv, ReconcileTerminal
  <1>2. recon' = NoRecon /\ UNCHANGED <<now, ledger, gateway>>
      BY DEF ReconcileTerminal
  <1>3. NoRecon \in ReconRecord
      BY DEF NoRecon, ReconRecord
  <1>4. \A s \in Sessions : Open(s)' = Open(s) /\ OpenWrites(s)' = OpenWrites(s)
      BY <1>2 DEF Open, OpenWrites
  <1>5. CASE UNCHANGED session
      <2>1. \A s \in Sessions : SessionKeeps(s)
          BY <1>5 DEF SessionKeeps
      <2>2. \A q \in Requests : RequestInv(q)'
          BY <1>0, <1>2, <2>1, RequestKept DEF ExportInv
      <2>3. \A s \in Sessions : SessionInv(s)'
          BY <1>4, <1>5 DEF ExportInv, SessionInv
      <2> QED
          BY <1>0, <1>2, <1>3, <1>5, <2>2, <2>3 DEF ExportInv, ExportTypeOK, ReconInv
  <1>6. CASE Drained(e) /\ session' = [session EXCEPT ![e] = Finished(session[e], recon.target)]
      <2>1. /\ session'[e] = Finished(session[e], recon.target)
            /\ \A s \in Sessions \ {e} : session'[s] = session[s]
          BY <1>0, <1>1, <1>6 DEF ExportTypeOK
      <2>2. session[e] \in SessionRecord
          BY <1>0, <1>1 DEF ExportTypeOK
      <2>3. /\ session'[e] \in SessionRecord
            /\ session'[e].status = recon.target
            /\ session'[e].mode = session[e].mode
            /\ session'[e].requests = session[e].requests
            /\ session'[e].writes = session[e].writes
          BY <1>1, <2>1, <2>2 DEF Finished, SessionRecord
      <2>4. ExportTypeOK'
          <3>1. session' \in [Sessions -> SessionRecord]
              BY <1>0, <1>6, <2>1, <2>3 DEF ExportTypeOK
          <3> QED
              BY <1>0, <1>2, <1>3, <3>1 DEF ExportTypeOK
      <2>5. Open(e) = {} /\ session[e].writes = 0
          BY <1>6 DEF Drained
      <2>6. \A s \in Sessions : SessionKeeps(s)
          BY <1>1, <2>1, <2>3, <2>5 DEF SessionKeeps, TerminalStatus
      <2>7. \A q \in Requests : RequestInv(q)'
          BY <1>0, <1>2, <2>6, RequestKept DEF ExportInv
      <2>8. ASSUME NEW s \in Sessions PROVE SessionInv(s)'
          <3>1. SessionInv(s)
              BY DEF ExportInv
          <3>2. CASE s # e
              BY <1>4, <2>1, <3>1, <3>2, CountsKept
          <3>3. CASE s = e
              BY <1>4, <2>3, <2>5, <3>1, <3>3, CountsKept
          <3> QED
              BY <3>2, <3>3
      <2> QED
          BY <1>2, <2>4, <2>7, <2>8 DEF ExportInv, ReconInv
  <1> QED
      BY <1>0, <1>5, <1>6 DEF ReconcileTerminal, ExportTypeOK

\* A heartbeat moves two expiry times and nothing else.
LEMMA HeartbeatInv ==
    ASSUME ExportInv, NEW r \in Requests, Heartbeat(r)
    PROVE  ExportInv'
  <1> DEFINE e == ledger[r].export
  <1>0. ExportTypeOK /\ RequestInv(r) /\ ReconInv
      BY DEF ExportInv
  <1>1. gateway[r].pc = "serving" /\ ledger[r].state = "open" /\ e \in Sessions
      BY <1>0 DEF Heartbeat, RequestInv
  <1>2. UNCHANGED <<now, gateway, recon>>
      BY DEF Heartbeat
  <1>3. /\ ledger' = [ledger EXCEPT ![r] = Beaten(ledger[r], now)]
        /\ session' = [session EXCEPT ![e] = Beaten(session[e], now)]
      BY <1>0, <1>1 DEF Heartbeat, ExportTypeOK
  <1>4. /\ session'[e] = Beaten(session[e], now)
        /\ ledger'[r] = Beaten(ledger[r], now)
        /\ \A s \in Sessions \ {e} : session'[s] = session[s]
        /\ \A q \in Requests \ {r} : ledger'[q] = ledger[q]
      BY <1>0, <1>1, <1>3 DEF ExportTypeOK
  <1>5. session[e] \in SessionRecord /\ ledger[r] \in LedgerRecord /\ now \in Nat
      BY <1>0, <1>1 DEF ExportTypeOK
  <1>6. /\ Latest(session[e].heartbeat, now + HeartbeatTTL) \in Nat
        /\ Latest(ledger[r].heartbeat, now + HeartbeatTTL) \in Nat
        /\ now < Latest(ledger[r].heartbeat, now + HeartbeatTTL)
      BY <1>5 DEF Latest, SessionRecord, LedgerRecord
  <1>7. /\ session'[e] \in SessionRecord
        /\ session'[e].status = session[e].status /\ session'[e].mode = session[e].mode
        /\ session'[e].requests = session[e].requests
        /\ session'[e].writes = session[e].writes
        /\ session'[e].drained = session[e].drained
      BY <1>4, <1>5, <1>6 DEF Beaten, SessionRecord
  <1>8. /\ ledger'[r] \in LedgerRecord
        /\ ledger'[r].state = ledger[r].state /\ ledger'[r].export = e
        /\ ledger'[r].write = ledger[r].write
        /\ ledger'[r].heartbeat = Latest(ledger[r].heartbeat, now + HeartbeatTTL)
      BY <1>4, <1>5, <1>6 DEF Beaten, LedgerRecord
  <1>9. ExportTypeOK'
      <2>1. session' \in [Sessions -> SessionRecord]
          BY <1>0, <1>3, <1>4, <1>7 DEF ExportTypeOK
      <2>2. ledger' \in [Requests -> LedgerRecord]
          BY <1>0, <1>3, <1>4, <1>8 DEF ExportTypeOK
      <2> QED
          BY <1>0, <1>2, <2>1, <2>2 DEF ExportTypeOK
  <1>10. \A s \in Sessions : SessionKeeps(s)
      BY <1>4, <1>7 DEF SessionKeeps
  <1>11. ASSUME NEW q \in Requests PROVE RequestInv(q)'
      <2>1. CASE q # r
          BY <1>0, <1>2, <1>4, <1>10, <2>1, RequestKept DEF ExportInv
      <2>2. CASE q = r
          <3>1. r \in Open(e)
              BY <1>1 DEF Open
          <3> QED
              BY <1>0, <1>1, <1>2, <1>6, <1>8, <1>10, <2>2, <3>1 DEF RequestInv, SessionKeeps
      <2> QED
          BY <2>1, <2>2
  <1>12. ASSUME NEW s \in Sessions PROVE SessionInv(s)'
      <2>1. Open(s)' = Open(s) /\ OpenWrites(s)' = OpenWrites(s)
          BY <1>4, <1>8, OpenKept
      <2>2. SessionInv(s)
          BY DEF ExportInv
      <2>3. CASE s = e
          BY <1>7, <2>1, <2>2, <2>3, CountsKept
      <2>4. CASE s # e
          BY <1>4, <2>1, <2>2, <2>4, CountsKept
      <2> QED
          BY <2>3, <2>4
  <1> QED
      BY <1>0, <1>2, <1>9, <1>11, <1>12 DEF ExportInv, ReconInv

\* Steps of a handler alone: arrival, refusal, and the death of the process.
LEMMA HandlerInv ==
    ASSUME ExportInv, NEW r \in Requests,
           \/ \E s \in Sessions, write \in {0, 1} : Arrive(r, s, write)
           \/ Deny(r) \/ BeginDenied(r) \/ AbandonRequest(r)
    PROVE  ExportInv'
  <1>0. ExportTypeOK /\ RequestInv(r) /\ ReconInv
      BY DEF ExportInv
  <1>1. UNCHANGED <<now, session, ledger, recon>>
      BY DEF Arrive, Deny, BeginDenied, AbandonRequest
  <1>2. \A s \in Sessions : SessionKeeps(s)
      BY <1>1 DEF SessionKeeps
  <1>3. \A s \in Sessions : SessionInv(s)'
      BY <1>1 DEF ExportInv, SessionInv, Open, OpenWrites
  <1>4. \A q \in Requests \ {r} : gateway'[q] = gateway[q]
      BY <1>0 DEF Arrive, Deny, BeginDenied, AbandonRequest, ExportTypeOK
  <1>5. \A q \in Requests \ {r} : RequestInv(q)'
      BY <1>0, <1>1, <1>2, <1>4, RequestKept DEF ExportInv
  <1>6. gateway' \in [Requests -> GatewayRecord] /\ RequestInv(r)'
      <2>1. CASE Deny(r) \/ BeginDenied(r) \/ AbandonRequest(r)
          <3>1. gateway' = [gateway EXCEPT ![r] = Done] /\ Done \in GatewayRecord
              BY <2>1 DEF Deny, BeginDenied, AbandonRequest, Done, GatewayRecord
          <3>2. gateway' \in [Requests -> GatewayRecord] /\ gateway'[r] = Done
              BY <1>0, <3>1 DEF ExportTypeOK
          <3> QED
              BY <1>0, <1>1, <1>2, <3>2, DoneRequest
      <2>2. ASSUME NEW s \in Sessions, NEW write \in {0, 1}, Arrive(r, s, write)
            PROVE  gateway' \in [Requests -> GatewayRecord] /\ RequestInv(r)'
          <3> DEFINE g == [pc |-> "beginning", export |-> s, write |-> write, started |-> now]
          <3>1. gateway' = [gateway EXCEPT ![r] = g] /\ g \in GatewayRecord
              BY <1>0, <2>2 DEF Arrive, GatewayRecord, ExportTypeOK
          <3>2. gateway' \in [Requests -> GatewayRecord] /\ gateway'[r] = g
              BY <1>0, <3>1 DEF ExportTypeOK
          <3>3. /\ ledger[r].state = "none" /\ session[s].status = "active"
                /\ write = 1 => session[s].mode = "read_write"
              BY <1>0, <2>2 DEF Arrive, CredentialUsable, MethodAllowed, RequestInv
          <3> QED
              BY <1>1, <3>2, <3>3 DEF RequestInv
      <2> QED
          BY <2>1, <2>2
  <1> QED
      BY <1>0, <1>1, <1>3, <1>5, <1>6 DEF ExportInv, ExportTypeOK, ReconInv

\* Revocation touches the status of a session that has not ended.
LEMMA RevokeInv ==
    ASSUME ExportInv, NEW s \in Sessions, RevokeExport(s)
    PROVE  ExportInv'
  <1>0. ExportTypeOK /\ ReconInv /\ session[s] \in SessionRecord
      BY DEF ExportInv, ExportTypeOK
  <1>1. session' = [session EXCEPT ![s] = Revoked(session[s])] /\ session[s].status # "absent"
      BY <1>0 DEF RevokeExport, RevokeRow, Known, ExportTypeOK
  <1>2. UNCHANGED <<now, ledger, gateway, recon>>
      BY DEF RevokeExport
  <1>3. session'[s] = Revoked(session[s]) /\ \A q \in Sessions \ {s} : session'[q] = session[q]
      BY <1>0, <1>1 DEF ExportTypeOK
  <1>4. /\ session'[s] \in SessionRecord
        /\ session'[s].mode = session[s].mode
        /\ session'[s].requests = session[s].requests
        /\ session'[s].writes = session[s].writes
        /\ session'[s].drained = session[s].drained
        /\ IF session[s].status \in TerminalStatus THEN session'[s].status = session[s].status
           ELSE session'[s].status = "revoking"
      BY <1>0, <1>3 DEF Revoked, SessionRecord
  <1>5. \A q \in Sessions : SessionKeeps(q)
      BY <1>1, <1>3, <1>4 DEF SessionKeeps, TerminalStatus
  <1>6. \A q \in Requests : RequestInv(q)'
      BY <1>0, <1>2, <1>5, RequestKept DEF ExportInv
  <1>7. ASSUME NEW q \in Sessions PROVE SessionInv(q)'
      <2>1. SessionInv(q) /\ Open(q)' = Open(q) /\ OpenWrites(q)' = OpenWrites(q)
          BY <1>2 DEF ExportInv, Open, OpenWrites
      <2>2. CASE q = s
          BY <1>4, <2>1, <2>2, CountsKept
      <2>3. CASE q # s
          BY <1>3, <2>1, <2>3, CountsKept
      <2> QED
          BY <2>2, <2>3
  <1>8. session' \in [Sessions -> SessionRecord]
      BY <1>0, <1>1, <1>3, <1>4 DEF ExportTypeOK
  <1> QED
      BY <1>0, <1>2, <1>6, <1>7, <1>8 DEF ExportInv, ExportTypeOK, ReconInv

\* Listing reads; what it lists has somewhere to go.
LEMMA ListInv ==
    ASSUME ExportInv, NEW s \in Sessions, ListTerminal(s)
    PROVE  ExportInv'
  <1>0. ExportTypeOK
      BY DEF ExportInv
  <1>1. UNCHANGED <<now, session, ledger, gateway>>
        /\ recon' = [export |-> s, target |-> Target(s, now), time |-> now]
      BY DEF ListTerminal
  <1>2. Target(s, now) \in TerminalStatus
      BY DEF ListTerminal, TerminalCandidates, Target, TerminalStatus
  <1>3. recon' \in ReconRecord /\ recon'.export = s /\ recon'.target \in TerminalStatus
      BY <1>0, <1>1, <1>2 DEF ReconRecord, ExportTypeOK
  <1>4. \A q \in Sessions : SessionKeeps(q)
      BY <1>1 DEF SessionKeeps
  <1>5. \A q \in Requests : RequestInv(q)'
      BY <1>0, <1>1, <1>4, RequestKept DEF ExportInv
  <1>6. \A q \in Sessions : SessionInv(q)'
      BY <1>1 DEF ExportInv, SessionInv, Open, OpenWrites
  <1> QED
      BY <1>0, <1>1, <1>3, <1>5, <1>6 DEF ExportInv, ExportTypeOK, ReconInv

\* Every step of the export side but creation and time keeps the invariant.
LEMMA ExportStepInv ==
    ASSUME ExportInv, ExportStep
    PROVE  ExportInv'
  <1>1. CASE \E s \in Sessions : RevokeExport(s) \/ ListTerminal(s)
      BY <1>1, RevokeInv, ListInv
  <1>2. CASE \E S \in SUBSET Stale : RecoverStale(S)
      BY <1>2, RecoverInv
  <1>3. CASE ReconcileTerminal
      BY <1>3, ReconcileInv
  <1>4. ASSUME NEW r \in Requests,
               \/ \E s \in Sessions, write \in {0, 1} : Arrive(r, s, write)
               \/ \E answered \in BOOLEAN : BeginRequest(r, answered)
               \/ Deny(r) \/ BeginDenied(r) \/ Heartbeat(r)
               \/ EndRequest(r) \/ AbandonRequest(r)
        PROVE  ExportInv'
      <2>1. CASE \E answered \in BOOLEAN : BeginRequest(r, answered)
          BY <2>1, BeginInv
      <2>2. CASE Heartbeat(r)
          BY <2>2, HeartbeatInv
      <2>3. CASE EndRequest(r)
          BY <2>3, EndInv
      <2>4. CASE \/ \E s \in Sessions, write \in {0, 1} : Arrive(r, s, write)
                 \/ Deny(r) \/ BeginDenied(r) \/ AbandonRequest(r)
          BY <2>4, HandlerInv
      <2> QED
          BY <1>4, <2>1, <2>2, <2>3, <2>4
  <1> QED
      BY <1>1, <1>2, <1>3, <1>4 DEF ExportStep

LEMMA NewRow ==
    ASSUME NEW m \in Mode, NEW t \in Nat
    PROVE  /\ NewSession(m, t) \in SessionRecord
           /\ NewSession(m, t).status = "active" /\ NewSession(m, t).mode = m
           /\ NewSession(m, t).requests = 0 /\ NewSession(m, t).writes = 0
           /\ NewSession(m, t).drained = "no"
           /\ NoRow \in SessionRecord
  <1>1. NoRow \in SessionRecord
      BY DEF NoRow, SessionRecord, Mode
  <1>2. NoRow.requests = 0 /\ NoRow.writes = 0 /\ NoRow.drained = "no"
      BY DEF NoRow
  <1>3. \A x \in Nat :
           LET row == [NoRow EXCEPT !.status = "active", !.mode = m, !.expires = x]
           IN  /\ row \in SessionRecord
               /\ row.status = "active" /\ row.mode = m /\ row.requests = 0
               /\ row.writes = 0 /\ row.drained = "no"
      BY <1>1, <1>2 DEF SessionRecord, Mode
  <1>4. t + SessionTTL \in Nat
      OBVIOUS
  <1> QED
      BY <1>1, <1>3, <1>4 DEF NewSession

\* A new session starts with nothing open: no row names a session that is
\* not there.
LEMMA CreateInv ==
    ASSUME ExportInv, CreatingInv, NEW s \in Sessions, Create(s)
    PROVE  ExportInv'
  <1>0. ExportTypeOK /\ ReconInv
      BY DEF ExportInv
  <1>1. UNCHANGED <<now, ledger, gateway, recon>> /\ session[s].status = "absent"
      BY DEF Create, CreateExport
  <1>2. session' = [session EXCEPT ![s] = creating[s]]
      BY DEF Create, CreateExport
  <1>3. PICK m \in Mode, t \in Nat : creating[s] = NewSession(m, t)
      BY DEF CreatingInv, Create, CanCreate
  <1>4. /\ creating[s] \in SessionRecord
        /\ creating[s].status = "active" /\ creating[s].requests = 0
        /\ creating[s].writes = 0 /\ creating[s].drained = "no"
      BY <1>3, NewRow
  <1>5. session'[s] = creating[s] /\ \A q \in Sessions \ {s} : session'[q] = session[q]
      BY <1>0, <1>2 DEF ExportTypeOK
  <1>6. session' \in [Sessions -> SessionRecord]
      BY <1>0, <1>2, <1>4 DEF ExportTypeOK
  <1>7. \A q \in Sessions : SessionKeeps(q)
      BY <1>1, <1>5 DEF SessionKeeps
  <1>8. \A q \in Requests : RequestInv(q)'
      BY <1>0, <1>1, <1>7, RequestKept DEF ExportInv
  <1>9. ASSUME NEW q \in Sessions PROVE SessionInv(q)'
      <2>1. SessionInv(q) /\ Open(q)' = Open(q) /\ OpenWrites(q)' = OpenWrites(q)
          BY <1>1 DEF ExportInv, Open, OpenWrites
      <2>2. CASE q = s
          <3>1. Open(s) = {} /\ OpenWrites(s) = {}
              BY <1>1 DEF ExportInv, RequestInv, Open, OpenWrites
          <3>2. Cardinality({}) = 0
              BY FS_EmptySet
          <3> QED
              BY <1>4, <1>5, <2>1, <2>2, <3>1, <3>2 DEF SessionInv
      <2>3. CASE q # s
          BY <1>5, <2>1, <2>3, CountsKept
      <2> QED
          BY <2>2, <2>3
  <1> QED
      BY <1>0, <1>1, <1>6, <1>8, <1>9 DEF ExportInv, ExportTypeOK, ReconInv

\* Nothing of a row or of a handler depends on the time.
LEMMA TimeInv ==
    ASSUME ExportInv, Time
    PROVE  ExportInv'
  <1>0. ExportTypeOK /\ ReconInv
      BY DEF ExportInv
  <1>1. now' = now + 1 /\ UNCHANGED <<session, ledger, gateway, recon>>
      BY DEF Time, Tick
  <1>2. \A q \in Requests : RequestInv(q)'
      BY <1>1 DEF ExportInv, RequestInv, Time
  <1>3. \A q \in Sessions : SessionInv(q)'
      BY <1>1 DEF ExportInv, SessionInv, Open, OpenWrites
  <1> QED
      BY <1>0, <1>1, <1>2, <1>3 DEF ExportInv, ExportTypeOK, ReconInv

------------------------------------------------------------------------------
(* What the gate saw stays true.                                            *)

\* Only the begin of a request opens a row.
LEMMA OpenShrinks ==
    ASSUME ExportTypeOK, NEW s \in Sessions,
           \/ UNCHANGED ledger
           \/ \E r \in Requests : Heartbeat(r) \/ EndRequest(r)
           \/ \E S \in SUBSET Stale : RecoverStale(S)
    PROVE  OpenWrites(s)' \subseteq OpenWrites(s)
  <1>1. SUFFICES \A q \in Requests :
                    ledger'[q].state = "open" =>
                        /\ ledger[q].state = "open"
                        /\ ledger'[q].export = ledger[q].export
                        /\ ledger'[q].write = ledger[q].write
      BY <1>1 DEF Open, OpenWrites
  <1>2. TAKE q \in Requests
  <1>3. ledger[q] \in LedgerRecord
      BY DEF ExportTypeOK
  <1>4. ASSUME NEW r \in Requests, Heartbeat(r)
        PROVE  /\ ledger'[q].state = ledger[q].state
               /\ ledger'[q].export = ledger[q].export
               /\ ledger'[q].write = ledger[q].write
      <2>1. ledger'[q] = IF q = r THEN Beaten(ledger[q], now) ELSE ledger[q]
          BY <1>4 DEF Heartbeat, ExportTypeOK
      <2> QED
          BY <1>3, <2>1 DEF Beaten, LedgerRecord
  <1>5. ASSUME NEW r \in Requests, EndRequest(r)
        PROVE  ledger'[q] = ledger[q] \/ ledger'[q].state = "closed"
      BY <1>3, <1>5 DEF EndRequest, CloseRow, ExportTypeOK, LedgerRecord
  <1>6. ASSUME NEW S \in SUBSET Stale, RecoverStale(S)
        PROVE  ledger'[q] = ledger[q] \/ ledger'[q].state = "recovered"
      BY <1>3, <1>6 DEF RecoverStale, LedgerRecord
  <1> QED
      BY <1>4, <1>5, <1>6

\* No step of the export side wakes a quiet session: an ended or revoking one
\* admits nothing, and what begins on an expired one begins late.
LEMMA QuietKept ==
    ASSUME ExportInv, Export, fence = "held", NEW s \in Sessions, Quiet(s)
    PROVE  Quiet(s)'
  <1>0. ExportTypeOK /\ ReconInv /\ session[s] \in SessionRecord /\ session'[s] \in SessionRecord
      BY ExportStepInv DEF Export, ExportInv, ExportTypeOK
  <1>1. now' = now
      BY DEF Export, ExportStep, RevokeExport, ListTerminal, Arrive, BeginRequest, Deny,
             BeginDenied, Heartbeat, EndRequest, AbandonRequest, RecoverStale,
             ReconcileTerminal
  <1>a. overtaken' = overtaken /\ late \subseteq late'
      BY DEF Export
  <1>2. CASE session'[s] = session[s] /\ OpenWrites(s)' \subseteq OpenWrites(s)
      BY <1>1, <1>2, <1>a DEF Quiet
  <1>3. CASE /\ session'[s].mode = session[s].mode
             /\ session'[s].expires = session[s].expires
             /\ OpenWrites(s)' \subseteq OpenWrites(s)
             /\ \/ session'[s].status = session[s].status
                \/ session'[s].status = "revoking" /\ session[s].status = "active"
                \/ session'[s].status \in TerminalStatus
      BY <1>0, <1>1, <1>3, <1>a DEF Quiet, SessionRecord, TerminalStatus
  <1>4. CASE session'[s].mode = session[s].mode /\ session[s].mode = "read_only"
      BY <1>4 DEF Quiet
  <1>5. CASE \E q \in Sessions : RevokeExport(q) \/ ListTerminal(q)
      <2>0. OpenWrites(s)' \subseteq OpenWrites(s)
          BY <1>0, <1>5, OpenShrinks DEF RevokeExport, ListTerminal
      <2>1. CASE UNCHANGED session
          BY <1>2, <2>0, <2>1
      <2>2. ASSUME NEW q \in Sessions, RevokeExport(q) PROVE Quiet(s)'
          <3>1. session' = [session EXCEPT ![q] = Revoked(session[q])] /\ Known(q)
              BY <1>0, <2>2 DEF RevokeExport, RevokeRow, ExportTypeOK
          <3>2. CASE s # q
              BY <1>0, <1>2, <2>0, <3>1, <3>2 DEF ExportTypeOK
          <3>3. CASE s = q
              <4>1. session'[s] = Revoked(session[s])
                  BY <1>0, <3>1, <3>3 DEF ExportTypeOK
              <4>2. /\ session'[s].mode = session[s].mode
                    /\ session'[s].expires = session[s].expires
                    /\ \/ session'[s].status = session[s].status
                       \/ session'[s].status = "revoking" /\ session[s].status = "active"
                  BY <1>0, <3>1, <3>3, <4>1 DEF Revoked, Known, SessionRecord
              <4> QED
                  BY <1>3, <2>0, <4>2
          <3> QED
              BY <3>2, <3>3
      <2> QED
          BY <1>5, <2>1, <2>2 DEF ListTerminal
  <1>6. CASE \E S \in SUBSET Stale : RecoverStale(S)
      <2>1. PICK S \in SUBSET Stale : RecoverStale(S)
          BY <1>6
      <2>0. OpenWrites(s)' \subseteq OpenWrites(s)
          BY <1>0, <1>6, OpenShrinks
      <2>2. CASE StaleOf(S, s) = {}
          BY <1>2, <2>0, <2>1, <2>2 DEF RecoverStale
      <2>3. CASE StaleOf(S, s) # {}
          <3> DEFINE n == Cardinality(StaleOf(S, s))
                     w == Cardinality(StaleWrites(S, s))
          <3>1. session'[s] = Reduced(session[s], n, w)
              BY <2>1, <2>3 DEF RecoverStale
          <3>2. n \in Nat /\ w \in Nat
              <4>1. StaleOf(S, s) \subseteq Requests /\ StaleWrites(S, s) \subseteq Requests
                  BY DEF Stale, StaleOf, StaleWrites
              <4>2. IsFiniteSet(StaleOf(S, s)) /\ IsFiniteSet(StaleWrites(S, s))
                  BY <4>1, FS_Subset
              <4> QED
                  BY <4>2, FS_CardinalityType
          <3>3. session[s].requests >= n /\ session[s].writes >= w
              BY <2>1 DEF RecoverStale, CountsCover
          <3> HIDE DEF n, w
          <3>4. /\ session'[s].mode = session[s].mode
                /\ session'[s].expires = session[s].expires
                /\ session'[s].status = session[s].status
              BY <1>0, <3>1, <3>2, <3>3, ReducedRow
          <3> QED
              BY <1>3, <2>0, <3>4
      <2> QED
          BY <2>2, <2>3
  <1>7. CASE ReconcileTerminal
      <2>0. OpenWrites(s)' \subseteq OpenWrites(s)
          BY <1>0, <1>7, OpenShrinks DEF ReconcileTerminal
      <2>1. CASE UNCHANGED session
          BY <1>2, <2>0, <2>1
      <2>2. CASE session' = [session EXCEPT ![recon.export] = Finished(@, recon.target)]
          <3>1. recon.target \in TerminalStatus
              BY <1>0, <1>7 DEF ReconInv, ReconcileTerminal
          <3>2. CASE s # recon.export
              BY <1>0, <1>2, <2>0, <2>2, <3>2 DEF ExportTypeOK
          <3>3. CASE s = recon.export
              <4>1. session'[s] = Finished(session[s], recon.target)
                  BY <1>0, <2>2, <3>3 DEF ExportTypeOK
              <4>2. session'[s].status = recon.target
                  BY <1>0, <4>1 DEF Finished, SessionRecord
              <4> QED
                  BY <3>1, <4>2 DEF Quiet, TerminalStatus
          <3> QED
              BY <3>2, <3>3
      <2> QED
          BY <1>7, <2>1, <2>2 DEF ReconcileTerminal
  <1>8. ASSUME NEW r \in Requests, NEW answered \in BOOLEAN, BeginRequest(r, answered)
        PROVE  Quiet(s)'
      <2> DEFINE e == gateway[r].export
      <2>0. /\ gateway[r].pc = "beginning" /\ Admissible(e, gateway[r].started)
            /\ gateway[r] \in GatewayRecord /\ RequestInv(r)
          BY <1>0, <1>8 DEF BeginRequest, ExportTypeOK, ExportInv
      <2>1. /\ ledger'[r].state = "open" /\ ledger'[r].export = e
            /\ ledger'[r].write = gateway[r].write
            /\ \A q \in Requests \ {r} : ledger'[q] = ledger[q]
          BY <1>0, <1>8 DEF BeginRequest, ExportTypeOK
      <2>2. CASE s # e
          <3>1. OpenWrites(s)' \subseteq OpenWrites(s)
              BY <2>1, <2>2 DEF Open, OpenWrites
          <3> QED
              BY <1>0, <1>2, <1>8, <2>2, <3>1 DEF BeginRequest, ExportTypeOK
      <2>3. CASE s = e
          <3>1. session'[s] = Begun(session[s], gateway[r].started, gateway[r].write)
              BY <1>0, <1>8, <2>3 DEF BeginRequest, ExportTypeOK
          <3>2. /\ session'[s].mode = session[s].mode
                /\ session'[s].status = session[s].status
                /\ session'[s].expires = session[s].expires
              BY <1>0, <3>1 DEF Begun, SessionRecord
          <3>3. session[s].status = "active"
              BY <2>0, <2>3 DEF Admissible
          <3>4. CASE session[s].mode = "read_only" \/ s \in overtaken
              BY <1>a, <3>2, <3>4 DEF Quiet
          <3>5. CASE session[s].mode # "read_only" /\ s \notin overtaken
              <4>1. session[s].expires <= now /\ OpenWrites(s) \subseteq late
                  BY <1>0, <3>3, <3>5 DEF Quiet, SessionRecord, Mode
              <4>2. gateway[r].write = 1 => r \in late'
                  BY <2>0, <2>1, <2>3, <4>1 DEF Export, BegunLate
              <4>3. OpenWrites(s)' \subseteq OpenWrites(s) \cup {r}
                  BY <2>1 DEF Open, OpenWrites
              <4>4. r \in OpenWrites(s)' => gateway[r].write = 1
                  BY <2>1 DEF Open, OpenWrites
              <4>5. OpenWrites(s)' \subseteq late'
                  BY <1>a, <4>1, <4>2, <4>3, <4>4
              <4> QED
                  BY <1>1, <3>2, <4>1, <4>5 DEF Quiet
          <3> QED
              BY <3>4, <3>5
      <2> QED
          BY <2>2, <2>3
  <1>9. ASSUME NEW r \in Requests, Heartbeat(r)
        PROVE  Quiet(s)'
      <2>0. OpenWrites(s)' \subseteq OpenWrites(s)
          BY <1>0, <1>9, OpenShrinks
      <2>1. CASE s # ledger[r].export
          BY <1>0, <1>2, <1>9, <2>0, <2>1 DEF Heartbeat, ExportTypeOK
      <2>2. CASE s = ledger[r].export
          <3>1. session'[s] = Beaten(session[s], now)
              BY <1>0, <1>9, <2>2 DEF Heartbeat, ExportTypeOK
          <3>2. /\ session'[s].mode = session[s].mode
                /\ session'[s].expires = session[s].expires
                /\ session'[s].status = session[s].status
              BY <1>0, <3>1 DEF Beaten, SessionRecord
          <3> QED
              BY <1>3, <2>0, <3>2
      <2> QED
          BY <2>1, <2>2
  <1>10. ASSUME NEW r \in Requests, EndRequest(r)
         PROVE  Quiet(s)'
      <2>0. OpenWrites(s)' \subseteq OpenWrites(s)
          BY <1>0, <1>10, OpenShrinks
      <2>1. CASE ~CanEnd(r) \/ s # ledger[r].export
          BY <1>0, <1>2, <1>10, <2>0, <2>1 DEF EndRequest, CloseRow, ExportTypeOK
      <2>2. CASE CanEnd(r) /\ s = ledger[r].export
          <3>1. session'[s] = Reduced(session[s], 1, ledger[r].write)
              BY <1>0, <1>10, <2>2 DEF EndRequest, CloseRow, ExportTypeOK
          <3>2. /\ ledger[r].write \in Nat /\ session[s].requests >= 1
                /\ session[s].writes >= ledger[r].write
              BY <1>0, <2>2 DEF CanEnd, ExportTypeOK, LedgerRecord
          <3>3. /\ session'[s].mode = session[s].mode
                /\ session'[s].expires = session[s].expires
                /\ session'[s].status = session[s].status
              BY <1>0, <3>1, <3>2, ReducedRow
          <3> QED
              BY <1>3, <2>0, <3>3
      <2> QED
          BY <2>1, <2>2
  <1>11. ASSUME NEW r \in Requests,
                \/ \E q \in Sessions, write \in {0, 1} : Arrive(r, q, write)
                \/ Deny(r) \/ BeginDenied(r) \/ AbandonRequest(r)
         PROVE  Quiet(s)'
      <2>1. UNCHANGED <<session, ledger>>
          BY <1>11 DEF Arrive, Deny, BeginDenied, AbandonRequest
      <2> QED
          BY <1>0, <1>2, <2>1, OpenShrinks
  <1> QED
      BY <1>5, <1>6, <1>7, <1>8, <1>9, <1>10, <1>11 DEF Export, ExportStep

------------------------------------------------------------------------------
(* The restore.                                                             *)

\* The initial state satisfies the inductive invariant.
LEMMA InitIndInv == Init => IndInv
  <1> SUFFICES ASSUME Init PROVE IndInv
      OBVIOUS
  <1>1. ExportTypeOK
      <2>1. NoRow \in SessionRecord /\ NoRecon \in ReconRecord
          BY DEF NoRow, SessionRecord, Mode, NoRecon, ReconRecord
      <2>2. ledger \in [Requests -> LedgerRecord] /\ gateway \in [Requests -> GatewayRecord]
          BY DEF Init, ExportInit, LedgerRecord, GatewayRecord
      <2> QED
          BY <2>1, <2>2 DEF Init, ExportInit, ExportTypeOK
  <1>2. TypeOK
      <2>1. op \in OperationRecord /\ worker \in [Workers -> WorkerRecord]
          BY DEF Init, OperationRecord, IdleWorker, WorkerRecord, Outcome
      <2>2. NoRow \in SessionRecord
          BY DEF NoRow, SessionRecord, Mode
      <2> QED
          BY <1>1, <2>1, <2>2 DEF Init, TypeOK
  <1>3. \A r \in Requests : RequestInv(r)
      BY DEF Init, ExportInit, RequestInv
  <1>4. ASSUME NEW s \in Sessions PROVE SessionInv(s)
      <2>1. Open(s) = {} /\ OpenWrites(s) = {}
          BY DEF Init, ExportInit, Open, OpenWrites
      <2>2. Cardinality({}) = 0
          BY FS_EmptySet
      <2>3. session[s] = NoRow
          BY DEF Init, ExportInit
      <2> QED
          BY <2>1, <2>2, <2>3 DEF SessionInv, NoRow
  <1>5. ReconInv /\ CreatingInv
      BY DEF Init, ExportInit, ReconInv, CreatingInv
  <1>6. OperationInv /\ FenceFollowsOperation /\ \A w \in Workers : WorkerInv(w)
      BY DEF Init, ExportInit, OperationInv, FenceFollowsOperation, WorkerInv, IdleWorker
  <1>7. ~Restoring
      BY DEF Init, Restoring
  <1> QED
      BY <1>1, <1>2, <1>3, <1>4, <1>5, <1>6, <1>7 DEF IndInv, ExportInv, QuietWhileRestoring

\* A step that leaves the operation, its fence and its workers alone.
LEMMA RestoreSideKept ==
    ASSUME IndInv, UNCHANGED <<op, fence, worker, stops, stalls>>,
           now' \in Nat, now <= now'
    PROVE  /\ OperationInv'
           /\ FenceFollowsOperation'
           /\ \A w \in Workers : WorkerInv(w)'
           /\ Restoring' <=> Restoring
  <1>1. OperationInv' /\ FenceFollowsOperation' /\ (Restoring' <=> Restoring)
      BY DEF IndInv, OperationInv, FenceFollowsOperation, Restoring
  <1>2. \A w \in Workers : WorkerInv(w)'
      <2> TAKE w \in Workers
      <2>1. worker[w].time \in Nat /\ now \in Nat
          BY DEF IndInv, TypeOK, ExportTypeOK, WorkerRecord
      <2>2. WorkerInv(w)
          BY DEF IndInv
      <2> QED
          BY <2>1, <2>2 DEF WorkerInv
  <1> QED
      BY <1>1, <1>2

\* A restore in progress holds the fence.
LEMMA RestoringIsFenced ==
    ASSUME IndInv, Restoring
    PROVE  fence = "held"
  BY DEF IndInv, Restoring, WorkerInv, FenceFollowsOperation

\* The steps of the export side.
LEMMA ExportSideIndInv ==
    ASSUME IndInv,
           \/ Time \/ Export
           \/ \E s \in Sessions :
                 (\E mode \in Mode : AdmitExport(s, mode)) \/ Create(s) \/ CreateRefused(s)
    PROVE  IndInv'
  <1>0. TypeOK /\ ExportInv /\ CreatingInv /\ QuietWhileRestoring
      BY DEF IndInv
  <1>1. UNCHANGED <<op, fence, worker, stops, stalls>>
      BY DEF Time, Export, AdmitExport, Create, CreateRefused, restoreVars
  <1>a. overtaken \subseteq overtaken' /\ overtaken' \subseteq Sessions
        /\ late \subseteq late' /\ late' \subseteq Requests
      BY <1>0 DEF Time, Export, AdmitExport, Create, CreateRefused, restoreVars,
         raced, BegunLate, TypeOK
  <1>2. ExportInv'
      <2>1. CASE UNCHANGED exportVars
          <3>1. UNCHANGED <<now, session, ledger, gateway, recon>>
              BY <2>1 DEF exportVars
          <3>2. ExportTypeOK' /\ ReconInv'
              BY <1>0, <3>1 DEF ExportInv, ExportTypeOK, ReconInv
          <3>3. \A s \in Sessions : SessionKeeps(s)
              BY <3>1 DEF SessionKeeps
          <3>4. \A r \in Requests : RequestInv(r)'
              BY <1>0, <3>1, <3>3, RequestKept DEF ExportInv
          <3>5. \A s \in Sessions : SessionInv(s)'
              BY <1>0, <3>1 DEF ExportInv, SessionInv, Open, OpenWrites
          <3> QED
              BY <3>2, <3>4, <3>5 DEF ExportInv
      <2>2. CASE Export
          BY <1>0, <2>2, ExportStepInv DEF Export
      <2> QED
          BY <1>0, <2>1, <2>2, TimeInv, CreateInv DEF AdmitExport, CreateRefused
  <1>3. now \in Nat /\ now' \in Nat /\ now <= now'
      <2>1. now \in Nat /\ now' \in Nat
          BY <1>0, <1>2 DEF ExportInv, ExportTypeOK
      <2>2. now' = now \/ now' = now + 1
          BY DEF Time, Tick, AdmitExport, CreateRefused, Create, CreateExport, exportVars,
                 Export, ExportStep, RevokeExport, ListTerminal, Arrive, BeginRequest, Deny,
                 BeginDenied, Heartbeat, EndRequest, AbandonRequest, RecoverStale,
                 ReconcileTerminal
      <2> QED
          BY <2>1, <2>2
  <1>4. CreatingInv' /\ creating' \in [Sessions -> SessionRecord]
      <2>1. CASE UNCHANGED creating
          BY <1>0, <2>1 DEF CreatingInv, TypeOK
      <2>2. ASSUME NEW s \in Sessions, creating' = [creating EXCEPT ![s] = NoRow]
            PROVE  CreatingInv' /\ creating' \in [Sessions -> SessionRecord]
          <3>1. NoRow \in SessionRecord
              BY DEF NoRow, SessionRecord, Mode
          <3> QED
              BY <1>0, <2>2, <3>1 DEF CreatingInv, TypeOK
      <2>3. ASSUME NEW s \in Sessions, NEW mode \in Mode, AdmitExport(s, mode)
            PROVE  CreatingInv' /\ creating' \in [Sessions -> SessionRecord]
          <3>1. creating' = [creating EXCEPT ![s] = NewSession(mode, now)]
              BY <2>3 DEF AdmitExport
          <3>2. NewSession(mode, now) \in SessionRecord
              BY <1>3, NewRow
          <3>3. creating' \in [Sessions -> SessionRecord]
              BY <1>0, <3>1, <3>2 DEF TypeOK
          <3>4. /\ creating'[s] = NewSession(mode, now)
                /\ \A q \in Sessions \ {s} : creating'[q] = creating[q]
              BY <1>0, <3>1 DEF TypeOK
          <3> QED
              BY <1>0, <1>3, <3>3, <3>4 DEF CreatingInv
      <2> QED
          BY <2>1, <2>2, <2>3 DEF Time, Export, restoreVars, Create, CreateRefused
  <1>5. QuietWhileRestoring'
      <2> SUFFICES ASSUME Restoring', NEW s \in Sessions
                   PROVE  Quiet(s)'
          BY DEF QuietWhileRestoring
      <2>1. Restoring
          BY <1>1, <1>3, RestoreSideKept
      <2>2. Quiet(s) /\ fence = "held"
          BY <1>0, <2>1, RestoringIsFenced DEF QuietWhileRestoring
      <2>3. CASE Time
          <3>1. session' = session /\ OpenWrites(s)' = OpenWrites(s)
              BY <2>3 DEF Time, Tick, Open, OpenWrites
          <3>2. session[s].expires \in Nat
              BY <1>0 DEF ExportInv, ExportTypeOK, SessionRecord
          <3> QED
              BY <1>3, <1>a, <2>2, <3>1, <3>2 DEF Quiet
      <2>4. CASE Export
          BY <1>0, <2>2, <2>4, QuietKept
      <2>5. ASSUME NEW q \in Sessions,
                   (\E mode \in Mode : AdmitExport(q, mode)) \/ CreateRefused(q)
            PROVE  Quiet(s)'
          BY <1>a, <2>2, <2>5 DEF AdmitExport, CreateRefused, exportVars, Quiet,
             Open, OpenWrites
      <2>6. ASSUME NEW q \in Sessions, Create(q)
            PROVE  Quiet(s)'
          <3>1. creating[q].mode # "read_only" => q \in overtaken'
              BY <2>2, <2>6 DEF Create, FenceAdmits
          <3>2. now' = now /\ session' = [session EXCEPT ![q] = creating[q]]
                /\ OpenWrites(s)' = OpenWrites(s)
              BY <2>6 DEF Create, CreateExport, Open, OpenWrites
          <3>3. CASE s = q
              BY <1>0, <3>1, <3>2, <3>3 DEF Quiet, ExportInv, ExportTypeOK
          <3>4. CASE s # q
              BY <1>0, <1>a, <2>2, <3>2, <3>4 DEF Quiet, ExportInv, ExportTypeOK
          <3> QED
              BY <3>3, <3>4
      <2> QED
          BY <2>3, <2>4, <2>5, <2>6
  <1>6. TypeOK'
      BY <1>0, <1>1, <1>2, <1>4, <1>a DEF TypeOK, ExportInv
  <1>7. OperationInv' /\ FenceFollowsOperation' /\ \A w \in Workers : WorkerInv(w)'
      BY <1>1, <1>3, RestoreSideKept
  <1> QED
      BY <1>2, <1>4, <1>5, <1>6, <1>7 DEF IndInv

\* A step that leaves the export side alone.
LEMMA ExportSideKept ==
    ASSUME IndInv, UNCHANGED <<exportVars, creating>>
    PROVE  /\ ExportInv' /\ CreatingInv' /\ now' = now /\ now \in Nat
           /\ UNCHANGED raced => \A s \in Sessions : Quiet(s)' <=> Quiet(s)
  <1>1. UNCHANGED <<now, session, ledger, gateway, recon>>
      BY DEF exportVars
  <1>2. ExportInv /\ ExportTypeOK /\ CreatingInv
      BY DEF IndInv, ExportInv
  <1>3. ExportTypeOK' /\ ReconInv' /\ CreatingInv'
      BY <1>1, <1>2 DEF ExportInv, ExportTypeOK, ReconInv, CreatingInv
  <1>4. \A s \in Sessions : SessionKeeps(s)
      BY <1>1 DEF SessionKeeps
  <1>5. \A r \in Requests : RequestInv(r)'
      BY <1>1, <1>2, <1>4, RequestKept DEF ExportInv
  <1>6. \A s \in Sessions : SessionInv(s)'
      BY <1>1, <1>2 DEF ExportInv, SessionInv, Open, OpenWrites
  <1>7. UNCHANGED raced => \A s \in Sessions : Quiet(s)' <=> Quiet(s)
      BY <1>1 DEF Quiet, Open, OpenWrites, raced
  <1> QED
      BY <1>1, <1>2, <1>3, <1>5, <1>6, <1>7 DEF ExportInv, ExportTypeOK

\* A worker that goes back to idle.
LEMMA IdleInv ==
    ASSUME NEW w \in Workers, worker'[w] = IdleWorker, now' \in Nat
    PROVE  WorkerInv(w)'
  BY DEF WorkerInv, IdleWorker

\* A worker that moves without a new phase, the phase of the row being kept.
LEMMA WorkerMoves ==
    ASSUME NEW w \in Workers, WorkerInv(w), worker[w] \in WorkerRecord,
           worker' \in [Workers -> WorkerRecord],
           worker'[w].phase = worker[w].phase,
           worker'[w].time \in {0, worker[w].time},
           worker'[w].pc \in {"gate", "restoring"} => worker[w].phase = "restore_writer_fenced",
           worker'[w].pc = "committing" => worker'[w].outcome # "none",
           op'.phase = op.phase \/ op'.phase = "restore_writer_fenced",
           now' = now, now \in Nat
    PROVE  WorkerInv(w)'
  BY DEF WorkerInv, WorkerRecord

\* The steps of the restore operation and its workers.
LEMMA RestoreSideIndInv ==
    ASSUME IndInv,
           \/ CreateRestore \/ Expire \/ Stall
           \/ \E w \in Workers : RestoreStep(w) \/ Stop(w)
    PROVE  IndInv'
  <1>0. /\ TypeOK /\ OperationInv /\ FenceFollowsOperation /\ QuietWhileRestoring
        /\ \A w \in Workers : WorkerInv(w) /\ worker[w] \in WorkerRecord
      BY DEF IndInv, TypeOK
  <1>1. UNCHANGED <<exportVars, creating>>
      BY DEF CreateRestore, Expire, Stall, RestoreStep, Stop, Acquire, ValidationFails,
             MarkWriterFenced, CheckWriters, DirectRestore, Commit, Rejected
  <1>2. /\ ExportInv' /\ CreatingInv' /\ now' = now /\ now \in Nat
        /\ UNCHANGED raced => \A s \in Sessions : Quiet(s)' <=> Quiet(s)
      BY <1>1, ExportSideKept
  <1>a. overtaken' \subseteq Sessions /\ late' \subseteq Requests
      BY <1>0 DEF CreateRestore, Expire, Stall, RestoreStep, Stop, Acquire, ValidationFails,
             MarkWriterFenced, CheckWriters, DirectRestore, Commit, Rejected, raced, TypeOK
  <1>b. UNCHANGED raced \/ fence' # "held"
      BY DEF CreateRestore, Expire, Stall, RestoreStep, Stop, Acquire, ValidationFails,
             MarkWriterFenced, CheckWriters, DirectRestore, Commit, Rejected, raced
  <1>3. creating' \in [Sessions -> SessionRecord] /\ ExportTypeOK'
      BY <1>0, <1>1, <1>2 DEF TypeOK, ExportInv
  <1>4. stops' \in 0..MaxStop /\ stalls' \in 0..MaxStall
      <2>1. \/ UNCHANGED <<stops, stalls>>
            \/ stops < MaxStop /\ stops' = stops + 1 /\ UNCHANGED stalls
            \/ stalls < MaxStall /\ stalls' = stalls + 1 /\ UNCHANGED stops
          BY DEF CreateRestore, Expire, Stall, RestoreStep, Stop, Acquire, ValidationFails,
                 MarkWriterFenced, CheckWriters, DirectRestore, Commit, Rejected
      <2>2. stops \in 0..MaxStop /\ stalls \in 0..MaxStall
          BY <1>0 DEF TypeOK
      <2> QED
          BY <2>1, <2>2
  <1> DEFINE Rest ==
          /\ op' \in OperationRecord /\ fence' \in {"free", "held"}
          /\ worker' \in [Workers -> WorkerRecord]
          /\ OperationInv' /\ FenceFollowsOperation'
          /\ \A w \in Workers : WorkerInv(w)'
          /\ Restoring' => \/ Restoring
                           \/ \A s \in Sessions : Quiet(s)
  <1>5. SUFFICES Rest
      <2>1. TypeOK'
          BY <1>3, <1>4, <1>5, <1>a DEF TypeOK
      <2>2. QuietWhileRestoring'
          <3>1. Restoring' => fence' = "held"
              BY <1>5 DEF Restoring, WorkerInv, FenceFollowsOperation
          <3> QED
              BY <1>0, <1>2, <1>5, <1>b, <3>1 DEF QuietWhileRestoring
      <2> QED
          BY <1>2, <1>5, <2>1, <2>2 DEF IndInv
  <1>6. IdleWorker \in WorkerRecord
      BY DEF IdleWorker, WorkerRecord, Outcome
  \* Steps of the row alone: nobody works on a row that is not running.
  <1>7. CASE CreateRestore
      <2>1. op' = [op EXCEPT !.state = "queued"] /\ UNCHANGED <<fence, worker>> /\ op.state = "absent"
          BY <1>7 DEF CreateRestore
      <2>2. op' \in OperationRecord /\ op'.state = "queued" /\ op'.phase = op.phase
          BY <1>0, <2>1 DEF TypeOK, OperationRecord
      <2>3. \A w \in Workers : WorkerInv(w)'
          BY <1>0, <1>2, <2>1, <2>2 DEF WorkerInv
      <2> QED
          BY <1>0, <2>1, <2>2, <2>3
             DEF TypeOK, OperationInv, FenceFollowsOperation, Restoring
  <1>8. CASE Expire \/ Stall
      <2>1. op' = [op EXCEPT !.lease = "expired"] /\ UNCHANGED <<fence, worker>>
          BY <1>8 DEF Expire, Stall
      <2>2. /\ op' \in OperationRecord /\ op'.state = op.state /\ op'.phase = op.phase
            /\ op'.owner = op.owner
          BY <1>0, <2>1 DEF TypeOK, OperationRecord
      <2>3. \A w \in Workers : WorkerInv(w)'
          BY <1>0, <1>2, <2>1, <2>2 DEF WorkerInv
      <2> QED
          BY <1>0, <2>1, <2>2, <2>3
             DEF TypeOK, OperationInv, FenceFollowsOperation, Restoring
  <1>9. ASSUME NEW w \in Workers, RestoreStep(w) \/ Stop(w)
        PROVE  Rest
      <2>1. \A v \in Workers \ {w} : worker'[v] = worker[v]
          BY <1>0, <1>9 DEF RestoreStep, Stop, Acquire, ValidationFails, MarkWriterFenced,
                CheckWriters, DirectRestore, Commit, Rejected, Ends, TypeOK
      <2>2. op'.phase = op.phase \/ op'.phase = "restore_writer_fenced" =>
                \A v \in Workers \ {w} : WorkerInv(v)'
          BY <1>0, <1>2, <2>1 DEF WorkerInv
      <2>3. CASE Acquire(w)
          <3> DEFINE m == [IdleWorker EXCEPT !.pc = "leased", !.time = now, !.phase = op.phase]
          <3>1. /\ op' = [op EXCEPT !.state = "running", !.lease = "live", !.owner = w]
                /\ worker' = [worker EXCEPT ![w] = m] /\ UNCHANGED fence
                /\ op.state \in {"queued", "running"}
              BY <2>3 DEF Acquire, CanAcquire
          <3>2. op.phase \in {"validate_restore", "restore_writer_fenced"}
              BY <1>0 DEF TypeOK, OperationRecord
          <3>3. /\ m \in WorkerRecord /\ m.pc = "leased" /\ m.time = now /\ m.phase = op.phase
              BY <1>2, <1>6, <3>2 DEF WorkerRecord
          <3>4. worker' \in [Workers -> WorkerRecord] /\ worker'[w] = m
              BY <1>0, <3>1, <3>3 DEF TypeOK
          <3> HIDE DEF m
          <3>5. /\ op' \in OperationRecord /\ op'.state = "running" /\ op'.phase = op.phase
                /\ op'.owner = w
              BY <1>0, <3>1 DEF TypeOK, OperationRecord
          <3>6. WorkerInv(w)'
              BY <1>2, <3>3, <3>4, <3>5 DEF WorkerInv
          <3>7. OperationInv' /\ FenceFollowsOperation'
              BY <1>0, <3>1, <3>2, <3>5 DEF OperationInv, FenceFollowsOperation
          <3>8. Restoring' => Restoring
              <4>1. SUFFICES ASSUME NEW v \in Workers, worker'[v].pc = "restoring"
                             PROVE  Restoring
                  BY DEF Restoring
              <4>2. v # w /\ worker[v].pc = "restoring"
                  BY <2>1, <3>3, <3>4, <4>1
              <4>3. op.phase = "restore_writer_fenced"
                  BY <1>0, <4>2 DEF WorkerInv
              <4> QED
                  BY <1>0, <3>1, <4>2, <4>3 DEF Restoring, OperationInv
          <3> QED
              BY <1>0, <2>2, <3>1, <3>4, <3>5, <3>6, <3>7, <3>8 DEF TypeOK
      \* The worker goes idle or to its commit; the row and the fence stay.
      <2>4. ASSUME UNCHANGED <<op, fence>>, worker' \in [Workers -> WorkerRecord],
                   WorkerInv(w)', worker'[w].pc # "restoring"
            PROVE  Rest
          <3>1. Restoring' => Restoring
              BY <2>1, <2>4 DEF Restoring
          <3>2. OperationInv' /\ FenceFollowsOperation'
              BY <1>0, <2>4 DEF OperationInv, FenceFollowsOperation
          <3> QED
              BY <1>0, <2>2, <2>4, <3>1, <3>2 DEF TypeOK
      <2>5. ASSUME NEW out \in Outcome \ {"none"}, Ends(w, out), UNCHANGED <<op, fence>>
            PROVE  Rest
          <3> DEFINE m == [worker[w] EXCEPT !.pc = "committing", !.time = 0, !.outcome = out]
          <3>1. worker' = [worker EXCEPT ![w] = m]
              BY <1>0, <2>5 DEF Ends, TypeOK
          <3>2. /\ m \in WorkerRecord /\ m.pc = "committing" /\ m.time = 0
                /\ m.phase = worker[w].phase /\ m.outcome = out
              BY <1>0 DEF WorkerRecord
          <3>3. worker' \in [Workers -> WorkerRecord] /\ worker'[w] = m
              BY <1>0, <3>1, <3>2 DEF TypeOK
          <3> HIDE DEF m
          <3>4. WorkerInv(w)'
              BY <1>0, <1>2, <2>5, <3>2, <3>3, WorkerMoves
          <3> QED
              BY <2>4, <2>5, <3>2, <3>3, <3>4
      <2>6. CASE ValidationFails(w)
          BY <2>5, <2>6 DEF ValidationFails, Outcome, Terminal
      <2>7. CASE Rejected(w) \/ Stop(w)
          <3>1. worker' = [worker EXCEPT ![w] = IdleWorker] /\ UNCHANGED <<op, fence>>
              BY <2>7 DEF Rejected, Stop
          <3>2. /\ worker' \in [Workers -> WorkerRecord] /\ worker'[w] = IdleWorker
                /\ worker'[w].pc # "restoring"
              BY <1>0, <1>6, <3>1 DEF TypeOK, IdleWorker
          <3> QED
              BY <1>2, <2>4, <3>1, <3>2, IdleInv
      <2>8. ASSUME NEW r \in RestoreResult, DirectRestore(w, r)
            PROVE  Rest
          <3>1. RestoreOutcome(r) \in Outcome \ {"none"}
              BY DEF RestoreOutcome, Outcome, Terminal
          <3> QED
              BY <2>5, <2>8, <3>1 DEF DirectRestore
      <2>9. CASE MarkWriterFenced(w)
          <3> DEFINE m == [worker[w] EXCEPT !.pc = "gate", !.phase = "restore_writer_fenced"]
          <3>1. worker' = [worker EXCEPT ![w] = m] /\ worker[w].pc = "leased"
              BY <1>0, <2>9 DEF MarkWriterFenced, TypeOK
          <3>2. /\ m \in WorkerRecord /\ m.pc = "gate" /\ m.time = worker[w].time
                /\ m.phase = "restore_writer_fenced"
              BY <1>0 DEF WorkerRecord
          <3>3. worker' \in [Workers -> WorkerRecord] /\ worker'[w] = m
              BY <1>0, <3>1, <3>2 DEF TypeOK
          <3> HIDE DEF m
          <3>4. CASE UNCHANGED <<op, fence>> /\ worker[w].phase = "restore_writer_fenced"
              <4>1. WorkerInv(w)'
                  BY <1>0, <1>2, <3>2, <3>3, <3>4 DEF WorkerInv
              <4> QED
                  BY <2>4, <3>2, <3>3, <3>4, <4>1
          <3>5. CASE /\ LeaseFenced(w) /\ op' = [op EXCEPT !.phase = "restore_writer_fenced"]
                     /\ fence' = "held"
              <4>1. /\ op' \in OperationRecord /\ op'.phase = "restore_writer_fenced"
                    /\ op'.state = "running" /\ op'.owner = op.owner /\ op.state = "running"
                  BY <1>0, <3>5 DEF TypeOK, OperationRecord, LeaseFenced
              <4>2. OperationInv' /\ FenceFollowsOperation'
                  BY <1>0, <3>5, <4>1 DEF OperationInv, FenceFollowsOperation
              <4>3. WorkerInv(w)'
                  BY <1>0, <1>2, <3>2, <3>3, <4>1 DEF WorkerInv
              <4>4. Restoring' => Restoring
                  BY <2>1, <3>2, <3>3, <4>1 DEF Restoring
              <4> QED
                  BY <2>2, <3>3, <3>5, <4>1, <4>2, <4>3, <4>4
          <3> QED
              BY <2>9, <3>4, <3>5 DEF MarkWriterFenced
      <2>10. CASE CheckWriters(w)
          <3>1. UNCHANGED <<op, fence>> /\ worker[w].pc = "gate"
              BY <2>10 DEF CheckWriters
          <3>2. CASE Ends(w, "failed") \/ Ends(w, "pending")
              BY <2>5, <3>1, <3>2 DEF Outcome, Terminal
          <3>3. CASE /\ ~(\E s \in Sessions : WriterBlocks(s, worker[w].time))
                     /\ worker' = [worker EXCEPT ![w] = [@ EXCEPT !.pc = "restoring", !.time = 0]]
              <4> DEFINE m == [worker[w] EXCEPT !.pc = "restoring", !.time = 0]
              <4>1. worker' = [worker EXCEPT ![w] = m]
                  BY <1>0, <3>3 DEF TypeOK
              <4>2. /\ m \in WorkerRecord /\ m.pc = "restoring" /\ m.time = 0
                    /\ m.phase = worker[w].phase
                  BY <1>0 DEF WorkerRecord
              <4>3. worker' \in [Workers -> WorkerRecord] /\ worker'[w] = m
                  BY <1>0, <4>1, <4>2 DEF TypeOK
              <4> HIDE DEF m
              <4>4. worker[w].phase = "restore_writer_fenced" /\ worker[w].time <= now
                    /\ worker[w].time \in Nat
                  BY <1>0, <3>1 DEF WorkerInv, WorkerRecord
              <4>5. WorkerInv(w)'
                  BY <1>0, <1>2, <3>1, <4>2, <4>3, <4>4, WorkerMoves
              <4>6. \A s \in Sessions : Quiet(s)
                  <5> TAKE s \in Sessions
                  <5>1. ~WriterBlocks(s, worker[w].time)
                      BY <3>3
                  <5>2. session[s].expires \in Nat
                      BY <1>0 DEF TypeOK, ExportTypeOK, SessionRecord
                  <5>3. session[s].writes = 0 => OpenWrites(s) = {}
                      BY OpenIsFinite, FS_EmptySet DEF IndInv, ExportInv, SessionInv
                  <5> QED
                      BY <1>2, <4>4, <5>1, <5>2, <5>3 DEF WriterBlocks, WriterDrained, Quiet
              <4>7. OperationInv' /\ FenceFollowsOperation'
                  BY <1>0, <3>1 DEF OperationInv, FenceFollowsOperation
              <4> QED
                  BY <1>0, <2>2, <3>1, <4>3, <4>5, <4>6, <4>7 DEF TypeOK
          <3> QED
              BY <2>10, <3>2, <3>3 DEF CheckWriters
      <2>11. CASE Commit(w)
          <3> DEFINE out == worker[w].outcome
          <3>1. /\ worker[w].pc = "committing" /\ op.state = "running"
                /\ op' = Committed(out) /\ fence' = FenceAfter(out)
                /\ worker' = [worker EXCEPT ![w] = IdleWorker]
              BY <2>11 DEF Commit, LeaseFenced
          <3>2. out \in Terminal \cup {"pending", "operator_intervention_required"}
              BY <1>0, <3>1 DEF WorkerInv, WorkerRecord, Outcome
          <3>3. /\ worker' \in [Workers -> WorkerRecord] /\ worker'[w] = IdleWorker
                /\ worker'[w].pc # "restoring"
              BY <1>0, <1>6, <3>1 DEF TypeOK, IdleWorker
          <3>4. /\ op' \in OperationRecord /\ op'.phase = op.phase
                /\ op'.state = IF out = "pending" THEN "running" ELSE out
                /\ out = "pending" => op'.owner = op.owner
              <4>1. CASE out = "pending"
                  BY <1>0, <3>1, <4>1 DEF Committed, TypeOK, OperationRecord
              <4>2. CASE out # "pending"
                  BY <1>0, <3>1, <3>2, <4>2 DEF Committed, TypeOK, OperationRecord, Terminal
              <4> QED
                  BY <4>1, <4>2
          <3>5. fence' = IF out \in Terminal THEN "free" ELSE fence
              BY <3>1 DEF FenceAfter
          <3> HIDE DEF out
          <3>6. OperationInv' /\ FenceFollowsOperation' /\ fence' \in {"free", "held"}
              BY <1>0, <3>1, <3>2, <3>4, <3>5
                 DEF OperationInv, FenceFollowsOperation, Terminal, TypeOK
          <3>7. WorkerInv(w)'
              BY <1>2, <3>3, IdleInv
          <3>8. Restoring' => Restoring
              BY <2>1, <3>1, <3>3 DEF Restoring
          <3> QED
              BY <2>2, <3>3, <3>4, <3>6, <3>7, <3>8
      <2> HIDE DEF Rest
      <2> QED
          BY <1>9, <2>3, <2>6, <2>7, <2>8, <2>9, <2>10, <2>11 DEF RestoreStep
  <1> HIDE DEF Rest
  <1> QED
      BY <1>7, <1>8, <1>9

------------------------------------------------------------------------------
(* The theorems.                                                            *)

\* The inductive invariant holds in every reachable state.
THEOREM IndInvAlways == Spec => []IndInv
  <1>1. IndInv /\ [Next]_vars => IndInv'
      <2> SUFFICES ASSUME IndInv, [Next]_vars PROVE IndInv'
          OBVIOUS
      <2>1. CASE \/ Time \/ Export
                 \/ \E s \in Sessions :
                       (\E mode \in Mode : AdmitExport(s, mode)) \/ Create(s) \/ CreateRefused(s)
          BY <2>1, ExportSideIndInv
      <2>2. CASE \/ CreateRestore \/ Expire \/ Stall
                 \/ \E w \in Workers : RestoreStep(w) \/ Stop(w)
          BY <2>2, RestoreSideIndInv
      <2>3. CASE UNCHANGED vars
          <3>1. /\ UNCHANGED <<exportVars, creating>> /\ UNCHANGED raced
                /\ UNCHANGED <<op, fence, worker, stops, stalls>>
              BY <2>3 DEF vars, restoreVars
          <3>2. /\ ExportInv' /\ CreatingInv' /\ now' = now /\ now \in Nat
                /\ \A s \in Sessions : Quiet(s)' <=> Quiet(s)
              BY <3>1, ExportSideKept
          <3>3. /\ OperationInv' /\ FenceFollowsOperation' /\ (Restoring' <=> Restoring)
                /\ \A w \in Workers : WorkerInv(w)'
              BY <3>1, <3>2, RestoreSideKept
          <3>4. TypeOK'
              BY <3>1, <3>2 DEF IndInv, TypeOK, ExportInv, raced
          <3>5. QuietWhileRestoring'
              BY <3>2, <3>3 DEF IndInv, QuietWhileRestoring
          <3> QED
              BY <3>2, <3>3, <3>4, <3>5 DEF IndInv
      <2> QED
          BY <2>1, <2>2, <2>3 DEF Next
  <1> QED
      BY <1>1, InitIndInv, PTL DEF Spec

\* Rows, counts, handlers and workers keep their types: no count of
\* export_sessions ever becomes negative.
THEOREM TypeCorrect == Spec => []TypeOK
  <1>1. IndInv => TypeOK
      BY DEF IndInv
  <1> QED
      BY <1>1, IndInvAlways, PTL

\* The aggregate counts of every session are its open ledger rows, however
\* begins, ends, lost answers and stale recoveries interleave.
THEOREM CountsMatchLedgerAlways == Spec => []CountsMatchLedger
  <1>1. IndInv => CountsMatchLedger
      BY DEF IndInv, ExportInv, SessionInv, CountsMatchLedger
  <1> QED
      BY <1>1, IndInvAlways, PTL

\* Nothing is open on a session that was revoked or has expired.
THEOREM TerminalIsQuietAlways == Spec => []TerminalIsQuiet
  <1>1. IndInv => TerminalIsQuiet
      BY DEF IndInv, ExportInv, RequestInv, TerminalIsQuiet, Open, TerminalStatus
  <1> QED
      BY <1>1, IndInvAlways, PTL

\* The drain evidence and the read-only mode both mean that no write is open.
THEOREM DrainedMeansNoWriteAlways == Spec => []DrainedMeansNoWrite
  <1>1. IndInv => DrainedMeansNoWrite
      <2> SUFFICES ASSUME IndInv, NEW s \in Sessions,
                          session[s].drained = "yes" \/ session[s].mode = "read_only"
                   PROVE  OpenWrites(s) = {}
          BY DEF DrainedMeansNoWrite
      <2>1. CASE session[s].drained = "yes"
          <3>1. Cardinality(OpenWrites(s)) = 0
              BY <2>1 DEF IndInv, ExportInv, SessionInv
          <3> QED
              BY <3>1, OpenIsFinite, FS_EmptySet
      <2>2. CASE session[s].mode = "read_only"
          BY <2>2 DEF IndInv, ExportInv, RequestInv, Open, OpenWrites
      <2> QED
          BY <2>1, <2>2
  <1> QED
      BY <1>1, IndInvAlways, PTL

\* The writer-session fence is held exactly while the restore is fenced and
\* not ended: no crash, lost lease or late commit leaks it or frees it early.
THEOREM FenceFollowsOperationAlways == Spec => []FenceFollowsOperation
  <1>1. IndInv => FenceFollowsOperation
      BY DEF IndInv
  <1> QED
      BY <1>1, IndInvAlways, PTL

\* A gateway request that writes while jvs restore may be running was served
\* for a session the fence overtook, admitted after its session had expired,
\* or recovered as stale while it was served.
THEOREM WriterDuringRestoreHasCauseAlways == Spec => []WriterDuringRestoreHasCause
  <1>1. IndInv => WriterDuringRestoreHasCause
      <2> SUFFICES ASSUME IndInv, Restoring, NEW r \in Requests, Writing(r),
                          ledger[r].state # "recovered"
                   PROVE  gateway[r].export \in overtaken \/ r \in late
          BY DEF WriterDuringRestoreHasCause
      <2> DEFINE e == gateway[r].export
      <2>1. RequestInv(r)
          BY DEF IndInv, ExportInv
      <2>2. /\ ledger[r].state = "open" /\ ledger[r].export = e /\ ledger[r].write = 1
            /\ e \in Sessions /\ session[e].mode = "read_write"
            /\ session[e].status \in {"active", "revoking"}
          BY <2>1 DEF RequestInv, Writing
      <2>3. r \in OpenWrites(e)
          BY <2>2 DEF Open, OpenWrites
      <2>4. Quiet(e)
          BY <2>2 DEF IndInv, QuietWhileRestoring
      <2> QED
          BY <2>2, <2>3, <2>4 DEF Quiet
  <1> QED
      BY <1>1, IndInvAlways, PTL
------------------------------------------------------------------------------
(* The state table.                                                         *)

TheRestore == "restore"

States == INSTANCE OperationStates
            WITH Ops <- {TheRestore}, state <- [o \in {TheRestore} |-> op.state]

\* The abstract life of an operation, of OperationStates, for the one restore.
StatesSpec == States!Spec

\* A statement after which the row's state stays, starts, or moves as the
\* table allows, is a step of the table or none.
LEMMA TableMove ==
    ASSUME \/ op'.state = op.state
           \/ op.state = "absent" /\ op'.state = "queued"
           \/ op.state = "queued" /\ op'.state = "running"
           \/ /\ op.state = "running"
              /\ op'.state \in {"succeeded", "failed",
                                "operator_intervention_required"}
    PROVE  \/ States!Next
           \/ [o \in {TheRestore} |-> op.state]' = [o \in {TheRestore} |-> op.state]
  <1> DEFINE st == [o \in {TheRestore} |-> op.state]
  <1>1. /\ st' = [st EXCEPT ![TheRestore] = op'.state]
        /\ st[TheRestore] = op.state
      OBVIOUS
  <1>2. CASE op'.state = op.state
      BY <1>2
  <1>3. CASE op.state = "absent" /\ op'.state = "queued"
      BY <1>1, <1>3 DEF States!Next, States!Create, States!Absent
  <1>4. CASE /\ op.state \in States!OperationState
             /\ op'.state \in States!AllowedNextStates[op.state]
      BY <1>1, <1>4 DEF States!Next, States!Transition
  <1> QED
      BY <1>2, <1>3, <1>4 DEF States!OperationState, States!AllowedNextStates

\* Every step of the restore, and of the export side beside it, moves the
\* operation as the table allows: a commit finds it running.
LEMMA StepFollowsTable ==
    ASSUME IndInv, [Next]_vars
    PROVE  \/ States!Next
           \/ [o \in {TheRestore} |-> op.state]' = [o \in {TheRestore} |-> op.state]
  <1> DEFINE Follows ==
        \/ States!Next
        \/ [o \in {TheRestore} |-> op.state]' = [o \in {TheRestore} |-> op.state]
  <1>1. op \in OperationRecord
      BY DEF IndInv, TypeOK
  <1>2. CASE op' = op
      BY <1>2
  <1>3. ASSUME CreateRestore PROVE Follows
      <2>1. op.state = "absent" /\ op'.state = "queued"
          BY <1>1, <1>3 DEF CreateRestore, OperationRecord
      <2> QED
          BY <2>1, TableMove
  <1>4. ASSUME Expire \/ Stall PROVE Follows
      <2>1. op'.state = op.state
          BY <1>1, <1>4 DEF Expire, Stall, OperationRecord
      <2> QED
          BY <2>1, TableMove
  <1>5. ASSUME NEW w \in Workers, Acquire(w) PROVE Follows
      <2>1. op.state \in {"queued", "running"} /\ op'.state = "running"
          BY <1>1, <1>5 DEF Acquire, CanAcquire, OperationRecord
      <2> QED
          BY <2>1, TableMove
  <1>6. ASSUME NEW w \in Workers, MarkWriterFenced(w) PROVE Follows
      <2>1. op'.state = op.state
          BY <1>1, <1>6 DEF MarkWriterFenced, OperationRecord
      <2> QED
          BY <2>1, TableMove
  <1>7. ASSUME NEW w \in Workers, Commit(w) PROVE Follows
      <2> DEFINE out == worker[w].outcome
      <2>1. op.state = "running" /\ op' = Committed(out)
          BY <1>7 DEF Commit, LeaseFenced
      <2>2. out \in {"pending", "succeeded", "failed",
                     "operator_intervention_required"}
          BY <1>7 DEF Commit, IndInv, WorkerInv, TypeOK, WorkerRecord, Outcome,
             Terminal
      <2> HIDE DEF out
      <2>3. op'.state = IF out = "pending" THEN "running" ELSE out
          BY <1>1, <2>1 DEF Committed, OperationRecord
      <2> QED
          BY <2>1, <2>2, <2>3, TableMove
  <1>8. ASSUME NEW w \in Workers, RestoreStep(w) \/ Stop(w) PROVE Follows
      <2>1. CASE \/ ValidationFails(w) \/ CheckWriters(w) \/ Rejected(w) \/ Stop(w)
                 \/ \E r \in RestoreResult : DirectRestore(w, r)
          BY <1>2, <2>1 DEF ValidationFails, CheckWriters, Rejected, Stop,
             DirectRestore
      <2> QED
          BY <1>5, <1>6, <1>7, <1>8, <2>1 DEF RestoreStep
  <1>9. CASE \/ Time \/ Export \/ UNCHANGED vars
             \/ \E s \in Sessions :
                   \/ \E mode \in Mode : AdmitExport(s, mode)
                   \/ Create(s) \/ CreateRefused(s)
      BY <1>2, <1>9 DEF Time, Export, AdmitExport, Create, CreateRefused, vars,
         restoreVars
  <1> QED
      BY <1>3, <1>4, <1>8, <1>9 DEF Next

\* A restore lives as the state table of state.go says, although none of its
\* statements consults it.
THEOREM ImplementsStates == Spec => StatesSpec
  <1> DEFINE st == [o \in {TheRestore} |-> op.state]
  <1>1. Init => States!Init
      BY DEF Init, States!Init, States!Absent
  <1>2. IndInv /\ [Next]_vars => [States!Next]_st
      BY StepFollowsTable
  <1> QED
      BY <1>1, <1>2, IndInvAlways, PTL DEF Spec, StatesSpec, States!Spec

==============================================================================

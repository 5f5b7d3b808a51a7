----------------------------- MODULE ExportSession ----------------------------
(***************************************************************************)
(* The WebDAV export sessions of one repo and the durable ledger of the    *)
(* requests the gateway serves for them: the statements of                 *)
(* internal/store/postgres/export_sessions.go, the API handler of          *)
(* internal/api/export_handler.go, the request handler of                  *)
(* internal/exportgateway and the runner of internal/exportreconcile.      *)
(*                                                                         *)
(* A session row holds aggregate counts that every statement must keep     *)
(* equal to the open rows of export_runtime_requests, although requests    *)
(* begin, end, are recovered as stale and lose their answers concurrently. *)
(* The gateway fixes the start time of a request before the statement that *)
(* admits it reaches the database.                                         *)
(*                                                                         *)
(* Names, credentials, paths and the served bytes are left out, and so is  *)
(* the audit event each statement adds to the outbox.                      *)
(***************************************************************************)
EXTENDS Integers, FiniteSets

CONSTANTS
    Sessions,       \* export ids
    Requests,       \* runtime request ids, one per HTTP request
    NoSession,
    SessionTTL,     \* expires_at - created_at
    HeartbeatTTL,
    LastTraffic,    \* bound on the time of new sessions, requests, heartbeats
    MaxNow          \* bound on the clock

ASSUME SessionAssumption == NoSession \notin Sessions
ASSUME RequestAssumption == IsFiniteSet(Requests)
ASSUME TTLAssumption == SessionTTL \in Nat \ {0} /\ HeartbeatTTL \in Nat \ {0}
ASSUME ClockBoundAssumption == MaxNow \in Nat /\ LastTraffic \in Nat

VARIABLES
    now,
    session,        \* export_sessions
    ledger,         \* export_runtime_requests
    gateway,        \* the HTTP handlers
    recon           \* the terminal reconcile run: what it listed

exportVars == <<now, session, ledger, gateway, recon>>

TerminalStatus == {"revoked", "expired"}

Mode == {"read_only", "read_write"}

\* drained: write_drained_at IS NOT NULL.
SessionRecord ==
    [status: {"absent", "active", "revoking"} \cup TerminalStatus,
     mode: Mode,
     expires: Nat,
     requests: Nat,             \* active_request_count
     writes: Nat,               \* active_write_count
     drained: {"no", "yes"},
     heartbeat: Nat]            \* gateway_heartbeat_expires_at, 0 when NULL

LedgerRecord ==
    [state: {"none", "open", "closed", "recovered"},
     export: Sessions \cup {NoSession},
     write: {0, 1},
     heartbeat: Nat]            \* heartbeat_expires_at

GatewayRecord ==
    [pc: {"new", "beginning", "serving", "done"},
     export: Sessions \cup {NoSession},
     write: {0, 1},
     started: Nat]

ReconRecord ==
    [export: Sessions \cup {NoSession},
     target: TerminalStatus \cup {"none"},
     time: Nat]

ExportTypeOK ==
    /\ now \in Nat
    /\ session \in [Sessions -> SessionRecord]
    /\ ledger \in [Requests -> LedgerRecord]
    /\ gateway \in [Requests -> GatewayRecord]
    /\ recon \in ReconRecord

NoRow == [status |-> "absent", mode |-> "read_only", expires |-> 0,
          requests |-> 0, writes |-> 0, drained |-> "no", heartbeat |-> 0]

NoRecon == [export |-> NoSession, target |-> "none", time |-> 0]

ExportInit ==
    /\ now = 0
    /\ session = [s \in Sessions |-> NoRow]
    /\ ledger = [r \in Requests |->
                    [state |-> "none", export |-> NoSession, write |-> 0,
                     heartbeat |-> 0]]
    /\ gateway = [r \in Requests |->
                    [pc |-> "new", export |-> NoSession, write |-> 0,
                     started |-> 0]]
    /\ recon = NoRecon

\* A handler that has returned, or whose process is gone.
Done == [pc |-> "done", export |-> NoSession, write |-> 0, started |-> 0]

Open(s) == {r \in Requests : ledger[r].state = "open" /\ ledger[r].export = s}

OpenWrites(s) == {r \in Open(s) : ledger[r].write = 1}

Latest(a, b) == IF a < b THEN b ELSE a

------------------------------------------------------------------------------
(* Create and revoke, through the API.                                      *)

\* The row the create handler builds: its life starts when the handler reads
\* the clock, not when the row is inserted.
NewSession(mode, t) ==
    [NoRow EXCEPT !.status = "active", !.mode = mode,
                  !.expires = t + SessionTTL]

\* Session.Validate: what the store checks of a row before the statement.
ValidRow(row) == row.mode \in Mode /\ row.writes <= row.requests

\* The create statement; an export id is used once.
CreateExport(s, row) ==
    /\ session[s].status = "absent"
    /\ ValidRow(row)
    /\ session' = [session EXCEPT ![s] = row]
    /\ UNCHANGED <<now, ledger, gateway, recon>>

\* readExport: the handler needs the session to exist, in any status.
Known(s) == session[s].status # "absent"

\* Wrong: revocation ends the session without waiting for its requests.
RevokedAtOnce(row) ==
    IF row.status \in TerminalStatus THEN row
    ELSE [row EXCEPT !.status = "revoked"]

\* Revocation only closes the door; the terminal status waits for the drain.
Revoked(row) ==
    IF row.status \in TerminalStatus THEN row
    ELSE [row EXCEPT !.status = "revoking"]

\* The revoke statement, repeated as often as it is asked for.
RevokeRow(s) == session' = [session EXCEPT ![s] = Revoked(@)]

RevokeExport(s) ==
    /\ Known(s)
    /\ RevokeRow(s)
    /\ UNCHANGED <<now, ledger, gateway, recon>>

------------------------------------------------------------------------------
(* The gateway.                                                             *)

\* credentialUsable, on the row the gateway has read.
CredentialUsable(s, t) == session[s].status = "active" /\ session[s].expires > t

\* methodAllowed: a method that writes needs a read-write session.
MethodAllowed(s, write) == write = 1 => session[s].mode = "read_write"

\* The request passes authentication, method and path checks; the handler
\* fixes the start of the request.
Arrive(r, s, write) ==
    /\ now <= LastTraffic
    /\ gateway[r].pc = "new"
    /\ CredentialUsable(s, now)
    /\ MethodAllowed(s, write)
    /\ gateway' = [gateway EXCEPT ![r] = [pc |-> "beginning", export |-> s,
                                          write |-> write, started |-> now]]
    /\ UNCHANGED <<now, session, ledger, recon>>

\* The request is denied before it reaches the ledger: a wrong password, a
\* path or a destination outside the payload, an unreadable payload root.
Deny(r) ==
    /\ gateway[r].pc = "new"
    /\ gateway' = [gateway EXCEPT ![r] = Done]
    /\ UNCHANGED <<now, session, ledger, recon>>

\* eligible_session: active and, at the start time the gateway sent, unexpired.
Admissible(s, started) ==
    session[s].status = "active" /\ session[s].expires > started

\* The session row after a request has begun.
Begun(s, t, write) ==
    [s EXCEPT !.requests = @ + 1,
              !.writes = @ + write,
              !.heartbeat = Latest(@, t + HeartbeatTTL),
              !.drained = IF s.writes + write = 0 THEN "yes" ELSE "no"]

\* The begin statement; its answer may be lost, and then nothing is served
\* although the row is open.
BeginRequest(r, answered) ==
    LET g == gateway[r] IN
    /\ g.pc = "beginning"
    /\ Admissible(g.export, g.started)
    /\ ledger' = [ledger EXCEPT ![r] = [state |-> "open", export |-> g.export,
                                        write |-> g.write,
                                        heartbeat |-> g.started + HeartbeatTTL]]
    /\ session' = [session EXCEPT ![g.export] = Begun(@, g.started, g.write)]
    /\ gateway' = [gateway EXCEPT ![r] = IF answered
                                         THEN [@ EXCEPT !.pc = "serving"]
                                         ELSE Done]
    /\ UNCHANGED <<now, recon>>

BeginDenied(r) ==
    /\ gateway[r].pc = "beginning"
    /\ ~Admissible(gateway[r].export, gateway[r].started)
    /\ gateway' = [gateway EXCEPT ![r] = Done]
    /\ UNCHANGED <<now, session, ledger, recon>>

\* A ledger or session row after a heartbeat observed at t.
Beaten(row, t) == [row EXCEPT !.heartbeat = Latest(@, t + HeartbeatTTL)]

\* The heartbeat goroutine of a request in service.
Heartbeat(r) ==
    /\ now <= LastTraffic
    /\ gateway[r].pc = "serving"
    /\ ledger[r].state = "open"
    /\ ledger' = [ledger EXCEPT ![r] = Beaten(@, now)]
    /\ session' = [session EXCEPT ![ledger[r].export] = Beaten(@, now)]
    /\ UNCHANGED <<now, gateway, recon>>

\* Wrong: the end of a request is counted even if it was recovered before.
CanEndRecoveredToo(r) == ledger[r].state \in {"open", "recovered"}

\* close_eligible: the row is open and the counts cover it.
CanEnd(r) ==
    LET s == session[ledger[r].export] IN
    /\ ledger[r].state = "open"
    /\ s.requests >= 1
    /\ s.writes >= ledger[r].write
    /\ s.writes - ledger[r].write <= s.requests - 1

\* Wrong: the end of any request counts as the drain of the writes.
ReducedAlwaysDrained(s, n, w) ==
    [s EXCEPT !.requests = @ - n, !.writes = @ - w, !.drained = "yes"]

\* The session row after n requests, w of them writes, have left it.
Reduced(s, n, w) ==
    [s EXCEPT !.requests = @ - n,
              !.writes = @ - w,
              !.drained = IF s.writes - w = 0 THEN "yes" ELSE "no"]

\* The end statement closes the ledger row; a row that is no longer open is
\* left alone.
CloseRow(r) ==
    IF CanEnd(r)
    THEN /\ ledger' = [ledger EXCEPT ![r].state = "closed"]
         /\ session' = [session EXCEPT
                          ![ledger[r].export] = Reduced(@, 1, ledger[r].write)]
    ELSE UNCHANGED <<ledger, session>>

\* The handler returns; its deferred call ends the request.
EndRequest(r) ==
    /\ gateway[r].pc = "serving"
    /\ CloseRow(r)
    /\ gateway' = [gateway EXCEPT ![r] = Done]
    /\ UNCHANGED <<now, recon>>

\* The process dies, or the end statement fails (its error is dropped).
AbandonRequest(r) ==
    /\ gateway[r].pc \in {"beginning", "serving"}
    /\ gateway' = [gateway EXCEPT ![r] = Done]
    /\ UNCHANGED <<now, session, ledger, recon>>

------------------------------------------------------------------------------
(* The reconcile run: recover stale requests, then end drained sessions.    *)

Stale ==
    {r \in Requests : ledger[r].state = "open" /\ ledger[r].heartbeat <= now}

StaleOf(S, s) == {r \in S : ledger[r].export = s}

StaleWrites(S, s) == {r \in StaleOf(S, s) : ledger[r].write = 1}

\* Nothing is recovered unless the counts of every session cover its rows.
CountsCover(S) ==
    \A s \in Sessions :
        /\ session[s].requests >= Cardinality(StaleOf(S, s))
        /\ session[s].writes >= Cardinality(StaleWrites(S, s))

\* The oldest `limit' stale rows not locked by others: some of them.
RecoverStale(S) ==
    /\ S # {}
    /\ CountsCover(S)
    /\ ledger' = [r \in Requests |->
                    IF r \in S THEN [ledger[r] EXCEPT !.state = "recovered"]
                    ELSE ledger[r]]
    /\ session' = [s \in Sessions |->
                    IF StaleOf(S, s) = {} THEN session[s]
                    ELSE Reduced(session[s], Cardinality(StaleOf(S, s)),
                                 Cardinality(StaleWrites(S, s)))]
    /\ UNCHANGED <<now, gateway, recon>>

\* Wrong: a session that is being revoked is left to expire.
TargetExpiredOnly(s, t) ==
    IF session[s].status = "active" /\ session[s].expires <= t
    THEN "expired" ELSE "none"

\* targetStatus: where a drained session may go at time t.
Target(s, t) ==
    CASE session[s].status = "revoking" -> "revoked"
      [] session[s].status = "active" /\ session[s].expires <= t -> "expired"
      [] OTHER -> "none"

Drained(s) ==
    session[s].requests = 0 /\ session[s].writes = 0 /\ Open(s) = {}

\* The sessions the reconcile run lists.
TerminalCandidates == {s \in Sessions : Drained(s) /\ Target(s, now) # "none"}

\* One listed session: its target was decided on the listed row.
ListTerminal(s) ==
    /\ recon = NoRecon
    /\ s \in TerminalCandidates
    /\ recon' = [export |-> s, target |-> Target(s, now), time |-> now]
    /\ UNCHANGED <<now, session, ledger, gateway>>

\* The session row after the terminal statement; it sets the drain time if
\* no request has.
Finished(row, target) == [row EXCEPT !.status = target, !.drained = "yes"]

\* The terminal statement checks everything again on the current row; what
\* no longer qualifies is a lost race.
ReconcileTerminal ==
    LET s == recon.export IN
    /\ recon # NoRecon
    /\ IF Drained(s) /\ Target(s, recon.time) = recon.target
       THEN session' = [session EXCEPT ![s] = Finished(@, recon.target)]
       ELSE UNCHANGED session
    /\ recon' = NoRecon
    /\ UNCHANGED <<now, ledger, gateway>>

Tick ==
    /\ now < MaxNow
    /\ now' = now + 1
    /\ UNCHANGED <<session, ledger, gateway, recon>>

\* Everything but the passing of time and the creation of sessions.
ExportStep ==
    \/ \E s \in Sessions : RevokeExport(s) \/ ListTerminal(s)
    \/ \E r \in Requests :
          \/ \E s \in Sessions, write \in {0, 1} : Arrive(r, s, write)
          \/ \E answered \in BOOLEAN : BeginRequest(r, answered)
          \/ Deny(r) \/ BeginDenied(r) \/ Heartbeat(r)
          \/ EndRequest(r) \/ AbandonRequest(r)
    \/ \E S \in SUBSET Stale : RecoverStale(S)
    \/ ReconcileTerminal

------------------------------------------------------------------------------
(* Properties.                                                              *)

\* The aggregate counts of every session are exactly its open ledger rows:
\* no lost answer, stale recovery, late end or replay makes them drift.
CountsMatchLedger ==
    \A s \in Sessions :
        /\ session[s].requests = Cardinality(Open(s))
        /\ session[s].writes = Cardinality(OpenWrites(s))

\* A terminal session is quiet for good: nothing is open on it, and no
\* request that was on its way when it ended is admitted afterwards.
TerminalIsQuiet ==
    \A s \in Sessions : session[s].status \in TerminalStatus => Open(s) = {}

\* The evidence the restore gate relies on: write_drained_at is set only
\* while no write request is open, and no write is open on a session the
\* gate does not look at because it is read-only.
DrainedMeansNoWrite ==
    \A s \in Sessions :
        session[s].drained = "yes" \/ session[s].mode = "read_only" =>
            OpenWrites(s) = {}

\* Revocation completes: crashed requests are recovered, served ones end,
\* and the session reaches its terminal status.
RevocationCompletes ==
    \A s \in Sessions :
        session[s].status = "revoking" ~> session[s].status = "revoked"
==============================================================================

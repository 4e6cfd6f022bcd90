------------------------------- MODULE SiteDB -------------------------------
(***************************************************************************)
(* The database of one monitored site (internal/storage): the tables       *)
(* check_results, incidents and errors, the singleton row site_state, and  *)
(* the statements of RecordTick over them.  No variables: the state        *)
(* machines that own a site database (SiteStore, RecordTickTx, Alerting)   *)
(* are written with these operators.                                       *)
(*                                                                         *)
(* A table is the sequence of its rows: rows are only ever inserted, so    *)
(* the rowid SQLite assigns is the position.                               *)
(***************************************************************************)
EXTENDS Integers, Sequences

\* SQL NULL in a nullable INTEGER column; every value stored there is >= 0.
NULL == -1

Nullable == Nat \cup {NULL}

(***************************************************************************)
(* What one tick found: Runner.RunTick builds it, RecordTick persists it.  *)
(* `errors' counts the rows for the errors table (failures and warnings).  *)
(* A failing check always logs one (Tick.AddFail), and an expiry is known  *)
(* only when the certificate was checked.                                  *)
(***************************************************************************)
Outcome ==
    {o \in [up : BOOLEAN, errors : Nat, sslChecked : BOOLEAN, sslExpiresAt : Nat,
               response_ms : Nat] :
        /\ ~o.up => o.errors > 0
        /\ ~o.sslChecked => o.sslExpiresAt = 0}

ResultRow   == [ts : Nat, up : BOOLEAN, response_ms : Nat]
IncidentRow == [started_at : Nat, resolved_at : Nullable]
StateRow    == [last_check_ts        : Nullable,
                current_up           : {NULL, 0, 1},
                current_incident_id  : Nullable,
                consecutive_failures : Nat,
                ssl_expires_at       : Nullable,
                ssl_last_checked     : Nullable]

DB == [results   : Seq(ResultRow),
       incidents : Seq(IncidentRow),
       errors    : Seq(Nat),
       state     : StateRow]

-----------------------------------------------------------------------------
\* A file openSiteStore has just created: empty tables, a blank state row.
NewDB ==
    [results   |-> <<>>,
     incidents |-> <<>>,
     errors    |-> <<>>,
     state     |-> [last_check_ts        |-> NULL,
                    current_up           |-> NULL,
                    current_incident_id  |-> NULL,
                    consecutive_failures |-> 0,
                    ssl_expires_at       |-> NULL,
                    ssl_last_checked     |-> NULL]]

\* A file of schema v1, migrated while its site was down: migration v2 adds
\* consecutive_failures with DEFAULT 0, whatever the failing run so far.
UpgradedDB ==
    [results   |-> <<[ts |-> 0, up |-> FALSE, response_ms |-> 0]>>,
     incidents |-> <<[started_at |-> 0, resolved_at |-> NULL]>>,
     errors    |-> <<0>>,
     state     |-> [last_check_ts        |-> 0,
                    current_up           |-> 0,
                    current_incident_id  |-> 1,
                    consecutive_failures |-> 0,
                    ssl_expires_at       |-> NULL,
                    ssl_last_checked     |-> NULL]]

-----------------------------------------------------------------------------
(* The two cases of RecordTick's switch; while neither holds, the incident  *)
(* columns stay as they are.                                                *)

OpensAfterUp(st, o) == ~o.up /\ st.current_up = 1

Opens(st, o) == ~o.up /\ st.current_up \in {NULL, 1}

Recovers(st, o) == o.up /\ st.current_up = 0

Resolves(st, o) == Recovers(st, o) /\ st.current_incident_id # NULL

FailsAfterNoReset(st, o) ==
    IF o.up THEN st.consecutive_failures ELSE st.consecutive_failures + 1

FailsAfter(st, o) == IF o.up THEN 0 ELSE st.consecutive_failures + 1

IncidentAfterKept(d, o) ==
    IF Opens(d.state, o) THEN Len(d.incidents) + 1 ELSE d.state.current_incident_id

\* The value of current_incident_id after the tick.
IncidentAfter(d, o) ==
    IF Opens(d.state, o) THEN Len(d.incidents) + 1
    ELSE IF Recovers(d.state, o) THEN NULL
    ELSE d.state.current_incident_id

-----------------------------------------------------------------------------
(* The statements of the transaction, in the order RecordTick issues them.  *)

InsertResult(d, ts, o) ==
    [d EXCEPT !.results = Append(@, [ts |-> ts, up |-> o.up, response_ms |-> o.response_ms])]

OpenIncident(d, ts) ==
    [d EXCEPT !.incidents = Append(@, [started_at |-> ts, resolved_at |-> NULL])]

ResolveIncidentAtZero(d, ts) ==
    [d EXCEPT !.incidents[d.state.current_incident_id].resolved_at = 0]

ResolveEveryIncident(d, ts) ==
    [d EXCEPT !.incidents = [i \in DOMAIN @ |-> [@[i] EXCEPT !.resolved_at = ts]]]

ResolveIncident(d, ts) ==
    [d EXCEPT !.incidents[d.state.current_incident_id].resolved_at = ts]

ReconcileIncident(d, ts, o) ==
    IF Opens(d.state, o) THEN OpenIncident(d, ts)
    ELSE IF Resolves(d.state, o) THEN ResolveIncident(d, ts)
    ELSE d

LogErrors(d, ts, o) ==
    [d EXCEPT !.errors = @ \o [i \in 1..o.errors |-> ts]]

\* `incident' is what IncidentAfter computed from the state row read earlier
\* in the transaction.  The SSL columns move only on a tick that checked the
\* certificate, and an expiry it could not read overwrites a known one.
UpdateState(d, ts, o, incident) ==
    [d EXCEPT !.state =
        [last_check_ts        |-> ts,
         current_up           |-> IF o.up THEN 1 ELSE 0,
         current_incident_id  |-> incident,
         consecutive_failures |-> FailsAfter(@, o),
         ssl_expires_at       |-> IF ~o.sslChecked THEN @.ssl_expires_at
                                  ELSE IF o.sslExpiresAt > 0 THEN o.sslExpiresAt
                                  ELSE NULL,
         ssl_last_checked     |-> IF o.sslChecked THEN ts ELSE @.ssl_last_checked]]

\* The committed effect of SiteStore.RecordTick.
RecordTick(d, ts, o) ==
    UpdateState(
        LogErrors(ReconcileIncident(InsertResult(d, ts, o), ts, o), ts, o),
        ts, o, IncidentAfter(d, o))

\* The Transition RecordTick returns.  IncidentID is set by the two cases of
\* the switch only: on a repeated failure it stays 0.
TransitionOf(d, o) ==
    LET st == d.state IN
    [Up                  |-> o.up,
     IncidentOpened      |-> Opens(st, o),
     IncidentResolved    |-> Resolves(st, o),
     IncidentID          |-> IF Opens(st, o) THEN Len(d.incidents) + 1
                             ELSE IF Resolves(st, o) THEN st.current_incident_id
                             ELSE 0,
     ConsecutiveFailures |-> FailsAfter(st, o),
     SSLChecked          |-> o.sslChecked,
     SSLExpiresAt        |-> o.sslExpiresAt]
=============================================================================

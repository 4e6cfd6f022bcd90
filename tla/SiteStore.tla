----------------------------- MODULE SiteStore -----------------------------
(***************************************************************************)
(* One site database and the check loops that write to it.                 *)
(*                                                                         *)
(* A tick has two moments.  RunTick reads the clock first (Tick.TS) and    *)
(* then makes its request; RecordTick commits the result later, as one     *)
(* transaction.  The scheduler keeps one loop per site, but stopping a     *)
(* loop does not wait for it: after a Restart the cancelled loop's last    *)
(* tick is still in flight beside its successor's first, which is what a   *)
(* set Loops of two stands for.                                            *)
(***************************************************************************)
EXTENDS SiteDB

CONSTANTS
    Loops,      \* the loops that may tick this site at one time
    Outcomes,   \* what a tick may find
    MaxRows,    \* bound on the rows of check_results
    MaxTime     \* bound on the clock

ASSUME OutcomesAssumption == Outcomes \subseteq Outcome

VARIABLES
    db,         \* the committed database, a DB
    now,        \* the wall clock, in seconds
    begun,      \* begun[l]: TS of the tick loop l has in flight, or NULL
    base        \* rows of check_results that predate schema v2

vars == <<db, now, begun, base>>

Init ==
    /\ \/ db = NewDB /\ base = 0
       \/ db = UpgradedDB /\ base = 1
    /\ now = 0
    /\ begun = [l \in Loops |-> NULL]

\* RunTick stamps the tick before it makes the request.
Begin(l) ==
    /\ begun[l] = NULL
    /\ begun' = [begun EXCEPT ![l] = now]
    /\ UNCHANGED <<db, now, base>>

\* RecordTick commits.
Record(l, o) ==
    /\ begun[l] # NULL
    /\ Len(db.results) < MaxRows
    /\ db' = RecordTick(db, begun[l], o)
    /\ begun' = [begun EXCEPT ![l] = NULL]
    /\ UNCHANGED <<now, base>>

\* A statement or the commit fails: RecordTick returns the error, the
\* deferred Rollback undoes every statement, the loop logs and goes on.
RecordFails(l) ==
    /\ begun[l] # NULL
    /\ begun' = [begun EXCEPT ![l] = NULL]
    /\ UNCHANGED <<db, now, base>>

\* The process dies and starts again: only what was committed is left.
Crash ==
    /\ \E l \in Loops : begun[l] # NULL
    /\ begun' = [l \in Loops |-> NULL]
    /\ UNCHANGED <<db, now, base>>

Pass ==
    /\ now < MaxTime
    /\ now' = now + 1
    /\ UNCHANGED <<db, begun, base>>

Next ==
    \/ \E l \in Loops :
        \/ Begin(l)
        \/ \E o \in Outcomes : Record(l, o)
        \/ RecordFails(l)
    \/ Crash
    \/ Pass

Spec == Init /\ [][Next]_vars

-----------------------------------------------------------------------------
TypeOK ==
    /\ db \in DB
    /\ now \in Nat
    /\ begun \in [Loops -> Nullable]
    /\ base \in Nat

(***************************************************************************)
(* The rolled-up row agrees with the tables it rolls up: it says the site  *)
(* is down exactly while it names an incident, that incident is the newest *)
(* and is unresolved, and every older incident is resolved.  Status,       *)
(* Overview and the incident list are served from these two places and     *)
(* RecordTick is all that keeps them in step.                              *)
(***************************************************************************)
DownMeansOpen ==
    (db.state.current_up = 0) <=> (db.state.current_incident_id # NULL)

OneOpenIncident ==
    \A i \in DOMAIN db.incidents :
        (db.incidents[i].resolved_at = NULL) <=> (i = db.state.current_incident_id)

OpenIncidentIsNewest ==
    db.state.current_incident_id \in {NULL, Len(db.incidents)}

IncidentAgreement == DownMeansOpen /\ OneOpenIncident /\ OpenIncidentIsNewest

(***************************************************************************)
(* consecutive_failures is the length of the failing run that check_results*)
(* ends with, counted from the migration that added the column.  It is     *)
(* maintained by increments and never recomputed, and confirm_after is     *)
(* compared with it, so a wrong value means a missing or an early alert.   *)
(***************************************************************************)
TrailingFailures ==
    LET n == Len(db.results)
        f == db.state.consecutive_failures
    IN  /\ f <= n - base
        /\ \A i \in (n - f + 1)..n : ~db.results[i].up
        /\ f < n - base => db.results[n - f].up

\* current_up is the state of the newest row of check_results.
StateIsLastRow ==
    db.state.current_up = IF db.results = <<>> THEN NULL
                          ELSE IF db.results[Len(db.results)].up THEN 1 ELSE 0

(***************************************************************************)
(* The incidents are exactly the maximal failing runs of check_results: a  *)
(* reference definition computed from the raw rows.  The k-th incident     *)
(* starts at the k-th failing row that follows no failing row, and ends at *)
(* the first good row after it.                                            *)
(***************************************************************************)
FirstFailures ==
    {i \in DOMAIN db.results :
        ~db.results[i].up /\ (i > 1 => db.results[i - 1].up)}

EndOfRun(i) ==
    {j \in DOMAIN db.results :
        /\ j > i /\ db.results[j].up
        /\ \A k \in i..(j - 1) : ~db.results[k].up}

IncidentsAreFailingRuns ==
    \E start \in [DOMAIN db.incidents -> FirstFailures] :
        /\ \A i \in FirstFailures : \E k \in DOMAIN start : start[k] = i
        /\ \A k, m \in DOMAIN start : k < m => start[k] < start[m]
        /\ \A k \in DOMAIN start :
            LET inc == db.incidents[k]
                end == EndOfRun(start[k])
            IN  /\ inc.started_at = db.results[start[k]].ts
                /\ (inc.resolved_at = NULL) <=> (end = {})
                /\ \A j \in end : inc.resolved_at = db.results[j].ts

\* Every failing row of check_results has a row of the errors table with its
\* timestamp ("every failing check logs an errors row"), after any number of
\* failed and rolled-back transactions.
FailuresAreLogged ==
    \A i \in DOMAIN db.results :
        ~db.results[i].up => \E j \in DOMAIN db.errors : db.errors[j] = db.results[i].ts

(***************************************************************************)
(* "Rows are appended in time order, so id (rowid) already orders by time" *)
(* (docs/STORAGE.md), the reason check_results has no index on ts.         *)
(***************************************************************************)
RowidOrdersByTime ==
    \A i, j \in DOMAIN db.results : i < j => db.results[i].ts <= db.results[j].ts

\* Incidents are disjoint periods in order: each ends no earlier than it
\* starts (duration_seconds >= 0) and the next starts no earlier than that.
IncidentsArePeriods ==
    \A i \in DOMAIN db.incidents :
        LET inc == db.incidents[i] IN
        /\ inc.resolved_at # NULL => inc.started_at <= inc.resolved_at
        /\ i < Len(db.incidents) => inc.resolved_at <= db.incidents[i + 1].started_at

(***************************************************************************)
(* History is append-only: a step keeps every check_results row and every  *)
(* incident, and a resolved incident keeps its end.  Readers page through  *)
(* both tables by id while loops write.                                    *)
(***************************************************************************)
AppendOnly ==
    /\ Len(db.results) <= Len(db'.results)
    /\ \A i \in DOMAIN db.results : db'.results[i] = db.results[i]
    /\ Len(db.incidents) <= Len(db'.incidents)
    /\ \A i \in DOMAIN db.incidents :
        /\ db'.incidents[i].started_at = db.incidents[i].started_at
        /\ db.incidents[i].resolved_at # NULL => db'.incidents[i] = db.incidents[i]

HistoryIsAppendOnly == [][AppendOnly]_vars
=============================================================================

------------------------------ MODULE Queries ------------------------------
(***************************************************************************)
(* The read side of a site database: one operator per SQL statement of     *)
(* query.go and series.go, over the tables of SiteDB, and the arithmetic   *)
(* the Go code does with the rows.  A reply of several statements is put   *)
(* together in SiteReads, where ticks may commit between them.             *)
(*                                                                         *)
(* Percentages and means are rounded to two decimals: they are integers    *)
(* here, in hundredths.  A quantile is an integer per cent: for 0.50, 0.95 *)
(* and 0.99 int64(q * float64(n)) equals 100q * n \div 100 on every table  *)
(* of fewer than two million rows.                                         *)
(***************************************************************************)
EXTENDS SiteDB, FiniteSets, FiniteSetsExt, SequencesExt

\* math.Round(a / b * 100) / 100, in hundredths, for a >= 0 and b > 0.
RoundedPerHundred(a, b) == (200 * a + b) \div (2 * b)

\* WHERE ts >= ?, and the further conjunct up = 1.
RowsSince(d, since) == {i \in DOMAIN d.results : d.results[i].ts >= since}

UpRows(d, rows) == {i \in rows : d.results[i].up}

TotalMs(d, rows) == FoldSet(LAMBDA i, sum : sum + d.results[i].response_ms, 0, rows)

\* AVG(CASE WHEN up = 1 THEN response_ms END): NULL, scanned as 0, of no rows.
AvgMs(d, rows) ==
    LET ok == UpRows(d, rows)
    IN  IF ok = {} THEN 0 ELSE RoundedPerHundred(TotalMs(d, ok), Cardinality(ok))

Percent(successful, checks) ==
    IF checks = 0 THEN 0 ELSE RoundedPerHundred(100 * successful, checks)

-----------------------------------------------------------------------------
Status(d) ==
    [Up                |-> d.state.current_up,
     LastCheckTS       |-> d.state.last_check_ts,
     OngoingIncidentID |-> d.state.current_incident_id]

Uptime(d, since) ==
    LET rows == RowsSince(d, since)
        n    == Cardinality(rows)
        ok   == Cardinality(UpRows(d, rows))
    IN  [Checks |-> n, Successful |-> ok, Failed |-> n - ok, Percent |-> Percent(ok, n)]

\* The first statement of Metrics.
Totals(d, since) ==
    LET rows == RowsSince(d, since)
        n    == Cardinality(rows)
        ok   == Cardinality(UpRows(d, rows))
    IN  [Checks |-> n, Successful |-> ok, Failed |-> n - ok, AvgMs |-> AvgMs(d, rows)]

(* percentile: a count, then the row at an offset into the sorted latencies. *)
Latencies(d, since) == UpRows(d, RowsSince(d, since))

OffsetPastEnd(n, p) == ((p * n) \div 100) + 1

Offset(n, p) == LET offset == (p * n) \div 100 IN IF offset >= n THEN n - 1 ELSE offset

\* The row that ORDER BY puts at an offset, `Before' being its order.
RowAt(rows, Before(_, _), offset) ==
    CHOOSE i \in rows : Cardinality({j \in rows : Before(j, i)}) = offset

\* ORDER BY response_ms
AtLatencyRank(d, rows, offset) ==
    LET Faster(i, j) ==
            \/ d.results[i].response_ms < d.results[j].response_ms
            \/ d.results[i].response_ms = d.results[j].response_ms /\ i < j
    IN  d.results[RowAt(rows, Faster, offset)].response_ms

\* LIMIT 1 OFFSET ?: no row (sql.ErrNoRows) when the offset is past the end.
NoRow == -2

RowAtOffset(d, since, offset) ==
    LET rows == Latencies(d, since)
    IN  IF offset < Cardinality(rows) THEN AtLatencyRank(d, rows, offset) ELSE NoRow

\* The two statements on one state of the table.
Percentile(d, since, p) ==
    LET n == Cardinality(Latencies(d, since))
    IN  IF n = 0 THEN 0 ELSE RowAtOffset(d, since, Offset(n, p))

-----------------------------------------------------------------------------
(* The lists: ids, newest first, at most `limit' of them.                   *)

Page(ids, Before(_, _), limit) ==
    [k \in 1..Min({limit, Cardinality(ids)}) |-> RowAt(ids, Before, k - 1)]

Oldest(ids, limit) == Page(ids, <, limit)

Newest(ids, limit) == Page(ids, >, limit)

Results(d, since, limit) == Newest(RowsSince(d, since), limit)

Errors(d, since, limit) ==
    Newest({i \in DOMAIN d.errors : d.errors[i] >= since}, limit)

IncidentsOldestFirst(d, limit) == Oldest(DOMAIN d.incidents, limit)

Incidents(d, limit) == Newest(DOMAIN d.incidents, limit)

\* duration_seconds of an incident, NULL while it is ongoing.
Duration(incident) ==
    IF incident.resolved_at = NULL THEN NULL
    ELSE incident.resolved_at - incident.started_at

-----------------------------------------------------------------------------
(* Series.  A frame is what its preamble computes: the window and the width *)
(* and number of the buckets.                                               *)

DefaultSeriesBuckets == 96
MaxSeriesBuckets     == 1000

Clamped(buckets) ==
    IF buckets <= 0 THEN DefaultSeriesBuckets ELSE Min({buckets, MaxSeriesBuckets})

\* SELECT MIN(ts) FROM check_results
FirstCheck(d) ==
    IF d.results = <<>> THEN NULL ELSE Min({d.results[i].ts : i \in DOMAIN d.results})

\* `start' is the cutoff, or the first check for the window "all".
Frame(start, to, buckets) ==
    LET from == Min({start, to})
        span == Max({to - from, 1})
    IN  [From |-> from, To |-> to, Buckets |-> Clamped(buckets),
         BucketSeconds |-> (span + Clamped(buckets) - 1) \div Clamped(buckets)]

RowsIn(d, f) == {i \in RowsSince(d, f.From) : d.results[i].ts <= f.To}

BucketUnclamped(f, ts) == (ts - f.From) \div f.BucketSeconds

\* MIN((ts - from) / bucketSecs, lastIdx)
Bucket(f, ts) == Min({(ts - f.From) \div f.BucketSeconds, f.Buckets - 1})

RowsOf(d, f, b) == {i \in RowsIn(d, f) : Bucket(f, d.results[i].ts) = b}

\* The grouped pass over the pre-filled buckets.
Points(d, f) ==
    [b \in 0..(f.Buckets - 1) |->
        LET rows == RowsOf(d, f, b)
            n    == Cardinality(rows)
            ok   == Cardinality(UpRows(d, rows))
        IN  [TS |-> f.From + b * f.BucketSeconds, Checks |-> n, Successful |-> ok,
             UptimePercent |-> Percent(ok, n), AvgMs |-> AvgMs(d, rows)]]

\* The rank the second pass cuts a bucket of n latencies at.
Cut(n) == Max({1, (n * 95) \div 100})

\* MAX(CASE WHEN rn <= cut THEN response_ms END); 0 of a bucket with no row.
P95s(d, f) ==
    [b \in 0..(f.Buckets - 1) |->
        LET rows == UpRows(d, RowsOf(d, f, b))
        IN  IF rows = {} THEN 0
            ELSE AtLatencyRank(d, rows, Cut(Cardinality(rows)) - 1)]
=============================================================================

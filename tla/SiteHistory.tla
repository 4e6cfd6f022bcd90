---------------------------- MODULE SiteHistory ----------------------------
(***************************************************************************)
(* What the queries make of the history a site's check loop writes: the    *)
(* statements of Queries against reference definitions over the raw rows.  *)
(***************************************************************************)
EXTENDS Checking, Queries

CONSTANTS
    Starts,         \* where a series may start
    BucketCounts,   \* ?buckets= of a series
    Percents,       \* quantiles, in per cent
    ListLimits      \* ?limit= of a list

\* percentile is asked for quantiles below 1 (query.go), limitParam clamps to
\* 1 at least (api.go).
ASSUME QueriesAssumption ==
    /\ Starts \subseteq Int
    /\ BucketCounts \subseteq Int
    /\ Percents \subseteq 0..99
    /\ ListLimits \subseteq Nat \ {0}

(***************************************************************************)
(* The value percentile returns is the quantile it was asked for: more     *)
(* than p per cent of the latencies are at or below it, at most p per cent *)
(* below it.                                                               *)
(***************************************************************************)
PercentileIsQuantile ==
    \A since \in {t \in Starts : t <= now}, p \in Percents :
        LET rows  == Latencies(db, since)
            v     == Percentile(db, since, p)
            n     == Cardinality(rows)
            below == Cardinality({i \in rows : db.results[i].response_ms < v})
            upTo  == Cardinality({i \in rows : db.results[i].response_ms <= v})
        IN  n > 0 => 100 * upTo > p * n /\ 100 * below <= p * n

(***************************************************************************)
(* The buckets of a series partition its window: every check is counted    *)
(* once, in the bucket its time falls in, the tick on the upper edge too.  *)
(***************************************************************************)
SeriesPartitionsWindow ==
    \A start \in {t \in Starts : t <= now}, n \in BucketCounts :
        LET f   == Frame(start, now, n)
            pts == Points(db, f)
        IN  /\ MapThenSumSet(LAMBDA b : pts[b].Checks, DOMAIN pts)
                  = Cardinality(RowsIn(db, f))
            /\ \A b \in DOMAIN pts : \A i \in RowsOf(db, f, b) :
                  /\ pts[b].TS <= db.results[i].ts
                  /\ b + 1 \in DOMAIN pts => db.results[i].ts < pts[b + 1].TS
                  /\ db.results[i].ts <= pts[b].TS + f.BucketSeconds

(***************************************************************************)
(* "a single slow outlier moves the maximum but not the line" (README): of *)
(* a bucket with two latencies or more, the p95 is never above the second  *)
(* largest.                                                                *)
(***************************************************************************)
OutlierIsCutOff ==
    \A start \in {t \in Starts : t <= now}, n \in BucketCounts :
        LET f   == Frame(start, now, n)
            p95 == P95s(db, f)
        IN  \A b \in DOMAIN p95 :
                LET rows == UpRows(db, RowsOf(db, f, b)) IN
                Cardinality(rows) > 1 =>
                    Cardinality({i \in rows : db.results[i].response_ms >= p95[b]}) > 1

\* A series is a faithful summary of its window, counts and p95 line alike.
SeriesSummarisesWindow == SeriesPartitionsWindow /\ OutlierIsCutOff

(***************************************************************************)
(* The list of incidents agrees with the status: an ongoing incident heads *)
(* it, whatever its limit, and is its only one without an end; the others  *)
(* have a duration, and lasted no less than no time.                       *)
(***************************************************************************)
OngoingHeadsTheList ==
    \A limit \in ListLimits :
        LET list == Incidents(db, limit)
            open == Status(db).OngoingIncidentID
        IN  /\ open # NULL => list # <<>> /\ Head(list) = open
            /\ \A k \in DOMAIN list :
                LET length == Duration(db.incidents[list[k]])
                IN  IF list[k] = open THEN length = NULL ELSE length >= 0
=============================================================================

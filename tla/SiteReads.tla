----------------------------- MODULE SiteReads -----------------------------
(***************************************************************************)
(* Read requests beside the transactions of RecordTickTx.  A request is a  *)
(* list of statements; each takes the only connection of the pool, and     *)
(* between two of them ticks commit, so what one reply puts together comes *)
(* from several states of the database.  A statement gives the connection  *)
(* back once its last row is read.  That is a step of its own in Series,   *)
(* which reads the rows of one statement and then asks for the connection  *)
(* again; what a bucket holds is a matter of Queries, not of this module.  *)
(***************************************************************************)
EXTENDS RecordTickTx, Queries

CONSTANTS
    MaxReads,       \* bound on the requests served
    Quantiles,      \* those Metrics asks for, in per cent: <<50, 95, 99>>
    ListLimit       \* ?limit= of results and errors

ASSUME ReadsAssumption == Quantiles \in Seq(0..99) /\ ListLimit \in Nat \ {0}

VARIABLES
    req,        \* req[r]: the request reader r serves
    todo,       \* todo[r]: the statements it has still to run
    reply,      \* reply[r]: what its statements returned, by statement
    reads       \* requests accepted so far

rvars == <<req, todo, reply, reads>>

allvars == <<vars, rvars>>

NoRequest == [op |-> "none", since |-> 0]

ReadsInit ==
    /\ Init
    /\ req = [r \in Readers |-> NoRequest]
    /\ todo = [r \in Readers |-> <<>>]
    /\ reply = [r \in Readers |-> <<>>]
    /\ reads = 0

-----------------------------------------------------------------------------
Ask(q) == [q |-> q, p |-> 0]

\* Metrics: the totals, then two statements for each quantile.
MetricsPlan ==
    <<Ask("totals")>> \o
    FlattenSeq([i \in 1..Len(Quantiles) |->
        <<[q |-> "count", p |-> Quantiles[i]], [q |-> "row", p |-> Quantiles[i]]>>])

OverviewMetricsFirst == MetricsPlan \o <<Ask("status"), Ask("uptime")>>

OverviewPlan == <<Ask("status")>> \o MetricsPlan \o <<Ask("uptime")>>

\* "checks" is two requests of one client, one after the other.
Plan(op, since) ==
    CASE op = "overview" -> OverviewPlan
      [] op = "series"   -> (IF since = 0 THEN <<Ask("first")>> ELSE <<>>)
                            \o <<Ask("points"), Ask("p95")>>
      [] op = "checks"   -> <<Ask("results"), Ask("errors")>>

\* A request; `since' is 0 for all time, or the cutoff of its window.
Request(r) ==
    /\ req[r] = NoRequest
    /\ reads < MaxReads
    /\ reads' = reads + 1
    /\ \E op \in {"overview", "series", "checks"}, since \in 0..now :
        /\ req' = [req EXCEPT ![r] = [op |-> op, since |-> since]]
        /\ todo' = [todo EXCEPT ![r] = Plan(op, since)]
    /\ UNCHANGED <<vars, reply>>

-----------------------------------------------------------------------------
Asks(r, q) == todo[r] # <<>> /\ Head(todo[r]).q = q

Answered(r, q) == q \in DOMAIN reply[r]

Answer(r, q, a) ==
    reply' = [reply EXCEPT ![r] =
        [x \in DOMAIN reply[r] \cup {q} |-> IF x = q THEN a ELSE reply[r][x]]]

\* A statement of one row: QueryRow(...).Scan(...).
OneRow(r, q, a, rest) ==
    /\ Asks(r, q)
    /\ conn = Free
    /\ Answer(r, q, a)
    /\ todo' = [todo EXCEPT ![r] = rest]
    /\ UNCHANGED <<vars, req, reads>>

\* Its rows are read into a list, then the connection is free again.
ReadList(r, q, list) == OneRow(r, q, list, Tail(todo[r]))

ReadResults(r) == ReadList(r, "results", Results(db, req[r].since, ListLimit))

ReadErrors(r) == ReadList(r, "errors", Errors(db, req[r].since, ListLimit))

ReadStatus(r) == OneRow(r, "status", Status(db), Tail(todo[r]))

ReadTotals(r) == OneRow(r, "totals", Totals(db, req[r].since), Tail(todo[r]))

ReadUptime(r) == OneRow(r, "uptime", Uptime(db, req[r].since), Tail(todo[r]))

\* With no latency to rank, percentile returns before its second statement.
CountLatencies(r) ==
    LET n == Cardinality(Latencies(db, req[r].since))
    IN  OneRow(r, "count", n, IF n = 0 THEN Tail(Tail(todo[r])) ELSE Tail(todo[r]))

ReadRow(r) ==
    /\ Asks(r, "row")
    /\ OneRow(r, "row",
              RowAtOffset(db, req[r].since, Offset(reply[r]["count"], Head(todo[r]).p)),
              Tail(todo[r]))

\* No first check: an empty series.
ReadFirst(r) ==
    OneRow(r, "first", FirstCheck(db),
           IF FirstCheck(db) = NULL THEN <<>> ELSE Tail(todo[r]))

\* Query(...) of the two passes of Series.
OpenRows(r, q) ==
    /\ Asks(r, q)
    /\ conn = Free
    /\ conn' = r
    /\ Answer(r, q, "rows")
    /\ UNCHANGED <<db, now, begun, base, at, found, tx, incident, req, todo, reads>>

\* Reader r is at the rows of the statement it runs.
Scanning(r) == conn = r /\ todo[r] # <<>> /\ Answered(r, Head(todo[r]).q)

\* The connection once rows.Next has returned false; rows.Close is deferred
\* to the end of the function, but the last Next has closed the rows already.
ConnDeferred(r) == IF Tail(todo[r]) = <<>> THEN Free ELSE r

ConnAfterRows(r) == Free

CloseRows(r) ==
    /\ Scanning(r)
    /\ conn' = ConnAfterRows(r)
    /\ todo' = [todo EXCEPT ![r] = Tail(@)]
    /\ UNCHANGED <<db, now, begun, base, at, found, tx, incident, req, reply, reads>>

EndRequest(r) ==
    /\ req' = [req EXCEPT ![r] = NoRequest]
    /\ todo' = [todo EXCEPT ![r] = <<>>]
    /\ reply' = [reply EXCEPT ![r] = <<>>]
    /\ UNCHANGED reads

Respond(r) ==
    /\ req[r] # NoRequest
    /\ todo[r] = <<>>
    /\ EndRequest(r)
    /\ UNCHANGED vars

\* A statement or a Scan fails: 500, or a row of the overview with an error.
ReadFails(r) ==
    /\ todo[r] # <<>>
    /\ conn = Free \/ Scanning(r)
    /\ conn' = Free
    /\ EndRequest(r)
    /\ UNCHANGED <<db, now, begun, base, at, found, tx, incident>>

-----------------------------------------------------------------------------
Statement(r) ==
    \/ ReadStatus(r) \/ ReadTotals(r) \/ ReadUptime(r)
    \/ CountLatencies(r) \/ ReadRow(r) \/ ReadFirst(r)
    \/ ReadResults(r) \/ ReadErrors(r)
    \/ OpenRows(r, "points") \/ OpenRows(r, "p95")

ReadStep(r) == Statement(r) \/ CloseRows(r) \/ Respond(r) \/ ReadFails(r)

\* The process takes its requests with it.
ReadsCrash ==
    /\ Crash
    /\ req' = [r \in Readers |-> NoRequest]
    /\ todo' = [r \in Readers |-> <<>>]
    /\ reply' = [r \in Readers |-> <<>>]
    /\ UNCHANGED reads

ReadsNext ==
    \/ \E l \in Loops : (Begin(l) \/ Step(l)) /\ UNCHANGED rvars
    \/ Pass /\ UNCHANGED rvars
    \/ \E r \in Readers : Request(r) \/ ReadStep(r)
    \/ ReadsCrash

ReadsSpec == ReadsInit /\ [][ReadsNext]_allvars

\* As FairSpec; a request that was accepted runs on, and its statements get
\* the connection in the order they asked for it.
FairReadsSpec ==
    /\ ReadsSpec
    /\ \A l \in Loops :
        /\ WF_allvars(Step(l) /\ UNCHANGED rvars)
        /\ SF_allvars(BeginTx(l) /\ UNCHANGED rvars)
    /\ \A r \in Readers : WF_allvars(ReadStep(r)) /\ SF_allvars(Statement(r))

-----------------------------------------------------------------------------
\* Every request ends, whatever the loops do: no reader waits for a
\* connection held by its own unread rows, nor does a loop wait for it.
ReadReturns == \A r \in Readers : (req[r] # NoRequest) ~> (req[r] = NoRequest)

(***************************************************************************)
(* percentile counts the latencies, and ticks commit before it asks for    *)
(* the row at an offset of that count: the row is there all the same, or   *)
(* the request would fail.                                                 *)
(***************************************************************************)
PercentileFindsItsRow ==
    \A r \in Readers : Answered(r, "row") => reply[r]["row"] # NoRow

(***************************************************************************)
(* "the page could show a site as both up and 100% down" (README, of doing *)
(* without the overview).  A row of the overview reads state, totals and   *)
(* uptime one after the other; whatever commits between them, a site shown *)
(* up has a successful check and an uptime above 0, one shown down has a   *)
(* failed check and an uptime below 100, if its last check is in the       *)
(* window.                                                                 *)
(***************************************************************************)
OverviewExplainsItsState ==
    \A r \in Readers :
        (Answered(r, "status") /\ Answered(r, "totals") /\ Answered(r, "uptime")) =>
            LET st == reply[r]["status"] IN
            st.LastCheckTS >= req[r].since =>
                /\ st.Up = 1 => reply[r]["totals"].Successful > 0
                                /\ reply[r]["uptime"].Percent > 0
                /\ st.Up = 0 => reply[r]["totals"].Failed > 0
                                /\ reply[r]["uptime"].Percent < 10000

(***************************************************************************)
(* A client that lists the checks and then the errors of one window finds  *)
(* an error at the time of every failed check it was shown, unless the     *)
(* list of errors is cut at its limit.                                     *)
(***************************************************************************)
FailuresAreExplained ==
    \A r \in Readers :
        (Answered(r, "results") /\ Answered(r, "errors")
            /\ Len(reply[r]["errors"]) < ListLimit) =>
                \A i \in ToSet(reply[r]["results"]) :
                    ~db.results[i].up =>
                        \E e \in ToSet(reply[r]["errors"]) :
                            db.errors[e] = db.results[i].ts

\* A reply of several statements holds together, whatever ticks commit while
\* it is read and whatever fails.
RepliesHoldTogether ==
    PercentileFindsItsRow /\ OverviewExplainsItsState /\ FailuresAreExplained

\* The one connection always comes back: no tick and no reader waits for ever.
NobodyWaitsForEver == TickReturns /\ ReadReturns
=============================================================================

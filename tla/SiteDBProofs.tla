---------------------------- MODULE SiteDBProofs ----------------------------
(***************************************************************************)
(* Lemmas about the statements of RecordTick (SiteDB): the type each one   *)
(* keeps and the tables it touches; and about the rows the queries choose  *)
(* (Queries).  The proofs about the state machines that own a site         *)
(* database rest on them.                                                  *)
(***************************************************************************)
EXTENDS Queries, SequenceTheorems, FiniteSetTheorems, FunctionTheorems,
        WellFoundedInduction, TLAPS

-----------------------------------------------------------------------------
(* What one RecordTick does to each table, statement by statement.          *)

LEMMA InsertResultParts ==
    ASSUME NEW d \in DB, NEW ts \in Nat, NEW o \in Outcome
    PROVE  LET r == InsertResult(d, ts, o) IN
           /\ r \in DB
           /\ r.results = Append(d.results, [ts |-> ts, up |-> o.up, response_ms |-> o.response_ms])
           /\ r.incidents = d.incidents
           /\ r.errors = d.errors
           /\ r.state = d.state
<1>1. d.results \in Seq(ResultRow) BY DEF DB
<1>2. [ts |-> ts, up |-> o.up, response_ms |-> o.response_ms] \in ResultRow BY DEF ResultRow, Outcome
<1>3. Append(d.results, [ts |-> ts, up |-> o.up, response_ms |-> o.response_ms]) \in Seq(ResultRow)
  BY <1>1, <1>2
<1> QED BY <1>3 DEF InsertResult, DB

LEMMA ReconcileParts ==
    ASSUME NEW d \in DB, NEW ts \in Nat, NEW o \in Outcome
    PROVE  LET r == ReconcileIncident(d, ts, o) IN
           /\ r \in DB
           /\ r.results = d.results
           /\ r.errors = d.errors
           /\ r.state = d.state
<1>1. d.incidents \in Seq(IncidentRow) BY DEF DB
<1>2. CASE Opens(d.state, o)
  <2>1. [started_at |-> ts, resolved_at |-> NULL] \in IncidentRow
    BY DEF IncidentRow, Nullable
  <2>2. Append(d.incidents, [started_at |-> ts, resolved_at |-> NULL]) \in Seq(IncidentRow)
    BY <1>1, <2>1
  <2> QED BY <1>2, <2>2 DEF ReconcileIncident, OpenIncident, DB
<1>3. CASE ~Opens(d.state, o) /\ Resolves(d.state, o)
  <2> DEFINE i == d.state.current_incident_id
             s == [d.incidents EXCEPT ![i].resolved_at = ts]
  <2>1. s \in Seq(IncidentRow)
    <3>1. d.incidents \in [1..Len(d.incidents) -> IncidentRow] BY <1>1
    <3>2. s \in [1..Len(d.incidents) -> IncidentRow]
      BY <3>1 DEF IncidentRow, Nullable
    <3> QED BY <1>1, <3>2
  <2> HIDE DEF s
  <2>2. ReconcileIncident(d, ts, o) = [d EXCEPT !.incidents = s]
    BY <1>3 DEF ReconcileIncident, ResolveIncident, s, DB
  <2> QED BY <2>1, <2>2 DEF DB
<1>4. CASE ~Opens(d.state, o) /\ ~Resolves(d.state, o)
  BY <1>4 DEF ReconcileIncident
<1> QED BY <1>2, <1>3, <1>4

LEMMA LogErrorsParts ==
    ASSUME NEW d \in DB, NEW ts \in Nat, NEW o \in Outcome
    PROVE  LET r == LogErrors(d, ts, o) IN
           /\ r \in DB
           /\ r.results = d.results
           /\ r.incidents = d.incidents
           /\ r.errors = d.errors \o [i \in 1..o.errors |-> ts]
           /\ r.state = d.state
<1>1. d.errors \in Seq(Nat) BY DEF DB
<1>2. [i \in 1..o.errors |-> ts] \in Seq(Nat) BY DEF Outcome
<1>3. d.errors \o [i \in 1..o.errors |-> ts] \in Seq(Nat) BY <1>1, <1>2
<1> QED BY <1>3 DEF LogErrors, DB

LEMMA UpdateStateParts ==
    ASSUME NEW d \in DB, NEW ts \in Nat, NEW o \in Outcome, NEW inc \in Nullable
    PROVE  LET r == UpdateState(d, ts, o, inc) IN
           /\ r \in DB
           /\ r.results = d.results
           /\ r.incidents = d.incidents
           /\ r.errors = d.errors
           /\ r.state.current_up = (IF o.up THEN 1 ELSE 0)
           /\ r.state.current_incident_id = inc
           /\ r.state.consecutive_failures = FailsAfter(d.state, o)
<1>1. FailsAfter(d.state, o) \in Nat BY DEF FailsAfter, DB, StateRow
<1>2. UpdateState(d, ts, o, inc).state \in StateRow
  BY <1>1 DEF UpdateState, DB, StateRow, Outcome, Nullable
<1> QED BY <1>2 DEF UpdateState, DB

\* The whole transaction.
LEMMA RecordTickParts ==
    ASSUME NEW d \in DB, NEW ts \in Nat, NEW o \in Outcome
    PROVE  LET r == RecordTick(d, ts, o) IN
           /\ r \in DB
           /\ r.results = Append(d.results, [ts |-> ts, up |-> o.up, response_ms |-> o.response_ms])
           /\ r.incidents = ReconcileIncident(d, ts, o).incidents
           /\ r.errors = d.errors \o [i \in 1..o.errors |-> ts]
           /\ r.state.current_up = (IF o.up THEN 1 ELSE 0)
           /\ r.state.current_incident_id = IncidentAfter(d, o)
           /\ r.state.consecutive_failures = FailsAfter(d.state, o)
<1> DEFINE a == InsertResult(d, ts, o)
           b == ReconcileIncident(a, ts, o)
           c == LogErrors(b, ts, o)
<1>1. /\ a \in DB /\ a.results = Append(d.results, [ts |-> ts, up |-> o.up, response_ms |-> o.response_ms])
      /\ a.incidents = d.incidents /\ a.errors = d.errors /\ a.state = d.state
  BY InsertResultParts
<1>2. b.incidents = ReconcileIncident(d, ts, o).incidents
  BY <1>1 DEF ReconcileIncident, OpenIncident, ResolveIncident, DB
<1> HIDE DEF a
<1>3. b \in DB /\ b.results = a.results /\ b.errors = a.errors /\ b.state = a.state
  BY <1>1, ReconcileParts
<1> HIDE DEF b
<1>4. /\ c \in DB /\ c.results = b.results /\ c.incidents = b.incidents
      /\ c.errors = b.errors \o [i \in 1..o.errors |-> ts] /\ c.state = b.state
  BY <1>3, LogErrorsParts
<1> HIDE DEF c
<1>5. IncidentAfter(d, o) \in Nullable
  BY DEF IncidentAfter, DB, StateRow, Nullable
<1>6. RecordTick(d, ts, o) = UpdateState(c, ts, o, IncidentAfter(d, o))
  BY DEF RecordTick, a, b, c
<1> DEFINE r == UpdateState(c, ts, o, IncidentAfter(d, o))
<1>7. /\ r \in DB
      /\ r.results = c.results /\ r.incidents = c.incidents /\ r.errors = c.errors
      /\ r.state.current_up = (IF o.up THEN 1 ELSE 0)
      /\ r.state.current_incident_id = IncidentAfter(d, o)
      /\ r.state.consecutive_failures = FailsAfter(c.state, o)
  BY <1>4, <1>5, UpdateStateParts, ZenonT(60)
<1>8. FailsAfter(c.state, o) = FailsAfter(d.state, o) BY <1>1, <1>3, <1>4
<1>9. RecordTick(d, ts, o) = r BY <1>6
<1> HIDE DEF r
<1>10. r.results = Append(d.results, [ts |-> ts, up |-> o.up, response_ms |-> o.response_ms]) BY <1>1, <1>3, <1>4, <1>7
<1>11. r.incidents = ReconcileIncident(d, ts, o).incidents BY <1>2, <1>4, <1>7
<1>12. r.errors = d.errors \o [i \in 1..o.errors |-> ts] BY <1>1, <1>3, <1>4, <1>7
<1>13. r.state.consecutive_failures = FailsAfter(d.state, o) BY <1>7, <1>8
<1> QED BY <1>7, <1>9, <1>10, <1>11, <1>12, <1>13

\* What a tick leaves of the certificate it did or did not check.
LEMMA RecordTickExpiry ==
    ASSUME NEW d \in DB, NEW ts \in Nat, NEW o \in Outcome
    PROVE  RecordTick(d, ts, o).state.ssl_expires_at =
             IF ~o.sslChecked THEN d.state.ssl_expires_at
             ELSE IF o.sslExpiresAt > 0 THEN o.sslExpiresAt ELSE NULL
<1> DEFINE a == InsertResult(d, ts, o)
           b == ReconcileIncident(a, ts, o)
           c == LogErrors(b, ts, o)
<1>1. a \in DB /\ a.state = d.state BY InsertResultParts
<1> HIDE DEF a
<1>2. b \in DB /\ b.state = a.state BY <1>1, ReconcileParts
<1> HIDE DEF b
<1>3. c \in DB /\ c.state = b.state BY <1>2, LogErrorsParts
<1> HIDE DEF c
<1>4. UpdateState(c, ts, o, IncidentAfter(d, o)).state.ssl_expires_at =
        IF ~o.sslChecked THEN c.state.ssl_expires_at
        ELSE IF o.sslExpiresAt > 0 THEN o.sslExpiresAt ELSE NULL
  BY <1>3 DEF UpdateState, DB
<1>5. RecordTick(d, ts, o) = UpdateState(c, ts, o, IncidentAfter(d, o))
  BY DEF RecordTick, a, b, c
<1>6. c.state = d.state BY <1>1, <1>2, <1>3
<1> QED BY <1>4, <1>5, <1>6

\* A tick opens the next incident or resolves the current one, or neither.
LEMMA RecordTickIncidents ==
    ASSUME NEW d \in DB, NEW ts \in Nat, NEW o \in Outcome
    PROVE  LET old == d.incidents
               new == RecordTick(d, ts, o).incidents
           IN  /\ DOMAIN new = 1..(Len(old) + (IF Opens(d.state, o) THEN 1 ELSE 0))
               /\ Opens(d.state, o) => new[Len(old) + 1].resolved_at = NULL
               /\ \A i \in DOMAIN old :
                    old[i].resolved_at = NULL /\ new[i].resolved_at # NULL
                      => Resolves(d.state, o) /\ i = d.state.current_incident_id
<1> DEFINE old == d.incidents
           new == RecordTick(d, ts, o).incidents
<1>1. new = ReconcileIncident(d, ts, o).incidents BY RecordTickParts
<1>2. old \in Seq(IncidentRow) BY DEF DB
<1>3. CASE Opens(d.state, o)
  <2>1. new = Append(old, [started_at |-> ts, resolved_at |-> NULL])
    BY <1>1, <1>3 DEF ReconcileIncident, OpenIncident, DB
  <2> HIDE DEF new
  <2> QED BY <1>2, <1>3, <2>1 DEF new
<1>4. CASE ~Opens(d.state, o) /\ Resolves(d.state, o)
  <2> DEFINE k == d.state.current_incident_id
  <2>1. new = [old EXCEPT ![k].resolved_at = ts]
    BY <1>1, <1>4 DEF ReconcileIncident, ResolveIncident, DB
  <2>2. DOMAIN new = DOMAIN old /\ \A i \in DOMAIN old : i # k => new[i] = old[i]
    <3> HIDE DEF new
    <3> QED BY <1>2, <2>1
  <2>3. DOMAIN old = 1..(Len(old) + 0) BY <1>2
  <2> HIDE DEF new
  <2> QED BY <1>4, <2>2, <2>3 DEF new
<1>5. CASE ~Opens(d.state, o) /\ ~Resolves(d.state, o)
  <2>1. new = old BY <1>1, <1>5 DEF ReconcileIncident
  <2>2. DOMAIN old = 1..(Len(old) + 0) BY <1>2
  <2> HIDE DEF new
  <2> QED BY <1>5, <2>1, <2>2 DEF new
<1> QED BY <1>3, <1>4, <1>5

-----------------------------------------------------------------------------
\* The two databases a store starts from.
LEMMA FreshDBType == NewDB \in DB /\ UpgradedDB \in DB
<1>1. NewDB \in DB
  BY DEF NewDB, DB, StateRow, Nullable
<1>2. UpgradedDB \in DB
  <2>1. <<[ts |-> 0, up |-> FALSE, response_ms |-> 0]>> \in Seq(ResultRow) BY DEF ResultRow
  <2>2. <<[started_at |-> 0, resolved_at |-> NULL]>> \in Seq(IncidentRow)
    BY DEF IncidentRow, Nullable
  <2> QED BY <2>1, <2>2 DEF UpgradedDB, DB, StateRow, Nullable
<1> QED BY <1>1, <1>2

-----------------------------------------------------------------------------
\* Every nonempty set of numbers has a least one.
Below == {p \in Nat \X Nat : p[1] < p[2]}

LEMMA LeastNumber ==
    ASSUME NEW T, T \subseteq Nat, T # {}
    PROVE  \E n \in T : \A m \in T : n <= m
<1>1. IsWellFoundedOn(Below, Nat)
  BY NatLessThanWellFounded DEF OpToRel, Below
<1>2. PICK n \in T : \A m \in T : ~(<<m, n>> \in Below)
  BY <1>1, WFMin
<1>3. ASSUME NEW m \in T PROVE n <= m
  <2>1. n \in Nat /\ m \in Nat /\ ~(<<m, n>> \in Below) BY <1>2
  <2>2. m < n => <<m, n>> \in Below BY <2>1 DEF Below
  <2> QED BY <2>1, <2>2
<1> QED BY <1>3


(***************************************************************************)
(* The rank of an element of a finite set is the number of elements before *)
(* it: SQL's ORDER BY ... LIMIT 1 OFFSET k reads the row of rank k, and    *)
(* Queries chooses it.  In a strict total order every rank below the size  *)
(* of the set belongs to an element.                                       *)
(***************************************************************************)
Preceding(S, R, i) == {j \in S : <<j, i>> \in R}

StrictTotal(S, R) ==
    /\ \A i \in S : <<i, i>> \notin R
    /\ \A i, j \in S : i # j => <<i, j>> \in R \/ <<j, i>> \in R
    /\ \A i, j, k \in S : <<i, j>> \in R /\ <<j, k>> \in R => <<i, k>> \in R

LEMMA RanksGrow ==
    ASSUME NEW S, NEW R, IsFiniteSet(S), StrictTotal(S, R),
           NEW i \in S, NEW j \in S, <<i, j>> \in R
    PROVE  Cardinality(Preceding(S, R, i)) < Cardinality(Preceding(S, R, j))
<1> DEFINE A == Preceding(S, R, i)
           B == Preceding(S, R, j)
<1>1. A \subseteq B /\ i \in B /\ i \notin A /\ A \subseteq S /\ B \subseteq S
  BY DEF Preceding, StrictTotal
<1>2. IsFiniteSet(A) /\ IsFiniteSet(B) BY <1>1, FS_Subset
<1>3. Cardinality(A) \in Nat /\ Cardinality(B) \in Nat BY <1>2, FS_CardinalityType
<1>4. Cardinality(A) <= Cardinality(B) /\ (Cardinality(B) = Cardinality(A) => B = A)
  BY <1>1, <1>2, FS_Subset
<1> QED BY <1>1, <1>3, <1>4

LEMMA EveryRankIsTaken ==
    ASSUME NEW S, NEW R, IsFiniteSet(S), StrictTotal(S, R),
           NEW k \in 0..(Cardinality(S) - 1)
    PROVE  \E i \in S : Cardinality(Preceding(S, R, i)) = k
<1> DEFINE n == Cardinality(S)
           rank == [i \in S |-> Cardinality(Preceding(S, R, i))]
<1>1. n \in Nat BY FS_CardinalityType
<1>2. ASSUME NEW i \in S PROVE rank[i] \in 0..(n - 1)
  <2> DEFINE A == Preceding(S, R, i)
  <2>1. A \subseteq S /\ i \notin A BY DEF Preceding, StrictTotal
  <2>2. IsFiniteSet(A) /\ Cardinality(A) <= n /\ (n = Cardinality(A) => S = A)
    BY <2>1, FS_Subset
  <2>3. Cardinality(A) \in Nat BY <2>2, FS_CardinalityType
  <2> QED BY <1>1, <2>1, <2>2, <2>3
<1>3. rank \in [S -> 0..(n - 1)] BY <1>2
<1>4. ASSUME NEW i \in S, NEW j \in S, rank[i] = rank[j] PROVE i = j
  <2> SUFFICES ASSUME i # j PROVE FALSE OBVIOUS
  <2>1. <<i, j>> \in R \/ <<j, i>> \in R BY DEF StrictTotal
  <2>2. rank[i] < rank[j] \/ rank[j] < rank[i] BY <2>1, RanksGrow
  <2>3. rank[i] \in Int /\ rank[j] \in Int BY <1>2
  <2> QED BY <1>4, <2>2, <2>3
<1>5. rank \in Injection(S, 0..(n - 1))
  <2> HIDE DEF rank
  <2> QED BY <1>3, <1>4, Fun_IsInj
<1>6. IsFiniteSet(0..(n - 1)) /\ Cardinality(0..(n - 1)) = n
  <2>1. 0 \in Int /\ n - 1 \in Int BY <1>1
  <2>2. IsFiniteSet(0..(n - 1)) /\ Cardinality(0..(n - 1)) = IF 0 > n - 1 THEN 0 ELSE n - 1 - 0 + 1
    BY <2>1, FS_Interval
  <2> QED BY <1>1, <2>2
<1>7. rank \in Surjection(S, 0..(n - 1))
  <2> HIDE DEF rank
  <2> QED BY <1>5, <1>6, FS_Injection
<1>8. PICK i \in S : rank[i] = k
  <2>1. \A t \in 0..(n - 1) : \E i \in S : rank[i] = t
    BY <1>7 DEF Surjection
  <2> QED BY <2>1
<1> QED BY <1>8
-----------------------------------------------------------------------------
(***************************************************************************)
(* The statement that reads the row at an offset finds one while the       *)
(* offset is below the number of rows, and it is the row of that rank, in  *)
(* the three orders the queries ask for.                                   *)
(***************************************************************************)
FasterIn(d, i, j) ==
    \/ d.results[i].response_ms < d.results[j].response_ms
    \/ d.results[i].response_ms = d.results[j].response_ms /\ i < j

LEMMA RowsAreFinite ==
    ASSUME NEW d \in DB, NEW rows \in SUBSET DOMAIN d.results
    PROVE  /\ IsFiniteSet(rows) /\ Cardinality(rows) \in Nat
           /\ rows \subseteq Nat
           /\ \A i \in rows : d.results[i].response_ms \in Nat /\ d.results[i].ts \in Nat
           /\ \A i \in rows : d.results[i].up \in BOOLEAN
<1>1. d.results \in Seq(ResultRow) BY DEF DB
<1>2. DOMAIN d.results = 1..Len(d.results) /\ Len(d.results) \in Nat BY <1>1
<1>3. IsFiniteSet(1..Len(d.results))
  <2>1. 1 \in Int /\ Len(d.results) \in Int BY <1>2
  <2> QED BY <2>1, FS_Interval
<1>4. IsFiniteSet(rows) BY <1>2, <1>3, FS_Subset
<1>5. \A i \in rows : d.results[i] \in ResultRow BY <1>1, <1>2
<1> QED BY <1>2, <1>4, <1>5, FS_CardinalityType DEF ResultRow

LEMMA LatencyRow ==
    ASSUME NEW d \in DB, NEW rows \in SUBSET DOMAIN d.results,
           NEW k \in 0..(Cardinality(rows) - 1)
    PROVE  \E i \in rows :
              /\ AtLatencyRank(d, rows, k) = d.results[i].response_ms
              /\ Cardinality({j \in rows : FasterIn(d, j, i)}) = k
<1> DEFINE R == {p \in rows \X rows : FasterIn(d, p[1], p[2])}
<1>1. /\ IsFiniteSet(rows) /\ rows \subseteq Nat
      /\ \A i \in rows : d.results[i].response_ms \in Nat
  BY RowsAreFinite
<1>2. \A i, j \in rows : <<i, j>> \in R <=> FasterIn(d, i, j) OBVIOUS
<1>3. \A i \in rows : Preceding(rows, R, i) = {j \in rows : FasterIn(d, j, i)}
  BY <1>2 DEF Preceding
<1>4. StrictTotal(rows, R)
  <2>1. \A i \in rows : <<i, i>> \notin R BY <1>1, <1>2 DEF FasterIn
  <2>2. \A i, j \in rows : i # j => <<i, j>> \in R \/ <<j, i>> \in R
    <3> SUFFICES ASSUME NEW i \in rows, NEW j \in rows, i # j
                 PROVE  FasterIn(d, i, j) \/ FasterIn(d, j, i)
      BY <1>2
    <3>1. /\ i \in Nat /\ j \in Nat
          /\ d.results[i].response_ms \in Nat /\ d.results[j].response_ms \in Nat
      BY <1>1
    <3> QED BY <3>1 DEF FasterIn
  <2>3. \A i, j, m \in rows : <<i, j>> \in R /\ <<j, m>> \in R => <<i, m>> \in R
    <3> SUFFICES ASSUME NEW i \in rows, NEW j \in rows, NEW m \in rows,
                        FasterIn(d, i, j), FasterIn(d, j, m)
                 PROVE  FasterIn(d, i, m)
      BY <1>2
    <3>1. /\ i \in Nat /\ j \in Nat /\ m \in Nat
          /\ d.results[i].response_ms \in Nat /\ d.results[j].response_ms \in Nat
          /\ d.results[m].response_ms \in Nat
      BY <1>1
    <3> QED BY <3>1 DEF FasterIn
  <2> QED BY <2>1, <2>2, <2>3 DEF StrictTotal
<1> HIDE DEF R
<1>5. \E i \in rows : Cardinality({j \in rows : FasterIn(d, j, i)}) = k
  <2>1. \E i \in rows : Cardinality(Preceding(rows, R, i)) = k
    BY <1>1, <1>4, EveryRankIsTaken
  <2> QED BY <1>3, <2>1
<1> DEFINE x == CHOOSE i \in rows : Cardinality({j \in rows : FasterIn(d, j, i)}) = k
<1>6. AtLatencyRank(d, rows, k) = d.results[x].response_ms
  BY DEF AtLatencyRank, RowAt, FasterIn
<1>7. x \in rows /\ Cardinality({j \in rows : FasterIn(d, j, x)}) = k
  BY <1>5
<1> QED BY <1>6, <1>7
\* Below and up to the latency of rank k, in a set of rows.
LEMMA LatencyCounts ==
    ASSUME NEW d \in DB, NEW rows \in SUBSET DOMAIN d.results,
           NEW k \in 0..(Cardinality(rows) - 1)
    PROVE  LET v == AtLatencyRank(d, rows, k)
           IN  /\ Cardinality({i \in rows : d.results[i].response_ms < v}) <= k
               /\ Cardinality({i \in rows : d.results[i].response_ms <= v}) >= k + 1
               /\ Cardinality({i \in rows : d.results[i].response_ms >= v})
                      >= Cardinality(rows) - k
<1>1. /\ IsFiniteSet(rows) /\ rows \subseteq Nat /\ Cardinality(rows) \in Nat
      /\ \A i \in rows : d.results[i].response_ms \in Nat
  BY RowsAreFinite
<1>2. PICK x \in rows :
        /\ AtLatencyRank(d, rows, k) = d.results[x].response_ms
        /\ Cardinality({j \in rows : FasterIn(d, j, x)}) = k
  BY LatencyRow
<1> DEFINE v == d.results[x].response_ms
           F == {j \in rows : FasterIn(d, j, x)}
           below == {i \in rows : d.results[i].response_ms < v}
           upTo == {i \in rows : d.results[i].response_ms <= v}
           above == {i \in rows : d.results[i].response_ms >= v}
<1>3. /\ below \subseteq F /\ F \subseteq upTo /\ x \in upTo /\ x \notin F
      /\ rows \ F \subseteq above
  BY <1>1 DEF FasterIn
<1>4. F \subseteq rows /\ upTo \subseteq rows /\ above \subseteq rows OBVIOUS
<1> HIDE DEF v, F, below, upTo, above
<1>5. IsFiniteSet(F) /\ IsFiniteSet(upTo) /\ IsFiniteSet(above) /\ Cardinality(F) = k
  BY <1>1, <1>2, <1>4, FS_Subset DEF F
<1>6. Cardinality(below) <= k BY <1>3, <1>5, FS_Subset
<1>7. Cardinality(upTo) >= k + 1
  <2>1. IsFiniteSet(F \cup {x}) /\ Cardinality(F \cup {x}) = k + 1
    BY <1>3, <1>5, FS_AddElement
  <2>2. F \cup {x} \subseteq upTo BY <1>3
  <2>3. Cardinality(F \cup {x}) <= Cardinality(upTo) BY <1>5, <2>2, FS_Subset
  <2>4. Cardinality(upTo) \in Nat BY <1>5, FS_CardinalityType
  <2> QED BY <2>1, <2>3, <2>4
<1>8. Cardinality(above) >= Cardinality(rows) - k
  <2>1. Cardinality(rows \ F) = Cardinality(rows) - Cardinality(rows \cap F)
    BY <1>1, FS_Difference
  <2>2. rows \cap F = F BY <1>4
  <2>3. Cardinality(rows \ F) <= Cardinality(above) BY <1>3, <1>5, FS_Subset
  <2>4. Cardinality(above) \in Nat BY <1>5, FS_CardinalityType
  <2> QED BY <1>1, <1>5, <2>1, <2>2, <2>3, <2>4
<1> QED BY <1>2, <1>6, <1>7, <1>8 DEF v, below, upTo, above

\* A list without its filter: ids 1 to n, newest first.
LEMMA NewestFirst ==
    ASSUME NEW n \in Nat, NEW limit \in Nat
    PROVE  Newest(1..n, limit) = [k \in 1..(IF limit <= n THEN limit ELSE n) |-> n - k + 1]
<1>1. Cardinality(1..n) = n BY FS_Interval
<1>2. Min({limit, n}) = IF limit <= n THEN limit ELSE n
  <2> DEFINE least == IF limit <= n THEN limit ELSE n
  <2>1. least \in {limit, n} /\ \A y \in {limit, n} : least <= y OBVIOUS
  <2>2. \A x \in {limit, n} : (\A y \in {limit, n} : x <= y) => x = least OBVIOUS
  <2> QED BY <2>1, <2>2 DEF Min
<1> DEFINE After(i) == Cardinality({j \in 1..n : j > i})
           Chosen(k) == CHOOSE i \in 1..n : After(i) = k - 1
<1>3. ASSUME NEW i \in 1..n PROVE After(i) = n - i
  <2> DEFINE later == {j \in 1..n : j > i}
  <2>1. later = (i + 1)..n OBVIOUS
  <2>2. Cardinality((i + 1)..n) = IF i + 1 > n THEN 0 ELSE n - (i + 1) + 1
    <3>1. i + 1 \in Int /\ n \in Int OBVIOUS
    <3> QED BY <3>1, FS_Interval
  <2> HIDE DEF later
  <2>3. Cardinality(later) = n - i BY <2>1, <2>2
  <2> QED BY <2>3 DEF later
<1>4. Newest(1..n, limit)
        = [k \in 1..Min({limit, Cardinality(1..n)}) |-> Chosen(k)]
  BY DEF Newest, Page, RowAt
<1> HIDE DEF After
<1>5. ASSUME NEW k \in 1..n
      PROVE  Chosen(k) = n - k + 1
  <2>1. \A i \in 1..n : After(i) = k - 1 <=> i = n - k + 1 BY <1>3
  <2>2. n - k + 1 \in 1..n OBVIOUS
  <2> QED BY <2>1, <2>2
<1> HIDE DEF Chosen
<1> DEFINE m == IF limit <= n THEN limit ELSE n
<1>6. Newest(1..n, limit) = [k \in 1..m |-> Chosen(k)] BY <1>1, <1>2, <1>4
<1>7. 1..m \subseteq 1..n OBVIOUS
<1> HIDE DEF m
<1>8. [k \in 1..m |-> Chosen(k)] = [k \in 1..m |-> n - k + 1] BY <1>5, <1>7
<1> QED BY <1>6, <1>8 DEF m

(***************************************************************************)
(* A list of at most `limit' ids holds ids of the table that pass its      *)
(* filter, and all of them when the limit does not cut it.                 *)
(***************************************************************************)
LEMMA NewestPage ==
    ASSUME NEW ids \in SUBSET Nat, IsFiniteSet(ids), NEW limit \in Nat
    PROVE  LET page == Newest(ids, limit)
           IN  /\ page \in Seq(ids)
               /\ Len(page) < limit => \A i \in ids : \E k \in DOMAIN page : page[k] = i
<1> DEFINE n == Cardinality(ids)
           R == {p \in ids \X ids : p[1] > p[2]}
           After(i) == Cardinality({j \in ids : j > i})
           Chosen(k) == CHOOSE i \in ids : After(i) = k - 1
           m == IF limit <= n THEN limit ELSE n
           page == [k \in 1..m |-> Chosen(k)]
<1>1. n \in Nat BY FS_CardinalityType
<1>2. Min({limit, n}) = m
  <2> HIDE DEF n
  <2>1. m \in {limit, n} OBVIOUS
  <2>2. \A x \in {limit, n} : (\A y \in {limit, n} : x <= y) <=> x = m BY <1>1
  <2> QED BY <2>1, <2>2 DEF Min
<1>3. Newest(ids, limit) = page
  <2>1. Newest(ids, limit) = [k \in 1..Min({limit, n}) |-> Chosen(k)] BY DEF Newest, Page, RowAt
  <2> HIDE DEF Chosen, n
  <2> QED BY <1>2, <2>1
<1>4. StrictTotal(ids, R) BY DEF StrictTotal
<1>5. \A i \in ids : {j \in ids : j > i} = Preceding(ids, R, i) BY DEF Preceding
<1>6. \A i \in ids : After(i) = Cardinality(Preceding(ids, R, i)) BY <1>5
<1> HIDE DEF R, After, n
<1>7. ASSUME NEW i \in ids PROVE After(i) \in 0..(n - 1)
  <2> DEFINE A == Preceding(ids, R, i)
  <2>1. A \subseteq ids /\ i \notin A BY <1>4 DEF Preceding, StrictTotal
  <2>2. IsFiniteSet(A) /\ Cardinality(A) <= n /\ (n = Cardinality(A) => ids = A)
    BY <2>1, FS_Subset DEF n
  <2>3. Cardinality(A) \in Nat BY <2>2, FS_CardinalityType
  <2> QED BY <1>1, <1>6, <2>1, <2>2, <2>3
<1>8. ASSUME NEW i \in ids, NEW j \in ids, After(i) = After(j) PROVE i = j
  <2> SUFFICES ASSUME i # j PROVE FALSE OBVIOUS
  <2>1. <<i, j>> \in R \/ <<j, i>> \in R BY <1>4 DEF StrictTotal
  <2>2. After(i) < After(j) \/ After(j) < After(i) BY <1>4, <1>6, <2>1, RanksGrow
  <2>3. After(i) \in Int /\ After(j) \in Int BY <1>7
  <2> QED BY <1>8, <2>2, <2>3
<1>9. ASSUME NEW k \in 1..n PROVE \E i \in ids : After(i) = k - 1
  <2>1. k - 1 \in 0..(Cardinality(ids) - 1) BY <1>1 DEF n
  <2>2. \E i \in ids : Cardinality(Preceding(ids, R, i)) = k - 1
    <3> DEFINE r == k - 1
    <3>1. r \in 0..(Cardinality(ids) - 1) BY <2>1
    <3> HIDE DEF r
    <3>2. \E i \in ids : Cardinality(Preceding(ids, R, i)) = r BY <1>4, <3>1, EveryRankIsTaken
    <3> QED BY <3>2 DEF r
  <2> QED BY <1>6, <2>2
<1>10. \A k \in 1..n : Chosen(k) \in ids /\ After(Chosen(k)) = k - 1 BY <1>9
<1> HIDE DEF Chosen
<1>11. m \in Nat /\ 1..m \subseteq 1..n /\ (m < limit => m = n) BY <1>1
<1> HIDE DEF m
<1>12. page \in Seq(ids) /\ Len(page) = m /\ DOMAIN page = 1..m
  <2>1. page \in [1..m -> ids] BY <1>10, <1>11
  <2> HIDE DEF page
  <2>2. page \in Seq(ids) BY <1>11, <2>1, SeqDef
  <2> QED BY <1>11, <2>1, <2>2, LenProperties
<1>13. ASSUME m = n, NEW i \in ids PROVE \E k \in DOMAIN page : page[k] = i
  <2> DEFINE k == After(i) + 1
  <2>1. k \in 1..n /\ k - 1 = After(i) BY <1>1, <1>7
  <2> HIDE DEF k
  <2>2. Chosen(k) \in ids /\ After(Chosen(k)) = After(i) BY <1>10, <2>1
  <2>3. Chosen(k) = i BY <1>8, <2>2
  <2> QED BY <1>12, <1>13, <2>1, <2>3
<1> HIDE DEF page
<1> QED BY <1>3, <1>11, <1>12, <1>13

-----------------------------------------------------------------------------
LEMMA Division ==
    ASSUME NEW a \in Nat, NEW b \in Nat \ {0}
    PROVE  a \div b \in Nat /\ (a \div b) * b <= a /\ a < (a \div b) * b + b
OBVIOUS

(***************************************************************************)
(* A percentage is rounded to two decimals.  Below 20,000 checks one good  *)
(* check keeps it above 0 and one failed check below 100.                  *)
(***************************************************************************)
LEMMA PercentEdges ==
    ASSUME NEW n \in Nat, n < 20000, NEW ok \in 0..n
    PROVE  /\ ok > 0 => Percent(ok, n) > 0
           /\ ok < n => Percent(ok, n) < 10000
<1> SUFFICES ASSUME n # 0
             PROVE  /\ ok > 0 => Percent(ok, n) > 0
                    /\ ok < n => Percent(ok, n) < 10000
  OBVIOUS
<1> DEFINE x == 200 * (100 * ok) + n
           w == 2 * n
           q == x \div w
<1>1. x \in Nat /\ w \in Nat \ {0} OBVIOUS
<1>2. q \in Nat /\ q * w <= x /\ x < q * w + w
  <2> HIDE DEF x, w
  <2> QED BY <1>1, Division
<1>3. Percent(ok, n) = q BY DEF Percent, RoundedPerHundred
<1> HIDE DEF q
<1>4. ok > 0 => x >= w OBVIOUS
<1>5. ok < n => x < 10000 * w OBVIOUS
<1> HIDE DEF x, w
<1>6. ok > 0 => q # 0 BY <1>1, <1>2, <1>4
<1>7. ok < n => q < 10000
  <2> SUFFICES ASSUME ok < n, q >= 10000 PROVE FALSE BY <1>2
  <2>1. q * w >= 10000 * w BY <1>1, <1>2
  <2>2. q * w \in Int BY <1>1, <1>2
  <2> QED BY <1>1, <1>2, <1>5, <2>1, <2>2
<1> QED BY <1>2, <1>3, <1>6, <1>7
=============================================================================

-------------------------- MODULE SiteStoreProofs --------------------------
(***************************************************************************)
(* Theorems about SiteStore, for every set of loops, every set of tick     *)
(* outcomes and every bound, and about what is built on it: the loop's     *)
(* clocks (Checking) and what is read of the history (SiteHistory).        *)
(***************************************************************************)
EXTENDS SiteHistory, SiteDBProofs

-----------------------------------------------------------------------------
(***************************************************************************)
(* TypeOK is inductive: the statements build rows of the tables' types     *)
(* whatever the state row says.                                            *)
(***************************************************************************)
LEMMA InitTypeOK == Init => TypeOK
<1> SUFFICES ASSUME Init PROVE TypeOK
  OBVIOUS
<1> QED BY FreshDBType DEF Init, TypeOK, Nullable

LEMMA NextTypeOK == TypeOK /\ [Next]_vars => TypeOK'
<1> SUFFICES ASSUME TypeOK, [Next]_vars PROVE TypeOK'
  OBVIOUS
<1> USE DEF TypeOK
<1>1. ASSUME NEW l \in Loops, Begin(l) PROVE TypeOK'
  BY <1>1 DEF Begin, Nullable
<1>2. ASSUME NEW l \in Loops, NEW o \in Outcomes, Record(l, o) PROVE TypeOK'
  <2>1. begun[l] \in Nat /\ o \in Outcome
    BY <1>2, OutcomesAssumption DEF Record, Nullable
  <2>2. db' \in DB BY <1>2, <2>1, RecordTickParts DEF Record
  <2> QED BY <1>2, <2>2 DEF Record, Nullable
<1>3. ASSUME NEW l \in Loops, RecordFails(l) PROVE TypeOK'
  BY <1>3 DEF RecordFails, Nullable
<1>4. CASE Crash BY <1>4 DEF Crash, Nullable
<1>5. CASE Pass BY <1>5 DEF Pass
<1>6. CASE UNCHANGED vars BY <1>6 DEF vars
<1> QED BY <1>1, <1>2, <1>3, <1>4, <1>5, <1>6 DEF Next

\* Every reachable state is well-typed: in particular RecordTick never leaves
\* a table or the state row malformed.
THEOREM TypeCorrect == Spec => []TypeOK
BY InitTypeOK, NextTypeOK, PTL DEF Spec

-----------------------------------------------------------------------------
(***************************************************************************)
(* IncidentAgreement is inductive given the types.  The step that matters  *)
(* is Record, by the three cases of RecordTick's switch.                   *)
(***************************************************************************)
LEMMA RecordKeepsAgreement ==
    ASSUME TypeOK, IncidentAgreement, NEW l \in Loops, NEW o \in Outcomes, Record(l, o)
    PROVE  IncidentAgreement'
<1> DEFINE ts == begun[l]
           st == db.state
           old == db.incidents
           new == db'.incidents
<1>1. ts \in Nat /\ o \in Outcome /\ db \in DB
  BY OutcomesAssumption DEF Record, Nullable, TypeOK
<1>2. /\ new = ReconcileIncident(db, ts, o).incidents
      /\ db'.state.current_up = (IF o.up THEN 1 ELSE 0)
      /\ db'.state.current_incident_id = IncidentAfter(db, o)
  BY <1>1, RecordTickParts DEF Record
<1>3. /\ old \in Seq(IncidentRow) /\ o.up \in BOOLEAN
      /\ st.current_up \in {NULL, 0, 1} /\ st.current_incident_id \in Nullable
  BY <1>1 DEF DB, StateRow, Outcome
<1>4. CASE Opens(st, o)
  <2>1. ~o.up /\ st.current_incident_id = NULL
    BY <1>3, <1>4 DEF Opens, IncidentAgreement, DownMeansOpen, NULL
  <2>2. new = Append(old, [started_at |-> ts, resolved_at |-> NULL])
    BY <1>1, <1>2, <1>4 DEF ReconcileIncident, OpenIncident, DB
  <2>3. db'.state.current_incident_id = Len(old) + 1 /\ db'.state.current_up = 0
    BY <1>2, <1>4, <2>1 DEF IncidentAfter
  <2>4. \A i \in DOMAIN old : old[i].resolved_at # NULL
    BY <1>3, <2>1 DEF IncidentAgreement, OneOpenIncident, NULL
  <2>5. Len(new) = Len(old) + 1
    BY <1>3, <2>2
  <2>6. \A i \in DOMAIN new : (new[i].resolved_at = NULL) <=> (i = Len(old) + 1)
    BY <1>3, <2>2, <2>4
  <2> QED BY <1>3, <2>3, <2>5, <2>6
          DEF IncidentAgreement, DownMeansOpen, OneOpenIncident, OpenIncidentIsNewest, NULL
<1>5. CASE ~Opens(st, o) /\ Recovers(st, o)
  <2>1. st.current_incident_id = Len(old) /\ st.current_incident_id # NULL /\ Resolves(st, o)
    BY <1>3, <1>5 DEF Recovers, Resolves, IncidentAgreement, DownMeansOpen, OpenIncidentIsNewest
  <2>2. new = [old EXCEPT ![Len(old)].resolved_at = ts]
    BY <1>1, <1>2, <1>5, <2>1 DEF ReconcileIncident, ResolveIncident, DB
  <2>3. db'.state.current_incident_id = NULL /\ db'.state.current_up = 1
    BY <1>2, <1>5 DEF IncidentAfter, Recovers
  <2>4. DOMAIN new = DOMAIN old
    BY <1>3, <2>2
  <2>5. \A i \in DOMAIN new : new[i].resolved_at # NULL
    BY <1>1, <1>3, <2>1, <2>2 DEF IncidentAgreement, OneOpenIncident, IncidentRow, NULL
  <2>6. \A i \in DOMAIN new : i # NULL
    BY <1>3, <2>4 DEF NULL
  <2> QED BY <2>3, <2>5, <2>6
          DEF IncidentAgreement, DownMeansOpen, OneOpenIncident, OpenIncidentIsNewest, NULL
<1>6. CASE ~Opens(st, o) /\ ~Recovers(st, o)
  <2>1. new = old
    BY <1>1, <1>2, <1>6 DEF ReconcileIncident, Resolves
  <2>2. db'.state.current_incident_id = st.current_incident_id
    BY <1>2, <1>6 DEF IncidentAfter
  <2>3. (db'.state.current_up = 0) <=> (st.current_up = 0)
    BY <1>2, <1>3, <1>6 DEF Opens, Recovers, NULL
  <2> QED BY <2>1, <2>2, <2>3
          DEF IncidentAgreement, DownMeansOpen, OneOpenIncident, OpenIncidentIsNewest
<1> QED BY <1>4, <1>5, <1>6

LEMMA InitAgreement == Init => IncidentAgreement
<1> SUFFICES ASSUME Init PROVE IncidentAgreement
  OBVIOUS
<1> USE DEF NULL, IncidentAgreement, DownMeansOpen, OneOpenIncident, OpenIncidentIsNewest
<1>1. CASE db = NewDB
  <2>1. /\ db.incidents = <<>> /\ db.state.current_up = NULL
        /\ db.state.current_incident_id = NULL
    BY <1>1 DEF NewDB
  <2> QED BY <2>1
<1>2. CASE db = UpgradedDB
  <2>1. /\ db.incidents = <<[started_at |-> 0, resolved_at |-> NULL]>>
        /\ db.state.current_up = 0 /\ db.state.current_incident_id = 1
    BY <1>2 DEF UpgradedDB
  <2> QED BY <2>1
<1> QED BY <1>1, <1>2 DEF Init

LEMMA NextAgreement == TypeOK /\ IncidentAgreement /\ [Next]_vars => IncidentAgreement'
<1> SUFFICES ASSUME TypeOK, IncidentAgreement, [Next]_vars PROVE IncidentAgreement'
  OBVIOUS
<1>1. ASSUME NEW l \in Loops, NEW o \in Outcomes, Record(l, o) PROVE IncidentAgreement'
  BY <1>1, RecordKeepsAgreement
<1>2. CASE UNCHANGED db
  BY <1>2 DEF IncidentAgreement, DownMeansOpen, OneOpenIncident, OpenIncidentIsNewest
<1> QED BY <1>1, <1>2 DEF Next, vars, Begin, RecordFails, Crash, Pass

\* In every reachable state the rolled-up row and the incidents table agree:
\* down exactly while one incident, the newest, is open.  It holds whatever
\* fails or crashes, and for any number of overlapping loops.
THEOREM Agreement == Spec => []IncidentAgreement
<1>1. Init => TypeOK /\ IncidentAgreement BY InitTypeOK, InitAgreement
<1>2. TypeOK /\ IncidentAgreement /\ [Next]_vars => (TypeOK /\ IncidentAgreement)'
  BY NextTypeOK, NextAgreement
<1> QED BY <1>1, <1>2, PTL DEF Spec

-----------------------------------------------------------------------------
(***************************************************************************)
(* The failure counter.  base never changes, and a tick moves the counter  *)
(* and the newest row together.                                            *)
(***************************************************************************)
Counting == TrailingFailures /\ StateIsLastRow /\ base <= Len(db.results)

LEMMA InitCounting == Init => Counting
<1> SUFFICES ASSUME Init PROVE Counting
  OBVIOUS
<1>1. CASE db = NewDB /\ base = 0
  BY <1>1 DEF NewDB, NULL, Counting, TrailingFailures, StateIsLastRow
<1>2. CASE db = UpgradedDB /\ base = 1
  BY <1>2 DEF UpgradedDB, NULL, Counting, TrailingFailures, StateIsLastRow
<1> QED BY <1>1, <1>2 DEF Init

LEMMA RecordKeepsCounting ==
    ASSUME TypeOK, Counting, NEW l \in Loops, NEW o \in Outcomes, Record(l, o)
    PROVE  Counting'
<1> DEFINE ts == begun[l]
           row == [ts |-> ts, up |-> o.up, response_ms |-> o.response_ms]
           n == Len(db.results)
           f == db.state.consecutive_failures
           g == db'.state.consecutive_failures
<1>1. ts \in Nat /\ o \in Outcome /\ db \in DB /\ base \in Nat /\ base' = base
  BY OutcomesAssumption DEF Record, Nullable, TypeOK
<1>2. /\ db'.results = Append(db.results, row)
      /\ db'.state.current_up = (IF o.up THEN 1 ELSE 0)
      /\ g = FailsAfter(db.state, o)
  BY <1>1, RecordTickParts DEF Record
<1>3. db.results \in Seq(ResultRow) /\ f \in Nat /\ o.up \in BOOLEAN
  BY <1>1 DEF DB, StateRow, Outcome
<1>4. /\ Len(db'.results) = n + 1
      /\ db'.results[n + 1].up = o.up
      /\ \A i \in 1..n : db'.results[i] = db.results[i]
  BY <1>2, <1>3
<1>5. StateIsLastRow'
  BY <1>2, <1>3, <1>4 DEF StateIsLastRow
<1>6. (base <= Len(db.results))'
  BY <1>1, <1>3, <1>4 DEF Counting
<1>7. TrailingFailures'
  <2>1. CASE o.up
    <3>1. g = 0 BY <1>2, <2>1 DEF FailsAfter
    <3>2. g <= (n + 1) - base BY <1>1, <1>3, <3>1 DEF Counting
    <3>3. \A i \in ((n + 1) - g + 1)..(n + 1) : FALSE BY <1>3, <3>1
    <3>4. db'.results[(n + 1) - g].up
      <4>1. (n + 1) - g = n + 1 BY <1>3, <3>1
      <4> QED BY <1>4, <2>1, <4>1
    <3> QED BY <1>1, <1>4, <3>2, <3>3, <3>4 DEF TrailingFailures
  <2>2. CASE ~o.up
    <3>1. g = f + 1 BY <1>2, <2>2 DEF FailsAfter
    <3>2. g <= (n + 1) - base
      BY <1>1, <1>3, <3>1 DEF Counting, TrailingFailures
    <3>3. ASSUME NEW i \in ((n + 1) - g + 1)..(n + 1) PROVE ~db'.results[i].up
      <4>1. CASE i = n + 1 BY <1>4, <2>2, <4>1
      <4>2. CASE i \in (n - f + 1)..n /\ i \in 1..n
        BY <1>4, <4>2 DEF Counting, TrailingFailures
      <4> QED BY <1>1, <1>3, <3>1, <3>2, <3>3, <4>1, <4>2, SMTT(30)
    <3>4. ASSUME g < (n + 1) - base PROVE db'.results[(n + 1) - g].up
      <4>1. n \in Nat BY <1>3
      <4>a. f \in Nat /\ base \in Nat /\ g = f + 1 /\ g < (n + 1) - base BY <1>1, <1>3, <3>1, <3>4
      <4> HIDE DEF n, f, g
      <4>2. (n + 1) - g = n - f /\ f < n - base BY <4>1, <4>a
      <4> USE DEF n, f, g
      <4>3. n - f \in 1..n BY <1>1, <1>3, <4>1, <4>2
      <4> QED BY <1>4, <4>2, <4>3 DEF Counting, TrailingFailures
    <3> QED BY <1>1, <1>4, <3>2, <3>3, <3>4 DEF TrailingFailures
  <2> QED BY <1>3, <2>1, <2>2
<1> QED BY <1>5, <1>6, <1>7 DEF Counting

LEMMA NextCounting == TypeOK /\ Counting /\ [Next]_vars => Counting'
<1> SUFFICES ASSUME TypeOK, Counting, [Next]_vars PROVE Counting'
  OBVIOUS
<1>1. ASSUME NEW l \in Loops, NEW o \in Outcomes, Record(l, o) PROVE Counting'
  BY <1>1, RecordKeepsCounting
<1>2. CASE UNCHANGED <<db, base>>
  BY <1>2 DEF Counting, TrailingFailures, StateIsLastRow
<1> QED BY <1>1, <1>2 DEF Next, vars, Begin, RecordFails, Crash, Pass

\* consecutive_failures is the length of the failing run the raw rows end
\* with, counted from the migration: what confirm_after is compared with.
THEOREM CounterIsTrailingRun == Spec => []TrailingFailures
<1>1. Init => TypeOK /\ Counting BY InitTypeOK, InitCounting
<1>2. TypeOK /\ Counting /\ [Next]_vars => (TypeOK /\ Counting)'
  BY NextTypeOK, NextCounting
<1>3. Counting => TrailingFailures BY DEF Counting
<1> QED BY <1>1, <1>2, <1>3, PTL DEF Spec

-----------------------------------------------------------------------------
(***************************************************************************)
(* Every failed check can be explained.  A transaction adds its row and    *)
(* its errors together, and neither table ever loses a row.                *)
(***************************************************************************)
LEMMA RecordKeepsLogged ==
    ASSUME TypeOK, FailuresAreLogged, NEW l \in Loops, NEW o \in Outcomes, Record(l, o)
    PROVE  FailuresAreLogged'
<1> DEFINE ts == begun[l]
           rows == db.results
           new == db'.results
           logged == [i \in 1..o.errors |-> ts]
<1>1. ts \in Nat /\ o \in Outcome /\ db \in DB
  BY OutcomesAssumption DEF Record, Nullable, TypeOK
<1>2. /\ new = Append(rows, [ts |-> ts, up |-> o.up, response_ms |-> o.response_ms])
      /\ db'.errors = db.errors \o logged
  BY <1>1, RecordTickParts DEF Record
<1>3. /\ rows \in Seq(ResultRow) /\ db.errors \in Seq(Nat) /\ logged \in Seq(Nat)
      /\ o.errors \in Nat /\ (~o.up => o.errors > 0)
  BY <1>1 DEF DB, Outcome
<1>4. /\ DOMAIN new = 1..(Len(rows) + 1) /\ DOMAIN rows = 1..Len(rows)
      /\ new[Len(rows) + 1].ts = ts /\ new[Len(rows) + 1].up = o.up
      /\ \A i \in DOMAIN rows : new[i] = rows[i]
  BY <1>2, <1>3
<1>5. /\ \A j \in DOMAIN db.errors : j \in DOMAIN db'.errors /\ db'.errors[j] = db.errors[j]
      /\ o.errors > 0 => /\ Len(db.errors) + 1 \in DOMAIN db'.errors
                         /\ db'.errors[Len(db.errors) + 1] = ts
  <2>1. Len(logged) = o.errors /\ Len(db.errors) \in Nat BY <1>3
  <2>2. DOMAIN db'.errors = 1..(Len(db.errors) + o.errors) BY <1>2, <1>3, <2>1
  <2>3. \A j \in 1..Len(db.errors) : db'.errors[j] = db.errors[j] BY <1>2, <1>3, <2>1, <2>2
  <2>4. o.errors > 0 => db'.errors[Len(db.errors) + 1] = ts
    <3>1. o.errors > 0 => db'.errors[Len(db.errors) + 1] = logged[1]
      BY <1>2, <1>3, <2>1, <2>2
    <3> QED BY <1>3, <3>1
  <2>5. DOMAIN db.errors = 1..Len(db.errors) BY <1>3
  <2>6. 1..Len(db.errors) \subseteq 1..(Len(db.errors) + o.errors) BY <1>3, <2>1
  <2>7. o.errors > 0 => Len(db.errors) + 1 \in 1..(Len(db.errors) + o.errors) BY <1>3, <2>1
  <2> HIDE DEF logged
  <2> QED BY <2>2, <2>3, <2>4, <2>5, <2>6, <2>7
<1> SUFFICES ASSUME NEW i \in DOMAIN new, ~new[i].up
             PROVE  \E j \in DOMAIN db'.errors : db'.errors[j] = new[i].ts
  BY DEF FailuresAreLogged
<1> HIDE DEF rows, new, logged, ts
<1>6. CASE i \in DOMAIN rows
  BY <1>4, <1>5, <1>6 DEF FailuresAreLogged, rows, new
<1>7. CASE i = Len(rows) + 1
  BY <1>3, <1>4, <1>5, <1>7
<1> QED BY <1>3, <1>4, <1>6, <1>7

LEMMA InitLogged == Init => FailuresAreLogged
<1> SUFFICES ASSUME Init PROVE FailuresAreLogged
  OBVIOUS
<1>1. CASE db = NewDB
  BY <1>1 DEF NewDB, FailuresAreLogged
<1>2. CASE db = UpgradedDB
  <2>1. db.results = <<[ts |-> 0, up |-> FALSE, response_ms |-> 0]>> /\ db.errors = <<0>>
    BY <1>2 DEF UpgradedDB
  <2>2. /\ DOMAIN db.results = {1} /\ DOMAIN db.errors = {1}
        /\ db.results[1].ts = 0 /\ db.errors[1] = 0
    BY <2>1
  <2> QED BY <2>2 DEF FailuresAreLogged
<1> QED BY <1>1, <1>2 DEF Init

\* Every failing row of check_results has an errors row with its timestamp,
\* after any number of rolled-back transactions and overlapping loops.
THEOREM FailuresLogged == Spec => []FailuresAreLogged
<1>1. TypeOK /\ FailuresAreLogged /\ [Next]_vars => FailuresAreLogged'
  <2> SUFFICES ASSUME TypeOK, FailuresAreLogged, [Next]_vars PROVE FailuresAreLogged'
    OBVIOUS
  <2>1. ASSUME NEW l \in Loops, NEW o \in Outcomes, Record(l, o) PROVE FailuresAreLogged'
    BY <2>1, RecordKeepsLogged
  <2>2. CASE UNCHANGED db BY <2>2 DEF FailuresAreLogged
  <2> QED BY <2>1, <2>2 DEF Next, vars, Begin, RecordFails, Crash, Pass
<1> QED BY <1>1, InitLogged, TypeCorrect, PTL DEF Spec

-----------------------------------------------------------------------------
(***************************************************************************)
(* History is append-only.  RecordTick rewrites an incident in one place:  *)
(* the row current_incident_id names, which IncidentAgreement shows to be  *)
(* the unresolved one.                                                     *)
(***************************************************************************)
LEMMA RecordAppends ==
    ASSUME TypeOK, IncidentAgreement, NEW l \in Loops, NEW o \in Outcomes, Record(l, o)
    PROVE  AppendOnly
<1> DEFINE ts == begun[l]
           st == db.state
           old == db.incidents
           new == db'.incidents
<1>1. ts \in Nat /\ o \in Outcome /\ db \in DB
  BY OutcomesAssumption DEF Record, Nullable, TypeOK
<1>2. /\ new = ReconcileIncident(db, ts, o).incidents
      /\ db'.results = Append(db.results, [ts |-> ts, up |-> o.up, response_ms |-> o.response_ms])
  BY <1>1, RecordTickParts DEF Record
<1>3. old \in Seq(IncidentRow) /\ db.results \in Seq(ResultRow)
  BY <1>1 DEF DB
<1>4. /\ Len(db.results) <= Len(db'.results)
      /\ \A i \in DOMAIN db.results : db'.results[i] = db.results[i]
  BY <1>2, <1>3
<1>5. /\ Len(old) <= Len(new)
      /\ \A i \in DOMAIN old :
            /\ new[i].started_at = old[i].started_at
            /\ old[i].resolved_at # NULL => new[i] = old[i]
  <2>1. CASE Opens(st, o)
    <3>1. new = Append(old, [started_at |-> ts, resolved_at |-> NULL])
      BY <1>1, <1>2, <2>1 DEF ReconcileIncident, OpenIncident, DB
    <3> QED BY <1>3, <3>1
  <2>2. CASE ~Opens(st, o) /\ Resolves(st, o)
    <3> DEFINE k == st.current_incident_id
    <3>1. new = [old EXCEPT ![k].resolved_at = ts]
      BY <1>1, <1>2, <2>2 DEF ReconcileIncident, ResolveIncident, DB
    <3>2. Len(new) = Len(old) BY <1>3, <3>1
    <3>3. ASSUME NEW i \in DOMAIN old
          PROVE  /\ new[i].started_at = old[i].started_at
                 /\ old[i].resolved_at # NULL => new[i] = old[i]
      BY <1>3, <3>1 DEF IncidentAgreement, OneOpenIncident, IncidentRow
    <3> QED BY <1>3, <3>2, <3>3
  <2>3. CASE ~Opens(st, o) /\ ~Resolves(st, o)
    <3>1. new = old BY <1>1, <1>2, <2>3 DEF ReconcileIncident
    <3> QED BY <1>3, <3>1
  <2> QED BY <2>1, <2>2, <2>3
<1> QED BY <1>4, <1>5 DEF AppendOnly

\* No step rewrites or removes a recorded check or a closed incident.
THEOREM History == Spec => HistoryIsAppendOnly
<1>1. TypeOK /\ IncidentAgreement /\ [Next]_vars => [AppendOnly]_vars
  <2> SUFFICES ASSUME TypeOK, IncidentAgreement, [Next]_vars PROVE [AppendOnly]_vars
    OBVIOUS
  <2>1. ASSUME NEW l \in Loops, NEW o \in Outcomes, Record(l, o) PROVE AppendOnly
    BY <2>1, RecordAppends
  <2>2. CASE UNCHANGED db
    <3>1. db.results \in Seq(ResultRow) /\ db.incidents \in Seq(IncidentRow)
      BY DEF TypeOK, DB
    <3> QED BY <2>2, <3>1 DEF AppendOnly
  <2> QED BY <2>1, <2>2 DEF Next, vars, Begin, RecordFails, Crash, Pass
<1> QED BY <1>1, TypeCorrect, Agreement, PTL DEF Spec, HistoryIsAppendOnly

-----------------------------------------------------------------------------
(***************************************************************************)
(* Time.  With one loop a tick begins only after the previous one is       *)
(* recorded, so nothing stored is later than a tick in flight: Horizon is  *)
(* the strengthening that makes the two orders inductive.  With two loops  *)
(* it is false, and so are they.                       *)
(***************************************************************************)
NotAfter(t) ==
    /\ \A i \in DOMAIN db.results : db.results[i].ts <= t
    /\ \A i \in DOMAIN db.incidents :
        db.incidents[i].started_at <= t /\ db.incidents[i].resolved_at <= t

Horizon ==
    /\ NotAfter(now)
    /\ \A l \in Loops : begun[l] # NULL => NotAfter(begun[l]) /\ begun[l] <= now

Ordered == Horizon /\ RowidOrdersByTime /\ IncidentsArePeriods

LEMMA InitOrdered == Init => Ordered
<1> SUFFICES ASSUME Init PROVE Ordered
  OBVIOUS
<1>1. \A l \in Loops : begun[l] = NULL BY DEF Init
<1> USE DEF NULL, Ordered, Horizon, NotAfter, RowidOrdersByTime, IncidentsArePeriods
<1>2. CASE db = NewDB
  <2>1. db.incidents = <<>> /\ db.results = <<>> BY <1>2 DEF NewDB
  <2> QED BY <1>1, <2>1
<1>3. CASE db = UpgradedDB
  <2>1. /\ db.incidents = <<[started_at |-> 0, resolved_at |-> NULL]>>
        /\ db.results = <<[ts |-> 0, up |-> FALSE, response_ms |-> 0]>> /\ now = 0
    BY <1>3 DEF UpgradedDB, Init
  <2>2. /\ db.incidents[1].started_at = 0 /\ db.incidents[1].resolved_at = -1
        /\ Len(db.incidents) = 1 /\ DOMAIN db.incidents = {1}
        /\ db.results[1].ts = 0 /\ DOMAIN db.results = {1}
    BY <2>1
  <2> HIDE DEF NULL
  <2> QED BY <1>1, <2>1, <2>2
<1> QED BY <1>2, <1>3 DEF Init

\* Stored times are numbers, NULL included.
LEMMA TimesAreNumbers ==
    ASSUME NEW d \in DB
    PROVE  /\ \A i \in DOMAIN d.results : d.results[i].ts \in Nat
           /\ \A i \in DOMAIN d.incidents :
                d.incidents[i].started_at \in Nat /\ d.incidents[i].resolved_at \in Int
<1>1. d.results \in Seq(ResultRow) /\ d.incidents \in Seq(IncidentRow) BY DEF DB
<1>2. \A i \in DOMAIN d.results : d.results[i] \in ResultRow BY <1>1
<1>3. \A i \in DOMAIN d.incidents : d.incidents[i] \in IncidentRow BY <1>1
<1>4. Nullable \subseteq Int BY DEF Nullable, NULL
<1> QED BY <1>2, <1>3, <1>4 DEF ResultRow, IncidentRow

LEMMA RecordKeepsOrder ==
    ASSUME TypeOK, IncidentAgreement, Ordered, \A l, m \in Loops : l = m,
           NEW l \in Loops, NEW o \in Outcomes, Record(l, o)
    PROVE  Ordered'
<1> DEFINE ts == begun[l]
           st == db.state
           old == db.incidents
           new == db'.incidents
           rows == db.results
           n == Len(rows)
<1>1. ts \in Nat /\ o \in Outcome /\ db \in DB /\ now \in Nat /\ now' = now
  BY OutcomesAssumption DEF Record, Nullable, TypeOK
<1>2. /\ new = ReconcileIncident(db, ts, o).incidents
      /\ db'.results = Append(rows, [ts |-> ts, up |-> o.up, response_ms |-> o.response_ms])
  BY <1>1, RecordTickParts DEF Record
<1>3. old \in Seq(IncidentRow) /\ rows \in Seq(ResultRow)
  BY <1>1 DEF DB
<1>4. /\ NotAfter(ts) /\ ts <= now
  BY DEF Record, Ordered, Horizon
<1>5. /\ \A i \in DOMAIN rows : rows[i].ts \in Nat
      /\ \A i \in DOMAIN old : old[i].started_at \in Nat /\ old[i].resolved_at \in Int
  BY <1>1, TimesAreNumbers
<1>6. /\ DOMAIN db'.results = 1..(n + 1) /\ DOMAIN rows = 1..n
      /\ db'.results[n + 1].ts = ts
      /\ \A i \in 1..n : db'.results[i] = rows[i]
  BY <1>2, <1>3
<1>7. RowidOrdersByTime'
  <2>1. /\ \A i \in 1..n : rows[i].ts <= ts
        /\ \A i, j \in 1..n : i < j => rows[i].ts <= rows[j].ts
    BY <1>4, <1>6 DEF NotAfter, Ordered, RowidOrdersByTime
  <2> SUFFICES ASSUME NEW i \in 1..(n + 1), NEW j \in 1..(n + 1), i < j
               PROVE  db'.results[i].ts <= db'.results[j].ts
    BY <1>6 DEF RowidOrdersByTime
  <2>2. n \in Nat BY <1>3
  <2>3. i \in 1..n BY <2>2
  <2>4. CASE j \in 1..n BY <1>6, <2>1, <2>3, <2>4
  <2>5. CASE j = n + 1 BY <1>6, <2>1, <2>3, <2>5
  <2> QED BY <2>2, <2>4, <2>5
<1>8. /\ IncidentsArePeriods'
      /\ \A i \in DOMAIN new : /\ new[i].started_at <= ts /\ new[i].resolved_at <= ts
                               /\ new[i].started_at \in Nat /\ new[i].resolved_at \in Int
  <2>0. \A i \in DOMAIN old : old[i].started_at <= ts /\ old[i].resolved_at <= ts
    BY <1>4 DEF NotAfter
  <2>1. CASE Opens(st, o)
    <3>1. new = Append(old, [started_at |-> ts, resolved_at |-> NULL])
      BY <1>1, <1>2, <2>1 DEF ReconcileIncident, OpenIncident, DB
    <3>2. /\ DOMAIN new = 1..(Len(old) + 1) /\ DOMAIN old = 1..Len(old)
          /\ Len(new) = Len(old) + 1 /\ Len(old) \in Nat
          /\ new[Len(old) + 1].started_at = ts /\ new[Len(old) + 1].resolved_at = NULL
          /\ \A i \in 1..Len(old) : new[i] = old[i]
      BY <1>3, <3>1
    <3>3. NULL <= ts /\ NULL \in Int BY <1>1 DEF NULL
    <3>4. \A i \in DOMAIN new : /\ new[i].started_at <= ts /\ new[i].resolved_at <= ts
                                /\ new[i].started_at \in Nat /\ new[i].resolved_at \in Int
      BY <1>1, <1>5, <2>0, <3>2, <3>3, SMTT(30)
    <3>5. IncidentsArePeriods'
      <4> SUFFICES ASSUME NEW i \in DOMAIN new
                   PROVE  /\ new[i].resolved_at # NULL => new[i].started_at <= new[i].resolved_at
                          /\ i < Len(new) => new[i].resolved_at <= new[i + 1].started_at
        BY DEF IncidentsArePeriods
      <4>1. CASE i = Len(old) + 1 BY <3>2, <4>1
      <4>2. CASE i \in 1..Len(old) /\ i + 1 \in 1..Len(old)
        <5>1. new[i] = old[i] /\ new[i + 1] = old[i + 1] /\ i < Len(old) BY <3>2, <4>2
        <5> QED BY <3>2, <4>2, <5>1 DEF IncidentsArePeriods, Ordered
      <4>3. CASE i = Len(old)
        BY <2>0, <3>2, <4>3, SMTT(30) DEF IncidentsArePeriods, Ordered
      <4> QED BY <3>2, <4>1, <4>2, <4>3
    <3> QED BY <3>4, <3>5
  <2>2. CASE ~Opens(st, o) /\ Resolves(st, o)
    <3> DEFINE k == st.current_incident_id
    <3>1. new = [old EXCEPT ![k].resolved_at = ts]
      BY <1>1, <1>2, <2>2 DEF ReconcileIncident, ResolveIncident, DB
    <3>2. (k = Len(old) /\ old[k].resolved_at = NULL) \/ old = <<>>
      BY <1>3, <2>2
         DEF Resolves, IncidentAgreement, OpenIncidentIsNewest, OneOpenIncident
    <3>3. /\ DOMAIN new = 1..Len(old) /\ DOMAIN old = 1..Len(old) /\ Len(new) = Len(old)
          /\ \A i \in DOMAIN old : /\ new[i].started_at = old[i].started_at
                                   /\ i # k => new[i] = old[i]
                                   /\ i = k => new[i].resolved_at = ts
      BY <1>3, <3>1 DEF IncidentRow
    <3>4. \A i \in DOMAIN new : /\ new[i].started_at <= ts /\ new[i].resolved_at <= ts
                                /\ new[i].started_at \in Nat /\ new[i].resolved_at \in Int
      BY <1>1, <1>5, <2>0, <3>3
    <3>5. IncidentsArePeriods'
      BY <1>1, <1>5, <2>0, <3>2, <3>3 DEF IncidentsArePeriods, Ordered
    <3> QED BY <3>4, <3>5
  <2>3. CASE ~Opens(st, o) /\ ~Resolves(st, o)
    <3>1. new = old BY <1>1, <1>2, <2>3 DEF ReconcileIncident
    <3> QED BY <1>5, <2>0, <3>1 DEF IncidentsArePeriods, Ordered
  <2> QED BY <2>1, <2>2, <2>3
<1>9. Horizon'
  <2>1. NotAfter(now)'
    BY <1>1, <1>4, <1>5, <1>6, <1>8, SMTT(30) DEF NotAfter
  <2>2. \A m \in Loops : begun'[m] = NULL
    BY DEF Record, TypeOK
  <2> QED BY <2>1, <2>2 DEF Horizon
<1> QED BY <1>7, <1>8, <1>9 DEF Ordered

LEMMA NextOrdered ==
    ASSUME TypeOK, IncidentAgreement, Ordered, \A l, m \in Loops : l = m, [Next]_vars
    PROVE  Ordered'
<1> USE DEF Ordered
<1>1. ASSUME NEW l \in Loops, Begin(l) PROVE Ordered'
  <2>1. db' = db /\ now' = now /\ begun'[l] = now /\ now <= now
    BY <1>1 DEF Begin, TypeOK
  <2>2. \A m \in Loops : begun'[m] = now
    BY <2>1
  <2> QED BY <2>1, <2>2 DEF Horizon, NotAfter, RowidOrdersByTime, IncidentsArePeriods
<1>2. ASSUME NEW l \in Loops, NEW o \in Outcomes, Record(l, o) PROVE Ordered'
  BY <1>2, RecordKeepsOrder
<1>3. CASE db' = db /\ now' = now /\ \A l \in Loops : begun'[l] \in {NULL, begun[l]}
  BY <1>3 DEF Horizon, NotAfter, RowidOrdersByTime, IncidentsArePeriods
<1>4. CASE Pass
  <2>1. /\ now \in Nat /\ now' = now + 1 /\ db' = db /\ begun' = begun
        /\ \A l \in Loops : begun[l] \in Int
        /\ \A i \in DOMAIN db.results : db.results[i].ts \in Nat
        /\ \A i \in DOMAIN db.incidents :
             db.incidents[i].started_at \in Nat /\ db.incidents[i].resolved_at \in Int
    BY <1>4, TimesAreNumbers DEF Pass, TypeOK, Nullable, NULL
  <2>2. NotAfter(now)'
    BY <2>1 DEF Horizon, NotAfter
  <2>3. \A l \in Loops : begun[l] # NULL => NotAfter(begun[l])' /\ begun[l] <= now'
    BY <2>1 DEF Horizon, NotAfter
  <2> QED BY <2>1, <2>2, <2>3 DEF Horizon, RowidOrdersByTime, IncidentsArePeriods
<1>5. ASSUME NEW l \in Loops, RecordFails(l) PROVE Ordered'
  BY <1>3, <1>5 DEF RecordFails, TypeOK
<1>6. CASE Crash BY <1>3, <1>6 DEF Crash
<1>7. CASE UNCHANGED vars BY <1>3, <1>7 DEF vars
<1> QED BY <1>1, <1>2, <1>4, <1>5, <1>6, <1>7 DEF Next

\* With one loop per site, rowids follow the clock: the missing ts index is
\* justified exactly as far as loops do not overlap.
THEOREM RowsInTimeOrder ==
    ASSUME \A l, m \in Loops : l = m
    PROVE  Spec => [](RowidOrdersByTime /\ IncidentsArePeriods)
<1>1. Init => TypeOK /\ IncidentAgreement /\ Ordered
  BY InitTypeOK, InitAgreement, InitOrdered
<1>2. TypeOK /\ IncidentAgreement /\ Ordered /\ [Next]_vars
        => (TypeOK /\ IncidentAgreement /\ Ordered)'
  BY NextTypeOK, NextAgreement, NextOrdered
<1>3. Ordered => RowidOrdersByTime /\ IncidentsArePeriods BY DEF Ordered
<1> QED BY <1>1, <1>2, <1>3, PTL DEF Spec

-----------------------------------------------------------------------------
(***************************************************************************)
(* The incidents as failing runs.  The reference definition, as a relation *)
(* between any rows R and any incidents I, and what one more row does to   *)
(* each of its parts.                                                      *)
(***************************************************************************)
First(R) == {i \in DOMAIN R : ~R[i].up /\ (i > 1 => R[i - 1].up)}

EndOf(R, i) ==
    {j \in DOMAIN R : j > i /\ R[j].up /\ \A k \in i..(j - 1) : ~R[k].up}

\* The incident inc is the failing run of R that starts at row i.
IsRun(R, inc, i) ==
    /\ inc.started_at = R[i].ts
    /\ (inc.resolved_at = NULL) <=> (EndOf(R, i) = {})
    /\ \A j \in EndOf(R, i) : inc.resolved_at = R[j].ts

RunStarts(R, I, start) ==
    /\ start \in [DOMAIN I -> First(R)]
    /\ \A i \in First(R) : \E k \in DOMAIN start : start[k] = i
    /\ \A k, m \in DOMAIN start : k < m => start[k] < start[m]
    /\ \A k \in DOMAIN start : IsRun(R, I[k], start[k])

LEMMA RunsAreStarts ==
    IncidentsAreFailingRuns <=> \E start : RunStarts(db.results, db.incidents, start)
BY DEF IncidentsAreFailingRuns, FirstFailures, EndOfRun, First, EndOf, IsRun, RunStarts

\* A failing run that no row ends reaches the last row.
LEMMA EndlessRunFails ==
    ASSUME NEW R \in Seq(ResultRow), NEW i \in First(R), EndOf(R, i) = {},
           NEW j \in i..Len(R)
    PROVE  ~R[j].up
<1> DEFINE Good == {k \in i..Len(R) : R[k].up}
<1>1. i \in 1..Len(R) /\ ~R[i].up /\ Len(R) \in Nat /\ DOMAIN R = 1..Len(R)
  BY DEF First
<1>2. CASE Good # {}
  <2>1. Good \subseteq Nat BY <1>1
  <2>2. PICK k \in Good : \A m \in Good : k <= m BY <1>2, <2>1, LeastNumber
  <2>3. k > i /\ k \in 1..Len(R) /\ R[k].up BY <1>1, <2>2
  <2>4. \A m \in i..(k - 1) : ~R[m].up BY <1>1, <2>2, <2>3
  <2>5. k \in EndOf(R, i) BY <1>1, <2>3, <2>4 DEF EndOf
  <2> QED BY <2>5
<1>3. CASE Good = {} BY <1>3
<1> QED BY <1>2, <1>3

LEMMA FailuresStart ==
    ASSUME NEW R \in Seq(ResultRow), NEW j \in DOMAIN R, ~R[j].up
    PROVE  First(R) # {}
<1> DEFINE Bad == {k \in DOMAIN R : ~R[k].up}
<1>1. DOMAIN R = 1..Len(R) /\ Len(R) \in Nat OBVIOUS
<1>2. PICK i \in Bad : \A m \in Bad : i <= m
  <2>1. Bad \subseteq Nat /\ Bad # {} BY <1>1
  <2> QED BY <2>1, LeastNumber
<1>3. i > 1 => i - 1 \in DOMAIN R /\ ~(i <= i - 1) BY <1>1, <1>2
<1> QED BY <1>2, <1>3 DEF First

\* One more row.
LEMMA FirstAppend ==
    ASSUME NEW R \in Seq(ResultRow), NEW row \in ResultRow
    PROVE  First(Append(R, row)) =
             First(R) \cup (IF ~row.up /\ (R # <<>> => R[Len(R)].up) THEN {Len(R) + 1} ELSE {})
<1> DEFINE S == Append(R, row)
           n == Len(R)
<1>1. /\ n \in Nat /\ DOMAIN S = 1..(n + 1) /\ DOMAIN R = 1..n /\ S[n + 1] = row
      /\ \A i \in 1..n : S[i] = R[i]
      /\ R # <<>> <=> n + 1 > 1
  OBVIOUS
<1> HIDE DEF S, n
<1>2. ASSUME NEW i \in 1..n PROVE i \in First(S) <=> i \in First(R)
  <2>1. i > 1 => i - 1 \in 1..n BY <1>1
  <2>2. i \in DOMAIN S /\ i \in DOMAIN R /\ S[i] = R[i] /\ (i > 1 => S[i - 1] = R[i - 1])
    BY <1>1, <2>1
  <2> QED BY <2>2 DEF First
<1>3. n + 1 \in First(S) <=> ~row.up /\ (R # <<>> => R[n].up)
  <2>1. n + 1 > 1 => S[(n + 1) - 1] = R[n] BY <1>1
  <2>2. n + 1 \in DOMAIN S BY <1>1
  <2> QED BY <1>1, <2>1, <2>2 DEF First
<1>4. First(S) \subseteq 1..(n + 1) /\ First(R) \subseteq 1..n BY <1>1 DEF First
<1>5. n + 1 \notin 1..n /\ 1..(n + 1) = 1..n \cup {n + 1} BY <1>1
<1> QED BY <1>2, <1>3, <1>4, <1>5 DEF S, n

LEMMA EndAppend ==
    ASSUME NEW R \in Seq(ResultRow), NEW row \in ResultRow, NEW i \in First(R)
    PROVE  EndOf(Append(R, row), i) =
             EndOf(R, i) \cup (IF row.up /\ EndOf(R, i) = {} THEN {Len(R) + 1} ELSE {})
<1> DEFINE S == Append(R, row)
           n == Len(R)
<1>1. /\ n \in Nat /\ DOMAIN S = 1..(n + 1) /\ DOMAIN R = 1..n /\ S[n + 1] = row
      /\ \A j \in 1..n : S[j] = R[j]
  OBVIOUS
<1>2. i \in 1..n BY <1>1 DEF First
<1> HIDE DEF S, n
<1>3. ASSUME NEW j \in 1..n PROVE j \in EndOf(S, i) <=> j \in EndOf(R, i)
  <2>1. \A k \in i..(j - 1) : S[k] = R[k] BY <1>1, <1>2
  <2>2. j \in DOMAIN S /\ j \in DOMAIN R /\ S[j] = R[j] BY <1>1
  <2> QED BY <2>1, <2>2 DEF EndOf
<1>4. n + 1 \in EndOf(S, i) <=> row.up /\ \A k \in i..n : ~R[k].up
  <2>1. (n + 1) - 1 = n /\ n + 1 \in DOMAIN S /\ n + 1 > i BY <1>1, <1>2
  <2>2. \A k \in i..n : S[k] = R[k] BY <1>1, <1>2
  <2> QED BY <1>1, <2>1, <2>2 DEF EndOf
<1>5. (\A k \in i..n : ~R[k].up) <=> EndOf(R, i) = {}
  <2>1. ASSUME EndOf(R, i) = {} PROVE \A k \in i..n : ~R[k].up
    BY <2>1, EndlessRunFails DEF n
  <2>2. ASSUME NEW j \in EndOf(R, i) PROVE j \in i..n /\ R[j].up
    BY <1>1, <1>2 DEF EndOf
  <2> QED BY <2>1, <2>2
<1>6. EndOf(S, i) \subseteq 1..(n + 1) /\ EndOf(R, i) \subseteq 1..n BY <1>1 DEF EndOf
<1>7. n + 1 \notin 1..n /\ 1..(n + 1) = 1..n \cup {n + 1} BY <1>1
<1> QED BY <1>3, <1>4, <1>5, <1>6, <1>7 DEF S, n

(***************************************************************************)
(* One more tick, by the three things it may do to the incidents: a first  *)
(* failure opens one, the first good row after it ends it, and any other   *)
(* row changes none.                                                       *)
(***************************************************************************)
LEMMA RunOpens ==
    ASSUME NEW R \in Seq(ResultRow), NEW row \in ResultRow, NEW I \in Seq(IncidentRow),
           NEW start, RunStarts(R, I, start),
           ~row.up, R # <<>> => R[Len(R)].up
    PROVE  \E s : RunStarts(Append(R, row),
                         Append(I, [started_at |-> row.ts, resolved_at |-> NULL]), s)
<1> DEFINE S == Append(R, row)
           n == Len(R)
           m == Len(I)
           inc == [started_at |-> row.ts, resolved_at |-> NULL]
           J == Append(I, inc)
           s == [k \in 1..(m + 1) |-> IF k \in 1..m THEN start[k] ELSE n + 1]
<1>1. /\ n \in Nat /\ m \in Nat /\ DOMAIN R = 1..n /\ DOMAIN S = 1..(n + 1)
      /\ S[n + 1] = row /\ \A i \in 1..n : S[i] = R[i]
      /\ DOMAIN I = 1..m /\ DOMAIN J = 1..(m + 1)
      /\ J[m + 1] = inc /\ \A k \in 1..m : J[k] = I[k]
      /\ n + 1 \notin 1..n /\ m + 1 \notin 1..m /\ 1..(m + 1) = 1..m \cup {m + 1}
  OBVIOUS
<1>2. First(S) = First(R) \cup {n + 1} /\ First(R) \subseteq 1..n
  BY <1>1, FirstAppend DEF First
<1>3. \A i \in First(R) : EndOf(S, i) = EndOf(R, i) /\ EndOf(R, i) \subseteq 1..n
  <2>1. \A i \in First(R) : EndOf(S, i) = EndOf(R, i) BY EndAppend
  <2>2. \A i : EndOf(R, i) \subseteq 1..n BY <1>1 DEF EndOf
  <2> QED BY <2>1, <2>2
<1>4. EndOf(S, n + 1) = {} BY <1>1 DEF EndOf
<1>5. /\ start \in [1..m -> First(R)]
      /\ \A i \in First(R) : \E k \in 1..m : start[k] = i
      /\ \A k, l \in 1..m : k < l => start[k] < start[l]
      /\ \A k \in 1..m : IsRun(R, I[k], start[k])
  BY <1>1 DEF RunStarts
<1> HIDE DEF S, n, m, J
<1>6. /\ DOMAIN s = 1..(m + 1) /\ s[m + 1] = n + 1
      /\ \A k \in 1..m : s[k] = start[k] /\ s[k] \in First(R)
  BY <1>1, <1>5
<1>7. s \in [1..(m + 1) -> First(S)]
  <2>1. \A k \in 1..(m + 1) : s[k] \in First(S) BY <1>1, <1>2, <1>6
  <2>2. s = [k \in 1..(m + 1) |-> s[k]] OBVIOUS
  <2> HIDE DEF s
  <2> QED BY <2>1, <2>2
<1> HIDE DEF s
<1>8. ASSUME NEW i \in First(S) PROVE \E k \in DOMAIN s : s[k] = i
  <2>1. CASE i = n + 1
    <3>1. m + 1 \in DOMAIN s BY <1>1, <1>6
    <3> QED BY <1>6, <2>1, <3>1
  <2>2. CASE i # n + 1
    <3>1. i \in First(R) BY <1>2, <1>8, <2>2
    <3>2. PICK k \in 1..m : start[k] = i BY <1>5, <3>1
    <3>3. k \in DOMAIN s BY <1>1, <1>6
    <3> QED BY <1>6, <3>2, <3>3
  <2> QED BY <2>1, <2>2
<1>9. ASSUME NEW k \in DOMAIN s, NEW l \in DOMAIN s, k < l PROVE s[k] < s[l]
  <2>1. k \in 1..m BY <1>1, <1>6, <1>9
  <2>2. CASE l \in 1..m BY <1>5, <1>6, <1>9, <2>1, <2>2
  <2>3. CASE l = m + 1
    <3>1. s[k] \in 1..n BY <1>2, <1>6, <2>1
    <3> QED BY <1>1, <1>6, <2>3, <3>1
  <2> QED BY <1>1, <1>6, <2>2, <2>3
<1>10. ASSUME NEW k \in DOMAIN s PROVE IsRun(S, J[k], s[k])
  <2>1. CASE k \in 1..m
    <3>1. IsRun(R, J[k], s[k]) BY <1>1, <1>5, <1>6, <2>1
    <3>2. /\ EndOf(S, s[k]) = EndOf(R, s[k])
          /\ S[s[k]] = R[s[k]] /\ \A j \in EndOf(R, s[k]) : S[j] = R[j]
      BY <1>1, <1>2, <1>3, <1>6, <2>1
    <3> QED BY <3>1, <3>2 DEF IsRun
  <2>2. CASE k = m + 1
    BY <1>1, <1>4, <1>6, <2>2 DEF IsRun
  <2> QED BY <1>1, <1>6, <2>1, <2>2
<1>11. RunStarts(S, J, s) BY <1>1, <1>6, <1>7, <1>8, <1>9, <1>10 DEF RunStarts
<1> QED BY <1>11 DEF S, J

LEMMA RunGoesOn ==
    ASSUME NEW R \in Seq(ResultRow), NEW row \in ResultRow, NEW I \in Seq(IncidentRow),
           NEW start, RunStarts(R, I, start),
           \/ ~row.up /\ R # <<>> /\ ~R[Len(R)].up
           \/ row.up /\ \A k \in DOMAIN I : I[k].resolved_at # NULL
    PROVE  RunStarts(Append(R, row), I, start)
<1> DEFINE S == Append(R, row)
           n == Len(R)
<1>1. /\ n \in Nat /\ DOMAIN R = 1..n /\ \A i \in 1..n : S[i] = R[i]
  OBVIOUS
<1>2. First(S) = First(R) /\ First(R) \subseteq 1..n
  BY <1>1, FirstAppend DEF First
<1>3. ASSUME NEW k \in DOMAIN I
      PROVE  start[k] \in First(R) /\ EndOf(S, start[k]) = EndOf(R, start[k])
  <2>1. start[k] \in First(R) /\ IsRun(R, I[k], start[k]) BY DEF RunStarts
  <2>2. row.up => EndOf(R, start[k]) # {} BY <2>1 DEF IsRun
  <2> QED BY <2>1, <2>2, EndAppend
<1>4. ASSUME NEW k \in DOMAIN I PROVE IsRun(S, I[k], start[k])
  <2>1. IsRun(R, I[k], start[k]) BY DEF RunStarts
  <2>2. EndOf(R, start[k]) \subseteq 1..n BY <1>1 DEF EndOf
  <2>3. S[start[k]] = R[start[k]] /\ \A j \in EndOf(R, start[k]) : S[j] = R[j]
    BY <1>1, <1>2, <1>3, <2>2
  <2> HIDE DEF S
  <2> QED BY <1>3, <2>1, <2>3 DEF IsRun
<1> HIDE DEF S
<1>5. DOMAIN start = DOMAIN I BY DEF RunStarts
<1> QED BY <1>2, <1>4, <1>5 DEF RunStarts, S

LEMMA RunEnds ==
    ASSUME NEW R \in Seq(ResultRow), NEW row \in ResultRow, NEW I \in Seq(IncidentRow),
           NEW start, RunStarts(R, I, start), row.up, I # <<>>,
           \A k \in DOMAIN I : I[k].resolved_at = NULL <=> k = Len(I)
    PROVE  RunStarts(Append(R, row), [I EXCEPT ![Len(I)].resolved_at = row.ts], start)
<1> DEFINE S == Append(R, row)
           n == Len(R)
           m == Len(I)
           J == [I EXCEPT ![m].resolved_at = row.ts]
<1>1. /\ n \in Nat /\ DOMAIN R = 1..n /\ \A i \in 1..n : S[i] = R[i]
      /\ S[n + 1] = row /\ m \in DOMAIN I /\ DOMAIN J = DOMAIN I
      /\ row.ts # NULL
  BY DEF ResultRow, NULL
<1>2. First(S) = First(R) /\ First(R) \subseteq 1..n
  BY <1>1, FirstAppend DEF First
<1>3. ASSUME NEW k \in DOMAIN I
      PROVE  start[k] \in First(R) /\ IsRun(R, I[k], start[k])
  BY DEF RunStarts
<1>4. /\ \A k \in DOMAIN I : k # m => J[k] = I[k]
      /\ J[m].started_at = I[m].started_at /\ J[m].resolved_at = row.ts
  <2>1. I[m] \in IncidentRow BY <1>1
  <2> QED BY <1>1, <2>1 DEF IncidentRow
<1>5. ASSUME NEW k \in DOMAIN I PROVE IsRun(S, J[k], start[k])
  <2>1. EndOf(R, start[k]) \subseteq 1..n BY <1>1 DEF EndOf
  <2>2. S[start[k]] = R[start[k]] /\ \A j \in EndOf(R, start[k]) : S[j] = R[j]
    BY <1>1, <1>2, <1>3, <2>1
  <2>3. CASE k = m
    <3>1. EndOf(R, start[k]) = {} BY <1>1, <1>3, <2>3 DEF IsRun
    <3>2. EndOf(S, start[k]) = {n + 1} BY <1>3, <3>1, EndAppend
    <3> HIDE DEF S, J, n, m
    <3> QED BY <1>1, <1>3, <1>4, <2>2, <2>3, <3>2 DEF IsRun
  <2>4. CASE k # m
    <3>1. EndOf(R, start[k]) # {}
      <4>1. I[k].resolved_at # NULL BY <2>4
      <4> QED BY <1>3, <4>1 DEF IsRun
    <3>2. EndOf(S, start[k]) = EndOf(R, start[k])
      <4>1. EndOf(S, start[k]) = EndOf(R, start[k]) \cup {} BY <1>3, <3>1, EndAppend
      <4> QED BY <4>1, Zenon
    <3>3. IsRun(R, I[k], start[k]) /\ J[k] = I[k] BY <1>3, <1>4, <2>4
    <3> HIDE DEF S, J, n, m
    <3> QED BY <2>2, <3>2, <3>3 DEF IsRun
  <2> QED BY <2>3, <2>4
<1> HIDE DEF S, J
<1>6. DOMAIN start = DOMAIN I BY DEF RunStarts
<1>7. RunStarts(S, J, start) BY <1>1, <1>2, <1>5, <1>6 DEF RunStarts
<1> QED BY <1>7 DEF S, J

LEMMA RecordKeepsRuns ==
    ASSUME TypeOK, IncidentAgreement, Counting, IncidentsAreFailingRuns,
           NEW l \in Loops, NEW o \in Outcomes, Record(l, o)
    PROVE  IncidentsAreFailingRuns'
<1> DEFINE ts == begun[l]
           st == db.state
           R == db.results
           I == db.incidents
           row == [ts |-> ts, up |-> o.up, response_ms |-> o.response_ms]
<1>1. ts \in Nat /\ o \in Outcome /\ db \in DB
  BY OutcomesAssumption DEF Record, Nullable, TypeOK
<1>2. /\ db'.incidents = ReconcileIncident(db, ts, o).incidents
      /\ db'.results = Append(R, row)
  BY <1>1, RecordTickParts DEF Record
<1>3. /\ I \in Seq(IncidentRow) /\ R \in Seq(ResultRow) /\ row \in ResultRow
      /\ st.current_up \in {NULL, 0, 1} /\ st.current_incident_id \in Nullable
      /\ row.up = o.up /\ row.ts = ts /\ o.up \in BOOLEAN
  BY <1>1 DEF DB, StateRow, Outcome, ResultRow
<1>4. PICK start : RunStarts(R, I, start) BY RunsAreStarts
<1>5. (\E s : RunStarts(db'.results, db'.incidents, s)) => IncidentsAreFailingRuns'
  BY DEF IncidentsAreFailingRuns, FirstFailures, EndOfRun, First, EndOf, IsRun, RunStarts
<1>6. /\ st.current_up = NULL => R = <<>>
      /\ st.current_up = 0 => R # <<>> /\ ~R[Len(R)].up
      /\ st.current_up = 1 => R # <<>> /\ R[Len(R)].up
  BY DEF Counting, StateIsLastRow, NULL
<1>7. CASE Opens(st, o)
  <2>1. db'.incidents = Append(I, [started_at |-> ts, resolved_at |-> NULL])
    BY <1>1, <1>2, <1>7 DEF ReconcileIncident, OpenIncident, DB
  <2>2. ~row.up /\ (R # <<>> => R[Len(R)].up)
    BY <1>3, <1>6, <1>7 DEF Opens
  <2> QED BY <1>2, <1>3, <1>4, <1>5, <2>1, <2>2, RunOpens
<1>8. CASE ~Opens(st, o) /\ Recovers(st, o)
  <2>1. st.current_incident_id # NULL /\ Resolves(st, o) /\ st.current_incident_id = Len(I)
    BY <1>3, <1>8 DEF Recovers, Resolves, IncidentAgreement, DownMeansOpen, OpenIncidentIsNewest
  <2>2. db'.incidents = [I EXCEPT ![Len(I)].resolved_at = ts]
    BY <1>1, <1>2, <1>8, <2>1 DEF ReconcileIncident, ResolveIncident, DB
  <2>3. row.up /\ \A k \in DOMAIN I : I[k].resolved_at = NULL <=> k = Len(I)
    BY <1>3, <1>8, <2>1 DEF Recovers, IncidentAgreement, OneOpenIncident
  <2>4. I # <<>>
    <3>1. R # <<>> /\ ~R[Len(R)].up BY <1>6, <1>8 DEF Recovers
    <3>2. Len(R) \in DOMAIN R BY <1>3, <3>1
    <3>3. First(R) # {} BY <1>3, <3>1, <3>2, FailuresStart
    <3>4. PICK i \in First(R) : TRUE BY <3>3
    <3>5. PICK k \in DOMAIN start : start[k] = i BY <1>4, <3>4 DEF RunStarts
    <3>6. k \in DOMAIN I BY <1>4, <3>5 DEF RunStarts
    <3> QED BY <3>6
  <2> HIDE DEF R, I
  <2>5. RunStarts(Append(R, row), [I EXCEPT ![Len(I)].resolved_at = row.ts], start)
    <3> HIDE DEF row
    <3> QED BY <1>3, <1>4, <2>3, <2>4, RunEnds
  <2> QED BY <1>2, <1>5, <2>2, <2>5
<1>9. CASE ~Opens(st, o) /\ ~Recovers(st, o)
  <2>1. db'.incidents = I BY <1>1, <1>2, <1>9 DEF ReconcileIncident, Resolves
  <2>2. CASE ~o.up
    <3>1. ~row.up /\ R # <<>> /\ ~R[Len(R)].up BY <1>3, <1>6, <1>9, <2>2 DEF Opens
    <3> QED BY <1>2, <1>3, <1>4, <1>5, <2>1, <3>1, RunGoesOn
  <2>3. CASE o.up
    <3>1. st.current_incident_id = NULL
      BY <1>3, <1>9, <2>3 DEF Recovers, IncidentAgreement, DownMeansOpen
    <3>2. row.up /\ \A k \in DOMAIN I : I[k].resolved_at # NULL
      BY <1>3, <2>3, <3>1 DEF IncidentAgreement, OneOpenIncident, NULL
    <3> QED BY <1>2, <1>3, <1>4, <1>5, <2>1, <3>2, RunGoesOn
  <2> QED BY <1>3, <2>2, <2>3
<1> QED BY <1>7, <1>8, <1>9

LEMMA InitRuns == Init => IncidentsAreFailingRuns
<1> SUFFICES ASSUME Init PROVE \E start : RunStarts(db.results, db.incidents, start)
  BY RunsAreStarts
<1>1. CASE db = NewDB
  <2>1. db.results = <<>> /\ db.incidents = <<>> BY <1>1 DEF NewDB
  <2>2. First(<<>>) = {} BY DEF First
  <2>3. RunStarts(<<>>, <<>>, <<>>) BY <2>2 DEF RunStarts
  <2> QED BY <2>1, <2>3
<1>2. CASE db = UpgradedDB
  <2> DEFINE R == <<[ts |-> 0, up |-> FALSE, response_ms |-> 0]>>
             I == <<[started_at |-> 0, resolved_at |-> NULL]>>
  <2>1. db.results = R /\ db.incidents = I BY <1>2 DEF UpgradedDB
  <2>2. /\ DOMAIN R = {1} /\ DOMAIN I = {1} /\ R[1].ts = 0 /\ ~R[1].up
        /\ I[1].started_at = 0 /\ I[1].resolved_at = NULL
    OBVIOUS
  <2> HIDE DEF R, I
  <2>3. First(R) = {1} BY <2>2 DEF First
  <2>4. EndOf(R, 1) = {} BY <2>2 DEF EndOf
  <2>5. IsRun(R, I[1], 1) BY <2>2, <2>4 DEF IsRun
  <2>6. RunStarts(R, I, [k \in {1} |-> 1]) BY <2>2, <2>3, <2>5 DEF RunStarts
  <2> QED BY <2>1, <2>6
<1> QED BY <1>1, <1>2 DEF Init

\* The incidents table is exactly the failing runs of check_results, in order:
\* each starts at a first failure, carries its time, and is resolved at the
\* time of the first good check after it, if there is one.
THEOREM IncidentsAreRuns == Spec => []IncidentsAreFailingRuns
<1>1. TypeOK /\ IncidentAgreement /\ Counting /\ IncidentsAreFailingRuns /\ [Next]_vars
        => IncidentsAreFailingRuns'
  <2> SUFFICES ASSUME TypeOK, IncidentAgreement, Counting, IncidentsAreFailingRuns, [Next]_vars
               PROVE  IncidentsAreFailingRuns'
    OBVIOUS
  <2>1. ASSUME NEW l \in Loops, NEW o \in Outcomes, Record(l, o)
        PROVE  IncidentsAreFailingRuns'
    BY <2>1, RecordKeepsRuns
  <2>2. CASE UNCHANGED db
    BY <2>2 DEF IncidentsAreFailingRuns, FirstFailures, EndOfRun
  <2> QED BY <2>1, <2>2 DEF Next, vars, Begin, RecordFails, Crash, Pass
<1>2. Init => TypeOK /\ IncidentAgreement /\ Counting /\ IncidentsAreFailingRuns
  BY InitTypeOK, InitAgreement, InitCounting, InitRuns
<1>3. TypeOK /\ IncidentAgreement /\ Counting /\ [Next]_vars
        => (TypeOK /\ IncidentAgreement /\ Counting)'
  BY NextTypeOK, NextAgreement, NextCounting
<1> QED BY <1>1, <1>2, <1>3, PTL DEF Spec
-----------------------------------------------------------------------------
(***************************************************************************)
(* Checking.  A loop in time is a loop of SiteStore, so what is proved     *)
(* above holds of it; the rest of this part is about its clocks.           *)
(***************************************************************************)
ClocksTyped ==
    /\ site \in Accepted(Submitted) /\ world \in Worlds
    /\ now \in 0..MaxTime
    /\ begun \in [Loops -> Nullable] /\ asked \in [Loops -> Nullable]
    /\ due \in [Loops -> BOOLEAN] /\ runSlow \in [Loops -> BOOLEAN]
    /\ resolved \in [Loops -> BOOLEAN] /\ step \in [Loops -> Steps]
    /\ fires \in [Loops -> Nullable] /\ lastSlow \in [Loops -> Nullable]
    /\ DOMAIN seen = Loops /\ DOMAIN found = Loops
    /\ changed \in 0..now /\ quiet \in 0..now /\ stalled \in (0..now) \cup {NULL}

\* The response r is what a request brought back from world w.
ComesFrom(r, w) ==
    \E t \in 0..now, reused \in BOOLEAN : r = Response(w, t, reused)

\* What loop l carries from one step of its tick to the next.
InFlight(l) ==
    /\ (step[l] = "wait") <=> (begun[l] = NULL)
    /\ step[l] \in {"request", "answer", "record"} => asked[l] \in 0..now
    /\ step[l] = "answer" => \E w \in Worlds : ComesFrom(seen[l], w)
    /\ step[l] = "record" => found[l] \in Outcomes

Clocks == ClocksTyped /\ \A l \in Loops : InFlight(l)

LEMMA Cadences ==
    ASSUME ClocksTyped
    PROVE  /\ site.interval_seconds \in Nat /\ site.interval_seconds > 0
           /\ site.slow_interval_seconds \in Nat
           /\ site.slow_interval_seconds >= site.interval_seconds
           /\ BetweenTicks \in Nat
           /\ BetweenTicks >= site.interval_seconds /\ BetweenTicks >= Timeout
<1>1. Limits(site) BY DEF ClocksTyped, Accepted, Validate
<1>2. /\ site.interval_seconds \in Int /\ site.slow_interval_seconds \in Int
      /\ MinIntervalSeconds \in Nat \ {0} /\ Timeout \in Nat
  BY ScheduleAssumption DEF ClocksTyped
<1> QED BY <1>1, <1>2 DEF Limits, BetweenTicks

LEMMA TimesAreInts ==
    ASSUME ClocksTyped, NEW l \in Loops
    PROVE  /\ begun[l] \in Int /\ asked[l] \in Int
           /\ begun[l] # NULL => begun[l] \in Nat
           /\ fires[l] \in Int
           /\ fires[l] # NULL => fires[l] \in Nat
           /\ lastSlow[l] \in Int
           /\ lastSlow[l] # NULL => lastSlow[l] \in Nat
           /\ now \in Nat /\ changed \in Nat /\ quiet \in Nat /\ stalled \in Int
           /\ changed <= now /\ quiet <= now /\ stalled <= now
           /\ due[l] \in BOOLEAN /\ runSlow[l] \in BOOLEAN /\ step[l] \in Steps
<1>1. MaxTime \in Nat BY ScheduleAssumption
<1> QED BY <1>1 DEF ClocksTyped, Nullable, NULL

\* A step of one loop leaves the others where they are.
Same(m) ==
    /\ begun'[m] = begun[m] /\ due'[m] = due[m]
    /\ fires'[m] = fires[m] /\ lastSlow'[m] = lastSlow[m]
    /\ step'[m] = step[m] /\ runSlow'[m] = runSlow[m] /\ resolved'[m] = resolved[m]
    /\ asked'[m] = asked[m] /\ seen'[m] = seen[m] /\ found'[m] = found[m]

\* Each step of a tick, at its own loop and at the others.
LEMMA TickBeginsAt ==
    ASSUME ClocksTyped, NEW l \in Loops, TickBegins(l)
    PROVE  /\ due[l] /\ begun[l] = NULL
           /\ begun'[l] = now /\ due'[l] = FALSE /\ runSlow'[l] = SlowIsDue(l) /\ resolved'[l]
           /\ \/ step'[l] = "lookup" /\ asked'[l] = asked[l] /\ runSlow'[l]
              \/ step'[l] = "request" /\ asked'[l] = now
           /\ fires'[l] = fires[l] /\ lastSlow'[l] = lastSlow[l]
           /\ UNCHANGED <<db, now, sites, losses>>
           /\ \A m \in Loops : m # l => Same(m)
BY DEF TickBegins, Begin, Goes, RequestStarts, LooksUp, ClocksTyped, Same

LEMMA NameIsAnsweredAt ==
    ASSUME ClocksTyped, NEW l \in Loops, NameIsAnswered(l)
    PROVE  /\ step[l] = "lookup" /\ step'[l] = "named" /\ resolved'[l] = world.resolves
           /\ begun'[l] = begun[l] /\ due'[l] = due[l] /\ runSlow'[l] = runSlow[l]
           /\ fires'[l] = fires[l] /\ lastSlow'[l] = lastSlow[l]
           /\ UNCHANGED <<db, now, sites, losses>>
           /\ \A m \in Loops : m # l => Same(m)
BY DEF NameIsAnswered, Goes, ClocksTyped, vars, timers, Same

LEMMA LookupReturnsAt ==
    ASSUME ClocksTyped, NEW l \in Loops, LookupReturns(l)
    PROVE  /\ step[l] = "named" /\ step'[l] = "request" /\ asked'[l] = now
           /\ resolved'[l] = resolved[l]
           /\ begun'[l] = begun[l] /\ due'[l] = due[l] /\ runSlow'[l] = runSlow[l]
           /\ fires'[l] = fires[l] /\ lastSlow'[l] = lastSlow[l]
           /\ UNCHANGED <<db, now, sites, losses>>
           /\ \A m \in Loops : m # l => Same(m)
BY DEF LookupReturns, RequestStarts, Goes, ClocksTyped, vars, timers, Same

LEMMA SiteAnswersAt ==
    ASSUME ClocksTyped, NEW l \in Loops, SiteAnswers(l)
    PROVE  /\ step[l] = "request" /\ step'[l] = "answer" /\ asked'[l] = asked[l]
           /\ \E reused \in BOOLEAN : seen'[l] = Response(world, now, reused)
           /\ resolved'[l] = resolved[l]
           /\ begun'[l] = begun[l] /\ due'[l] = due[l] /\ runSlow'[l] = runSlow[l]
           /\ fires'[l] = fires[l] /\ lastSlow'[l] = lastSlow[l]
           /\ UNCHANGED <<db, now, sites, losses>>
           /\ \A m \in Loops : m # l => Same(m)
BY DEF SiteAnswers, Goes, ClocksTyped, vars, timers, Same

LEMMA RunTickReturnsAt ==
    ASSUME ClocksTyped, NEW l \in Loops, RunTickReturns(l)
    PROVE  /\ step[l] = "answer" /\ step'[l] = "record" /\ asked'[l] = asked[l]
           /\ found'[l] = RunTick(site, resolved[l], seen[l], runSlow[l], now)
           /\ begun'[l] = begun[l] /\ due'[l] = due[l] /\ runSlow'[l] = runSlow[l]
           /\ fires'[l] = fires[l]
           /\ lastSlow'[l] = IF runSlow[l] THEN now ELSE lastSlow[l]
           /\ UNCHANGED <<db, now, sites, losses>>
           /\ \A m \in Loops : m # l => Same(m)
BY DEF RunTickReturns, Goes, ClocksTyped, vars, Same

TickIsOver(l) == TickRecorded(l) \/ TickLost(l) \/ TickPanics(l)

LEMMA TickIsOverAt ==
    ASSUME ClocksTyped, NEW l \in Loops, TickIsOver(l)
    PROVE  /\ begun[l] # NULL /\ step'[l] = "wait"
           /\ begun'[l] = NULL /\ due'[l] = due[l] /\ runSlow'[l] = runSlow[l]
           /\ fires'[l] = IF fires[l] = NULL THEN now + site.interval_seconds ELSE fires[l]
           /\ lastSlow'[l] = lastSlow[l]
           /\ UNCHANGED <<now, sites>>
           /\ \A m \in Loops : m # l => Same(m)
           /\ (step[l] = "record" /\ UNCHANGED stalled) \/ stalled' = now
           /\ \/ step[l] = "record" /\ Record(l, found[l]) /\ UNCHANGED losses
              \/ quiet' = now
<1>1. TickEnds(l) BY DEF TickIsOver, TickRecorded, TickLost, TickPanics
<1>2. begun[l] # NULL /\ begun' = [begun EXCEPT ![l] = NULL] /\ UNCHANGED now
  BY DEF TickIsOver, TickRecorded, TickLost, TickPanics, Record, RecordFails
<1>3. /\ (step[l] = "record" /\ UNCHANGED stalled) \/ stalled' = now
      /\ \/ step[l] = "record" /\ Record(l, found[l]) /\ UNCHANGED losses
         \/ quiet' = now
  BY DEF TickIsOver, TickRecorded, TickLost, TickPanics, TickIsLost, losses
<1> QED BY <1>1, <1>2, <1>3 DEF TickEnds, Ticker, Goes, ClocksTyped, Same

LEMMA InitClocks == CheckingInit => Clocks
<1> SUFFICES ASSUME CheckingInit PROVE Clocks OBVIOUS
<1>1. ClocksTyped
  BY ScheduleAssumption DEF CheckingInit, Init, ClocksTyped, Nullable, Steps
<1>2. ASSUME NEW l \in Loops PROVE InFlight(l)
  BY DEF CheckingInit, Init, InFlight
<1> QED BY <1>1, <1>2 DEF Clocks

-----------------------------------------------------------------------------
LEMMA ElapseAt ==
    ASSUME ClocksTyped, Elapse
    PROVE  /\ now' = now + 1 /\ now' \in 0..MaxTime
           /\ UNCHANGED <<begun, db, lastSlow, tick, sites, quiet>>
           /\ \A l \in Loops :
                /\ due'[l] = (due[l] \/ fires[l] = now')
                /\ fires'[l] = IF fires[l] = now' THEN now' + site.interval_seconds
                               ELSE fires[l]
                /\ step[l] = "wait" => ~due[l]
                /\ step[l] \in {"request", "answer"} => now - asked[l] < Timeout
<1>1. now \in 0..MaxTime /\ MaxTime \in Nat BY ScheduleAssumption DEF ClocksTyped
<1> QED BY <1>1 DEF Elapse, Pass

LEMMA RestartAt ==
    ASSUME ClocksTyped, ProcessRestarts
    PROVE  /\ \A l \in Loops : /\ begun'[l] = NULL /\ due'[l] /\ fires'[l] = NULL
                               /\ lastSlow'[l] = NULL /\ step'[l] = "wait"
           /\ UNCHANGED <<now, db, sites, stalled>> /\ quiet' = now
BY DEF ProcessRestarts, TickIsLost

LEMMA NextClocksTyped == ClocksTyped /\ [CheckingNext]_allvars => ClocksTyped'
<1> SUFFICES ASSUME ClocksTyped, [CheckingNext]_allvars PROVE ClocksTyped' OBVIOUS
<1> USE DEF Steps, InRunTick
<1>1. /\ MaxTime \in Nat /\ now \in Nat /\ now \in 0..MaxTime /\ NULL \in Nullable
      /\ now \in Nullable /\ now + site.interval_seconds \in Nullable
  BY ScheduleAssumption, Cadences DEF ClocksTyped, Nullable
<1>2. ASSUME NEW l \in Loops, TickBegins(l) PROVE ClocksTyped'
  <2>1. SlowIsDue(l) \in BOOLEAN BY DEF SlowIsDue
  <2> QED BY <1>1, <1>2, <2>1
      DEF TickBegins, Begin, Goes, RequestStarts, ClocksTyped, sites, losses
<1>3. ASSUME NEW l \in Loops, NameIsAnswered(l) PROVE ClocksTyped'
  <2>1. world.resolves \in BOOLEAN BY WorldsAssumption DEF ClocksTyped
  <2> QED BY <1>3, <2>1
      DEF NameIsAnswered, Goes, ClocksTyped, vars, timers, sites, losses
<1>4. ASSUME NEW l \in Loops, LookupReturns(l) PROVE ClocksTyped'
  BY <1>1, <1>4 DEF LookupReturns, RequestStarts, Goes, ClocksTyped, vars, timers, sites, losses
<1>5. ASSUME NEW l \in Loops, SiteAnswers(l) PROVE ClocksTyped'
  BY <1>5 DEF SiteAnswers, Goes, ClocksTyped, vars, timers, sites, losses
<1>6. ASSUME NEW l \in Loops, RunTickReturns(l) PROVE ClocksTyped'
  BY <1>1, <1>6 DEF RunTickReturns, Goes, ClocksTyped, vars, sites, losses
<1>7. ASSUME NEW l \in Loops, TickIsOver(l) PROVE ClocksTyped'
  <2>1. /\ begun' = [begun EXCEPT ![l] = NULL] /\ UNCHANGED now
        /\ quiet' \in {quiet, now} /\ stalled' \in {stalled, now} /\ TickEnds(l)
    BY <1>7 DEF TickIsOver, TickRecorded, TickLost, TickPanics, Record, RecordFails, TickIsLost,
                losses
  <2>2. /\ step' \in [Loops -> Steps] /\ asked' \in [Loops -> Nullable]
        /\ fires' \in [Loops -> Nullable] /\ DOMAIN seen' = Loops /\ DOMAIN found' = Loops
        /\ UNCHANGED <<due, lastSlow, runSlow, resolved, sites>>
    BY <1>1, <2>1 DEF TickEnds, Goes, Ticker, ClocksTyped
  <2>3. begun' \in [Loops -> Nullable] BY <1>1, <2>1 DEF ClocksTyped
  <2>4. changed' \in 0..now' /\ quiet' \in 0..now' /\ stalled' \in (0..now') \cup {NULL}
    BY <1>1, <2>1, <2>2 DEF ClocksTyped, sites
  <2> QED BY <2>1, <2>2, <2>3, <2>4 DEF ClocksTyped, sites
<1>8. CASE ProcessRestarts
  BY <1>1, <1>8 DEF ProcessRestarts, TickIsLost, ClocksTyped, sites
<1>9. CASE WorldChanges
  BY <1>1, <1>9 DEF WorldChanges, vars, timers, tick, losses, ClocksTyped
<1>10. ASSUME Elapse, stalled' \in {stalled, now'} PROVE ClocksTyped'
  <2>1. now' = now + 1 /\ now' \in 0..MaxTime BY <1>10, ElapseAt
  <2>2. now' + site.interval_seconds \in Nullable BY <1>1, <2>1, Cadences DEF Nullable
  <2>3. due' \in [Loops -> BOOLEAN] /\ fires' \in [Loops -> Nullable]
    BY <1>10, <2>2 DEF Elapse, ClocksTyped
  <2>4. UNCHANGED <<begun, lastSlow, tick, sites, quiet>> BY <1>10, ElapseAt
  <2> QED BY <1>1, <1>10, <2>1, <2>3, <2>4 DEF ClocksTyped, tick, sites
<1>11. CASE UNCHANGED allvars
  BY <1>11 DEF allvars, vars, cvars, timers, tick, sites, losses, ClocksTyped
<1> QED BY <1>2, <1>3, <1>4, <1>5, <1>6, <1>7, <1>8, <1>9, <1>10, <1>11
    DEF CheckingNext, TickIsOver, SecondPasses, SecondIsHeldUp

\* A loop that stays where it is while the clock does not go back.
LEMMA InFlightStays ==
    ASSUME ClocksTyped, NEW l \in Loops, InFlight(l), Same(l), now' \in Int, now <= now'
    PROVE  InFlight(l)'
<1>1. now \in Int BY TimesAreInts
<1>2. \A w \in Worlds : ComesFrom(seen[l], w) => ComesFrom(seen[l], w)'
  BY <1>1 DEF ComesFrom, Same
<1> QED BY <1>1, <1>2 DEF InFlight, Same, ComesFrom

\* RunTick makes of any response it may have an outcome that may be.
LEMMA ResultIsOutcome ==
    ASSUME ClocksTyped, NEW l \in Loops, NEW w \in Worlds, ComesFrom(seen[l], w)
    PROVE  LET o == RunTick(site, resolved[l], seen[l], runSlow[l], now) IN
           /\ o \in Outcomes
           /\ w \in BrokenWorlds => ~o.up
           /\ w \in HealthyWorlds /\ resolved[l] => o.up
<1>1. PICK t \in 0..now, reused \in BOOLEAN : seen[l] = Response(w, t, reused)
  BY DEF ComesFrom
<1>2. /\ t \in 0..MaxTime /\ now \in 0..MaxTime /\ site \in Accepted(Submitted)
      /\ runSlow[l] \in BOOLEAN /\ resolved[l] \in BOOLEAN
  BY <1>1, ScheduleAssumption DEF ClocksTyped
<1> QED BY <1>1, <1>2, WorldsAssumption

LEMMA NextInFlight ==
    ASSUME Clocks, [CheckingNext]_allvars, NEW m \in Loops
    PROVE  InFlight(m)'
<1>1. ClocksTyped /\ ClocksTyped' /\ InFlight(m) BY NextClocksTyped DEF Clocks
<1>2. now \in Nat /\ 0 \in 0..now /\ now \in 0..now /\ now # NULL BY <1>1, TimesAreInts DEF NULL
<1>3. ASSUME Same(m), UNCHANGED now PROVE InFlight(m)'
  BY <1>1, <1>2, <1>3, InFlightStays
<1>4. ASSUME NEW l \in Loops, TickBegins(l) PROVE InFlight(m)'
  <2>1. CASE m = l BY <1>1, <1>2, <1>4, <2>1, TickBeginsAt DEF InFlight
  <2> QED BY <1>1, <1>3, <1>4, <2>1, TickBeginsAt
<1>5. ASSUME NEW l \in Loops, NameIsAnswered(l) PROVE InFlight(m)'
  <2>1. CASE m = l BY <1>1, <1>5, <2>1, NameIsAnsweredAt DEF InFlight
  <2> QED BY <1>1, <1>3, <1>5, <2>1, NameIsAnsweredAt
<1>6. ASSUME NEW l \in Loops, LookupReturns(l) PROVE InFlight(m)'
  <2>1. CASE m = l BY <1>1, <1>2, <1>6, <2>1, LookupReturnsAt DEF InFlight
  <2> QED BY <1>1, <1>3, <1>6, <2>1, LookupReturnsAt
<1>7. ASSUME NEW l \in Loops, SiteAnswers(l) PROVE InFlight(m)'
  <2>1. CASE m = l
    <3>1. world \in Worlds /\ (ComesFrom(seen[l], world))'
      BY <1>1, <1>2, <1>7, SiteAnswersAt DEF ClocksTyped, ComesFrom, sites
    <3>2. world' = world BY <1>1, <1>7, SiteAnswersAt DEF sites
    <3> QED BY <1>1, <1>7, <2>1, <3>1, <3>2, SiteAnswersAt DEF InFlight
  <2> QED BY <1>1, <1>3, <1>7, <2>1, SiteAnswersAt
<1>8. ASSUME NEW l \in Loops, RunTickReturns(l) PROVE InFlight(m)'
  <2>1. CASE m = l
    <3>1. found'[l] \in Outcomes
      BY <1>1, <1>8, <2>1, RunTickReturnsAt, ResultIsOutcome DEF InFlight
    <3> QED BY <1>1, <1>8, <2>1, <3>1, RunTickReturnsAt DEF InFlight
  <2> QED BY <1>1, <1>3, <1>8, <2>1, RunTickReturnsAt
<1>9. ASSUME NEW l \in Loops, TickIsOver(l) PROVE InFlight(m)'
  <2>1. CASE m = l BY <1>1, <1>9, <2>1, TickIsOverAt DEF InFlight
  <2> QED BY <1>1, <1>3, <1>9, <2>1, TickIsOverAt
<1>10. CASE ProcessRestarts BY <1>1, <1>10, RestartAt DEF InFlight
<1>11. ASSUME Elapse PROVE InFlight(m)'
  <2>1. UNCHANGED <<begun, tick>> /\ now' = now + 1 BY <1>1, <1>11, ElapseAt
  <2>2. \A w \in Worlds : ComesFrom(seen[m], w) => ComesFrom(seen[m], w)'
    BY <1>2, <2>1 DEF ComesFrom, tick
  <2> QED BY <1>1, <1>2, <2>1, <2>2 DEF InFlight, tick, ComesFrom
<1>12. CASE WorldChanges \/ UNCHANGED allvars
  BY <1>3, <1>12 DEF WorldChanges, allvars, cvars, vars, timers, tick, Same
<1> QED BY <1>4, <1>5, <1>6, <1>7, <1>8, <1>9, <1>10, <1>11, <1>12
    DEF CheckingNext, TickIsOver, SecondPasses, SecondIsHeldUp

LEMMA NextClocks == Clocks /\ [CheckingNext]_allvars => Clocks'
BY NextClocksTyped, NextInFlight DEF Clocks

LEMMA ChecksAreTicks ==
    ASSUME Clocks, [CheckingNext]_allvars
    PROVE  [Next]_vars
<1>1. ASSUME NEW l \in Loops, TickIsOver(l) PROVE Next
  <2>1. CASE TickRecorded(l)
    <3>1. found[l] \in Outcomes BY <2>1 DEF TickRecorded, Clocks, InFlight
    <3> QED BY <2>1, <3>1 DEF TickRecorded, Next
  <2>2. CASE TickLost(l) \/ TickPanics(l) BY <2>2 DEF TickLost, TickPanics, Next
  <2> QED BY <1>1, <2>1, <2>2 DEF TickIsOver
<1>2. CASE ProcessRestarts
  <2>1. CASE \E l \in Loops : begun[l] # NULL
    BY <1>2, <2>1 DEF ProcessRestarts, Crash, Next
  <2>2. CASE \A l \in Loops : begun[l] = NULL
    <3>1. begun' = begun BY <1>2, <2>2 DEF ProcessRestarts, Clocks, ClocksTyped
    <3> QED BY <1>2, <3>1 DEF ProcessRestarts, vars
  <2> QED BY <2>1, <2>2
<1>3. ASSUME NEW l \in Loops,
             NameIsAnswered(l) \/ LookupReturns(l) \/ SiteAnswers(l) \/ RunTickReturns(l)
      PROVE  UNCHANGED vars
  BY <1>3 DEF NameIsAnswered, LookupReturns, SiteAnswers, RunTickReturns
<1>4. CASE WorldChanges BY <1>4 DEF WorldChanges
<1>5. CASE Elapse BY <1>5 DEF Elapse, Next
<1>6. CASE UNCHANGED allvars BY <1>6 DEF allvars
<1>7. ASSUME NEW l \in Loops, TickBegins(l) PROVE Next BY <1>7 DEF TickBegins, Next
<1> QED BY <1>1, <1>2, <1>3, <1>4, <1>5, <1>6, <1>7
    DEF CheckingNext, TickIsOver, SecondPasses, SecondIsHeldUp

\* A check loop in time, with the checker and a world that changes, writes the
\* database only as SiteStore says: its theorems are theorems of Checking.
THEOREM CheckingImplementsSiteStore == CheckingSpec => Spec
<1>1. CheckingInit => Init BY DEF CheckingInit
<1> QED BY <1>1, InitClocks, NextClocks, ChecksAreTicks, PTL DEF CheckingSpec, Spec

-----------------------------------------------------------------------------
\* Where loop l is in its schedule.
OnSchedule(l) ==
    /\ fires[l] # NULL => now < fires[l] /\ fires[l] <= now + site.interval_seconds
    /\ fires[l] = NULL => lastSlow[l] = NULL \/ (step[l] = "record" /\ runSlow[l])
    /\ step[l] = "wait" /\ ~due[l] => fires[l] # NULL
    /\ step[l] # "wait" /\ lastSlow[l] = NULL => runSlow[l]
    /\ step[l] \in {"lookup", "named"} => runSlow[l]
    /\ step[l] \in {"request", "answer"} => now <= asked[l] + Timeout
    /\ step[l] = "record" => now <= asked[l] + Timeout \/ stalled = now

\* A slow tick whose request is made at t is made in time.
InTime(l, t) ==
    \/ t < lastSlow[l] + site.slow_interval_seconds + BetweenTicks
    \/ stalled # NULL /\ t <= stalled + BetweenTicks

\* The request loop l has made was too early for a slow one; the next is not.
TooEarly(l) ==
    /\ ~runSlow[l]
    /\ asked[l] < lastSlow[l] + site.slow_interval_seconds
    /\ ~due[l] => fires[l] <= asked[l] + site.interval_seconds

\* And what is left until its next slow tick.
Cadence(l) ==
    lastSlow[l] # NULL =>
        /\ step[l] = "wait" => InTime(l, IF due[l] THEN now ELSE fires[l])
        /\ step[l] \in {"lookup", "named"} => InTime(l, now)
        /\ step[l] \in {"request", "answer"} =>
            TooEarly(l) \/ (runSlow[l] /\ InTime(l, asked[l]))
        /\ step[l] = "record" =>
            \/ TooEarly(l) /\ now <= asked[l] + Timeout
            \/ runSlow[l] /\ lastSlow[l] = now
            \/ stalled = now

Schedules == \A l \in Loops : OnSchedule(l) /\ Cadence(l)

\* The database knows of the world.
Seen ==
    /\ world \in BrokenWorlds => db.state.current_up = 0
    /\ world \in HealthyWorlds => db.state.current_up = 1

\* What loop l has in flight will say the same of the world.
Truthful(l) ==
    /\ step[l] \in InRunTick /\ world \in HealthyWorlds => resolved[l]
    /\ step[l] = "answer" => ComesFrom(seen[l], world)
    /\ step[l] = "record" =>
        /\ world \in BrokenWorlds => ~found[l].up
        /\ world \in HealthyWorlds => found[l].up

Later(s, t) == IF s < t THEN t ELSE s

Since == Later(Later(changed, quiet), stalled)

\* By when the tick after a stale one begins.
NextBy == Since + site.interval_seconds + Timeout

\* Loop l is about to look, or it will be soon after what it has in flight.
Looks(l) ==
    /\ step[l] = "wait" => (IF due[l] THEN now ELSE fires[l]) <= NextBy
    /\ step[l] \in {"lookup", "named"} => now <= IF Truthful(l) THEN NextBy ELSE Since
    /\ step[l] \in {"request", "answer", "record"} =>
        IF Truthful(l) THEN asked[l] <= NextBy
        ELSE /\ asked[l] <= Since
             /\ fires[l] # NULL /\ ~due[l] => fires[l] <= Since + site.interval_seconds

Watched ==
    /\ \A l \in Loops : Truthful(l) \/ Looks(l)
    /\ Seen \/ \E l \in Loops : Looks(l)

LEMMA InitSchedules == CheckingInit => Schedules /\ Watched
<1> SUFFICES ASSUME CheckingInit PROVE Schedules /\ Watched OBVIOUS
<1>1. ClocksTyped BY InitClocks DEF Clocks
<1>2. ASSUME NEW l \in Loops
      PROVE  /\ step[l] = "wait" /\ due[l] /\ fires[l] = NULL /\ lastSlow[l] = NULL
             /\ now = 0 /\ changed = 0 /\ quiet = 0 /\ stalled = NULL
  BY DEF CheckingInit, Init
<1>3. site.interval_seconds \in Nat /\ Timeout \in Nat BY <1>1, Cadences, ScheduleAssumption
<1>4. Schedules BY <1>2 DEF Schedules, OnSchedule, Cadence
<1>5. ASSUME NEW l \in Loops PROVE Truthful(l) /\ Looks(l)
  BY <1>2, <1>3 DEF Truthful, Looks, NextBy, Since, Later, InRunTick, NULL
<1> QED BY <1>4, <1>5, ScheduleAssumption DEF Watched

\* What arithmetic there is about loop l, in one place.
Numbers(l) ==
    /\ now \in Nat /\ changed \in Nat /\ quiet \in Nat /\ stalled \in Int
    /\ changed <= now /\ quiet <= now /\ stalled <= now
    /\ fires[l] \in Int /\ lastSlow[l] \in Int /\ asked[l] \in Int
    /\ Timeout \in Nat
    /\ site.interval_seconds \in Nat /\ site.interval_seconds > 0
    /\ site.slow_interval_seconds \in Nat
    /\ site.slow_interval_seconds >= site.interval_seconds
    /\ BetweenTicks \in Nat
    /\ BetweenTicks >= site.interval_seconds /\ BetweenTicks >= Timeout
    /\ due[l] \in BOOLEAN /\ runSlow[l] \in BOOLEAN

LEMMA ClocksAreNumbers == ASSUME ClocksTyped, NEW l \in Loops PROVE Numbers(l)
BY TimesAreInts, Cadences, ScheduleAssumption DEF Numbers

OnTime(l) == OnSchedule(l) /\ Cadence(l)

\* A loop that stays where it is, while another may be held up.
LEMMA StaysOnTime ==
    ASSUME ClocksTyped, NEW l \in Loops, OnTime(l), Same(l), UNCHANGED <<now, site>>,
           stalled' \in {stalled, now}
    PROVE  OnTime(l)'
<1>1. Numbers(l) BY ClocksAreNumbers
<1>2. BetweenTicks' = BetweenTicks BY DEF BetweenTicks
<1>3. OnSchedule(l)' BY DEF OnTime, OnSchedule, Same
<1>4. \A t : InTime(l, t) /\ t \in Int => InTime(l, t)'
  BY <1>1, <1>2 DEF InTime, Same, Numbers, NULL
<1>5. Cadence(l)'
  <2>1. TooEarly(l)' <=> TooEarly(l) BY DEF TooEarly, Same
  <2>2. now \in Int /\ fires[l] \in Int /\ asked[l] \in Int BY <1>1 DEF Numbers
  <2> QED BY <1>4, <2>1, <2>2 DEF OnTime, Cadence, Same, InTime
<1> QED BY <1>3, <1>5 DEF OnTime

LEMMA TickBeginsOnTime ==
    ASSUME Clocks, NEW l \in Loops, OnTime(l), TickBegins(l)
    PROVE  OnTime(l)'
<1>1. ClocksTyped /\ InFlight(l) BY DEF Clocks
<1>2. Numbers(l) BY <1>1, ClocksAreNumbers
<1>3. step[l] = "wait" BY <1>1, TickBeginsAt DEF InFlight
<1>4. BetweenTicks' = BetweenTicks /\ site' = site /\ stalled' = stalled /\ now' = now
  BY <1>1, TickBeginsAt DEF BetweenTicks, sites, losses
<1>5. OnSchedule(l)'
  <2>1. /\ fires'[l] = fires[l] /\ lastSlow'[l] = lastSlow[l]
        /\ runSlow'[l] = SlowIsDue(l)
        /\ \/ step'[l] = "lookup" /\ runSlow'[l]
           \/ step'[l] = "request" /\ asked'[l] = now
    BY <1>1, TickBeginsAt
  <2>2. lastSlow[l] = NULL => SlowIsDue(l) BY DEF SlowIsDue
  <2>3. now <= now + Timeout BY <1>2 DEF Numbers
  <2> QED BY <1>3, <1>4, <2>1, <2>2, <2>3 DEF OnTime, OnSchedule
<1>6. Cadence(l)'
  <2> SUFFICES ASSUME lastSlow[l] # NULL PROVE Cadence(l)'
    BY <1>1, TickBeginsAt DEF Cadence
  <2>1. InTime(l, now) BY <1>1, <1>3, TickBeginsAt DEF OnTime, Cadence
  <2>2. InTime(l, now)' BY <1>1, <1>4, <2>1, TickBeginsAt DEF InTime
  <2>3. CASE SlowIsDue(l)
    BY <1>1, <1>4, <2>2, <2>3, TickBeginsAt DEF Cadence, InTime
  <2>4. CASE ~SlowIsDue(l)
    <3>1. /\ step'[l] = "request" /\ asked'[l] = now /\ ~runSlow'[l]
          /\ fires'[l] = fires[l] /\ lastSlow'[l] = lastSlow[l] /\ due'[l] = FALSE
      BY <1>1, <2>4, TickBeginsAt
    <3>2. fires[l] <= now + site.interval_seconds
      BY <1>2, <1>3 DEF OnTime, OnSchedule, Numbers, NULL
    <3>3. now < lastSlow[l] + site.slow_interval_seconds BY <1>2, <2>4 DEF SlowIsDue, Numbers
    <3>4. TooEarly(l)' BY <1>4, <3>1, <3>2, <3>3 DEF TooEarly
    <3> QED BY <3>1, <3>4 DEF Cadence
  <2> QED BY <2>3, <2>4
<1> QED BY <1>5, <1>6 DEF OnTime

LEMMA LookupOnTime ==
    ASSUME Clocks, NEW l \in Loops, OnTime(l), NameIsAnswered(l) \/ LookupReturns(l)
    PROVE  OnTime(l)'
<1>1. ClocksTyped BY DEF Clocks
<1>2. Numbers(l) BY <1>1, ClocksAreNumbers
<1>3. /\ BetweenTicks' = BetweenTicks /\ site' = site /\ stalled' = stalled /\ now' = now
      /\ due'[l] = due[l] /\ runSlow'[l] = runSlow[l]
      /\ fires'[l] = fires[l] /\ lastSlow'[l] = lastSlow[l]
  BY <1>1, NameIsAnsweredAt, LookupReturnsAt DEF BetweenTicks, sites, losses
<1>4. CASE NameIsAnswered(l)
  <2>1. step[l] = "lookup" /\ step'[l] = "named" BY <1>1, <1>4, NameIsAnsweredAt
  <2> QED BY <1>3, <2>1 DEF OnTime, OnSchedule, Cadence, InTime
<1>5. CASE LookupReturns(l)
  <2>1. step[l] = "named" /\ step'[l] = "request" /\ asked'[l] = now
    BY <1>1, <1>5, LookupReturnsAt
  <2>2. OnSchedule(l)' BY <1>2, <1>3, <2>1 DEF OnTime, OnSchedule, Numbers
  <2>3. Cadence(l)' BY <1>3, <2>1 DEF OnTime, OnSchedule, Cadence, InTime
  <2> QED BY <2>2, <2>3 DEF OnTime
<1> QED BY <1>4, <1>5

LEMMA AnswersOnTime ==
    ASSUME Clocks, NEW l \in Loops, OnTime(l), SiteAnswers(l) \/ RunTickReturns(l)
    PROVE  OnTime(l)'
<1>1. ClocksTyped BY DEF Clocks
<1>2. Numbers(l) BY <1>1, ClocksAreNumbers
<1>3. /\ BetweenTicks' = BetweenTicks /\ site' = site /\ stalled' = stalled /\ now' = now
      /\ due'[l] = due[l] /\ runSlow'[l] = runSlow[l] /\ fires'[l] = fires[l]
      /\ asked'[l] = asked[l]
  BY <1>1, SiteAnswersAt, RunTickReturnsAt DEF BetweenTicks, sites, losses
<1>4. CASE SiteAnswers(l)
  <2>1. step[l] = "request" /\ step'[l] = "answer" /\ lastSlow'[l] = lastSlow[l]
    BY <1>1, <1>4, SiteAnswersAt
  <2> QED BY <1>3, <2>1 DEF OnTime, OnSchedule, Cadence, InTime, TooEarly
<1>5. CASE RunTickReturns(l)
  <2>1. /\ step[l] = "answer" /\ step'[l] = "record"
        /\ lastSlow'[l] = IF runSlow[l] THEN now ELSE lastSlow[l]
    BY <1>1, <1>5, RunTickReturnsAt
  <2>2. OnSchedule(l)'
    <3>1. CASE runSlow[l] BY <1>3, <2>1, <3>1 DEF OnTime, OnSchedule
    <3>2. CASE ~runSlow[l]
      <4>1. lastSlow'[l] = lastSlow[l] BY <2>1, <3>2
      <4> QED BY <1>3, <2>1, <3>2, <4>1 DEF OnTime, OnSchedule
    <3> QED BY <3>1, <3>2
  <2>3. CASE runSlow[l]
    <3>1. runSlow'[l] /\ lastSlow'[l] = now' BY <1>3, <2>1, <2>3
    <3> QED BY <2>1, <2>2, <3>1 DEF Cadence, OnTime
  <2>4. CASE ~runSlow[l]
    BY <1>3, <2>1, <2>2, <2>4 DEF OnTime, OnSchedule, Cadence, TooEarly
  <2> QED BY <2>3, <2>4
<1> QED BY <1>4, <1>5

LEMMA TickIsOverOnTime ==
    ASSUME Clocks, NEW l \in Loops, OnTime(l), TickIsOver(l)
    PROVE  OnTime(l)'
<1>1. ClocksTyped /\ InFlight(l) BY DEF Clocks
<1>2. Numbers(l) BY <1>1, ClocksAreNumbers
<1>3. /\ BetweenTicks' = BetweenTicks /\ site' = site /\ now' = now
      /\ step'[l] = "wait" /\ due'[l] = due[l] /\ lastSlow'[l] = lastSlow[l]
      /\ fires'[l] = IF fires[l] = NULL THEN now + site.interval_seconds ELSE fires[l]
  BY <1>1, TickIsOverAt DEF BetweenTicks, sites
<1>4. /\ now < fires'[l] /\ fires'[l] <= now + site.interval_seconds /\ fires'[l] # NULL
  BY <1>2, <1>3 DEF OnTime, OnSchedule, Numbers, NULL
<1>5. OnSchedule(l)' BY <1>3, <1>4 DEF OnSchedule
<1>6. Cadence(l)'
  <2> SUFFICES ASSUME lastSlow[l] # NULL
               PROVE  InTime(l, IF due[l] THEN now ELSE fires[l])'
    BY <1>3 DEF Cadence
  <2>1. CASE stalled' = now
    <3>1. now # NULL /\ now <= now + BetweenTicks /\ fires'[l] <= now + BetweenTicks
      BY <1>2, <1>3, <1>4 DEF Numbers, NULL
    <3> QED BY <1>3, <2>1, <3>1 DEF InTime
  <2>2. CASE step[l] = "record" /\ UNCHANGED stalled /\ stalled # now
    <3>1. \/ TooEarly(l) /\ now <= asked[l] + Timeout
          \/ runSlow[l] /\ lastSlow[l] = now
      BY <2>2 DEF OnTime, Cadence
    <3>2. CASE TooEarly(l) /\ now <= asked[l] + Timeout
      <4>1. asked[l] < lastSlow[l] + site.slow_interval_seconds BY <3>2 DEF TooEarly
      <4>2. now < lastSlow[l] + site.slow_interval_seconds + BetweenTicks
        BY <1>2, <3>2, <4>1 DEF Numbers
      <4>3. CASE due[l] BY <1>3, <4>2, <4>3 DEF InTime
      <4>4. CASE ~due[l]
        <5>1. fires[l] <= asked[l] + site.interval_seconds BY <3>2, <4>4 DEF TooEarly
        <5>2. fires[l] # NULL BY <3>2 DEF OnTime, OnSchedule, TooEarly
        <5>3. fires[l] < lastSlow[l] + site.slow_interval_seconds + BetweenTicks
          BY <1>2, <4>1, <5>1 DEF Numbers
        <5> QED BY <1>3, <4>4, <5>2, <5>3 DEF InTime
      <4> QED BY <4>3, <4>4
    <3>3. CASE runSlow[l] /\ lastSlow[l] = now
      <4>1. /\ now < lastSlow[l] + site.slow_interval_seconds + BetweenTicks
            /\ fires'[l] < lastSlow[l] + site.slow_interval_seconds + BetweenTicks
        BY <1>2, <1>3, <1>4, <3>3 DEF Numbers
      <4> QED BY <1>3, <4>1 DEF InTime
    <3> QED BY <3>1, <3>2, <3>3
  <2> QED BY <1>1, <2>1, <2>2, TickIsOverAt
<1> QED BY <1>5, <1>6 DEF OnTime

LEMMA ElapseOnTime ==
    ASSUME Clocks, NEW l \in Loops, OnTime(l), Elapse,
           \/ step[l] \notin Unbounded /\ stalled' \in {stalled, now'}
           \/ stalled' = now'
    PROVE  OnTime(l)'
<1>1. ClocksTyped BY DEF Clocks
<1>2. Numbers(l) BY <1>1, ClocksAreNumbers
<1>3. /\ now' = now + 1
      /\ lastSlow'[l] = lastSlow[l] /\ site' = site /\ BetweenTicks' = BetweenTicks
      /\ step'[l] = step[l] /\ runSlow'[l] = runSlow[l] /\ asked'[l] = asked[l]
      /\ due'[l] = (due[l] \/ fires[l] = now')
      /\ fires'[l] = IF fires[l] = now' THEN now' + site.interval_seconds ELSE fires[l]
      /\ step[l] = "wait" => ~due[l]
      /\ step[l] \in {"request", "answer"} => now - asked[l] < Timeout
      /\ stalled' \in {stalled, now'}
      /\ stalled' = now' \/ step[l] \in {"wait", "request", "answer"}
  BY <1>1, ElapseAt, TimesAreInts DEF BetweenTicks, tick, sites, Steps, InRunTick, Unbounded
<1>4. OnSchedule(l)'
  <2>1. /\ fires'[l] # NULL => now' < fires'[l] /\ fires'[l] <= now' + site.interval_seconds
        /\ fires'[l] = NULL => fires[l] = NULL
    BY <1>2, <1>3 DEF OnTime, OnSchedule, Numbers, NULL
  <2>2. step[l] \in {"request", "answer"} => now' <= asked[l] + Timeout
    BY <1>2, <1>3 DEF Numbers
  <2> QED BY <1>3, <2>1, <2>2 DEF OnTime, OnSchedule
<1>5. ASSUME NEW t \in Int, InTime(l, t)
      PROVE  \/ t < lastSlow'[l] + site'.slow_interval_seconds + BetweenTicks'
             \/ stalled' # NULL /\ t <= stalled' + BetweenTicks'
  <2>1. CASE t < lastSlow[l] + site.slow_interval_seconds + BetweenTicks BY <1>3, <2>1
  <2>2. CASE stalled # NULL /\ t <= stalled + BetweenTicks
    <3>1. CASE stalled' = stalled BY <1>3, <2>2, <3>1
    <3>2. CASE stalled' = now'
      <4>1. now' # NULL /\ t <= now' + BetweenTicks
        BY <1>2, <1>3, <2>2 DEF Numbers, NULL
      <4> QED BY <1>3, <3>2, <4>1
    <3> QED BY <1>3, <3>1, <3>2
  <2> QED BY <1>5, <2>1, <2>2 DEF InTime
<1>6. Cadence(l)'
  <2> SUFFICES ASSUME lastSlow[l] # NULL PROVE Cadence(l)' BY <1>3 DEF Cadence
  <2>1. CASE step[l] = "wait"
    <3>1. ~due[l] /\ InTime(l, fires[l]) BY <1>3, <2>1 DEF OnTime, Cadence
    <3>2. fires[l] \in Int BY <1>2 DEF Numbers
    <3>3. CASE fires[l] = now'
      <4>1. due'[l] BY <1>3, <3>3
      <4> QED BY <1>3, <1>5, <2>1, <3>1, <3>2, <3>3, <4>1 DEF Cadence, InTime
    <3>4. CASE fires[l] # now'
      <4>1. ~due'[l] /\ fires'[l] = fires[l] BY <1>3, <3>1, <3>4
      <4> QED BY <1>3, <1>5, <2>1, <3>1, <3>2, <4>1 DEF Cadence, InTime
    <3> QED BY <3>3, <3>4
  <2>2. CASE step[l] \in {"lookup", "named"}
    <3>1. stalled' = now' /\ now' # NULL /\ now' <= now' + BetweenTicks
      BY <1>2, <1>3, <2>2 DEF Numbers, NULL
    <3> QED BY <1>3, <2>2, <3>1 DEF Cadence, InTime
  <2>3. CASE step[l] \in {"request", "answer"}
    <3>1. asked[l] \in Int BY <1>2 DEF Numbers
    <3>2. TooEarly(l) \/ (runSlow[l] /\ InTime(l, asked[l])) BY <2>3 DEF OnTime, Cadence
    <3>3. TooEarly(l) => TooEarly(l)' BY <1>2, <1>3 DEF TooEarly, Numbers
    <3> QED BY <1>3, <1>5, <2>3, <3>1, <3>2, <3>3 DEF Cadence, InTime
  <2>4. CASE step[l] = "record"
    BY <1>3, <2>4 DEF Cadence
  <2> QED BY <1>1, <2>1, <2>2, <2>3, <2>4, TimesAreInts DEF Steps, InRunTick
<1> QED BY <1>4, <1>6 DEF OnTime

LEMMA NextSchedules ==
    ASSUME Clocks, [CheckingNext]_allvars, Schedules
    PROVE  Schedules'
<1> SUFFICES ASSUME NEW m \in Loops PROVE OnTime(m)' BY DEF Schedules, OnTime
<1>1. ClocksTyped /\ OnTime(m) BY DEF Clocks, Schedules, OnTime
<1>2. ASSUME NEW l \in Loops, TickBegins(l) PROVE OnTime(m)'
  BY <1>1, <1>2, TickBeginsAt, TickBeginsOnTime, StaysOnTime DEF sites, losses
<1>3. ASSUME NEW l \in Loops, NameIsAnswered(l) PROVE OnTime(m)'
  BY <1>1, <1>3, NameIsAnsweredAt, LookupOnTime, StaysOnTime DEF sites, losses
<1>4. ASSUME NEW l \in Loops, LookupReturns(l) PROVE OnTime(m)'
  BY <1>1, <1>4, LookupReturnsAt, LookupOnTime, StaysOnTime DEF sites, losses
<1>5. ASSUME NEW l \in Loops, SiteAnswers(l) PROVE OnTime(m)'
  BY <1>1, <1>5, SiteAnswersAt, AnswersOnTime, StaysOnTime DEF sites, losses
<1>6. ASSUME NEW l \in Loops, RunTickReturns(l) PROVE OnTime(m)'
  BY <1>1, <1>6, RunTickReturnsAt, AnswersOnTime, StaysOnTime DEF sites, losses
<1>7. ASSUME NEW l \in Loops, TickIsOver(l) PROVE OnTime(m)'
  BY <1>1, <1>7, TickIsOverAt, TickIsOverOnTime, StaysOnTime DEF sites
<1>8. CASE ProcessRestarts
  BY <1>1, <1>8, RestartAt DEF OnTime, OnSchedule, Cadence
<1>9. CASE WorldChanges \/ UNCHANGED allvars
  BY <1>1, <1>9, StaysOnTime
  DEF WorldChanges, allvars, cvars, vars, timers, tick, sites, losses, Same
<1>10. CASE SecondPasses BY <1>1, <1>10, ElapseOnTime DEF SecondPasses
<1>11. CASE SecondIsHeldUp BY <1>1, <1>11, ElapseOnTime DEF SecondIsHeldUp
<1> QED BY <1>2, <1>3, <1>4, <1>5, <1>6, <1>7, <1>8, <1>9, <1>10, <1>11
    DEF CheckingNext, TickIsOver

-----------------------------------------------------------------------------
LEMMA SinceIsLatest ==
    ASSUME ClocksTyped
    PROVE  /\ Since \in Nat /\ Since <= now
           /\ changed <= Since /\ quiet <= Since /\ stalled <= Since
           /\ Since \in {changed, quiet, stalled}
<1>1. /\ changed \in Nat /\ quiet \in Nat /\ stalled \in Int /\ now \in Nat
      /\ changed <= now /\ quiet <= now /\ stalled <= now
  BY TimesAreInts, ScheduleAssumption
<1> QED BY <1>1 DEF Since, Later

\* A loop that was held up, that loses a tick or meets another world looks in
\* time, whatever it has in hand.
LEMMA LooksFromNow ==
    ASSUME Clocks, Schedules, Since = now, NEW l \in Loops
    PROVE  Looks(l)
<1>1. OnSchedule(l) /\ InFlight(l) BY DEF Schedules, Clocks
<1>2. Numbers(l) BY ClocksAreNumbers DEF Clocks
<1>3. NextBy = now + site.interval_seconds + Timeout BY DEF NextBy
<1>4. now <= NextBy /\ now + site.interval_seconds <= NextBy BY <1>2, <1>3 DEF Numbers
<1>5. step[l] = "wait" => (IF due[l] THEN now ELSE fires[l]) <= NextBy
  BY <1>1, <1>2, <1>3, <1>4 DEF OnSchedule, Numbers
<1>6. step[l] \in {"request", "answer", "record"} => asked[l] <= now /\ asked[l] <= NextBy
  BY <1>1, <1>2, <1>4 DEF InFlight, Numbers, NextBy
<1> QED BY <1>1, <1>2, <1>4, <1>5, <1>6 DEF Looks, OnSchedule, Numbers

LEMMA WatchedFromNow == Clocks /\ Schedules /\ Since = now => Watched
BY LooksFromNow, ScheduleAssumption DEF Watched

\* What keeps the time by which loop l looks.
Still == UNCHANGED <<db, now, sites, losses>>

LEMMA StillMeans ==
    ASSUME Still
    PROVE  /\ now' = now /\ site' = site /\ world' = world /\ db' = db
           /\ Since' = Since /\ NextBy' = NextBy /\ (Seen' <=> Seen)
BY DEF Still, sites, losses, Since, Later, NextBy, Seen

\* Loop l goes on as it did: it says the same, by the same time.
GoesOn(l) == /\ Truthful(l) => Truthful(l)'
             /\ Looks(l) => Looks(l)'

LEMMA SameGoesOn == ASSUME NEW l \in Loops, Still, Same(l) PROVE GoesOn(l)
<1>1. Truthful(l)' <=> Truthful(l)
  BY StillMeans DEF Truthful, Same, ComesFrom
<1> QED BY <1>1, StillMeans DEF GoesOn, Looks, Same

LEMMA GoingOnKeepsWatch ==
    ASSUME Watched, Still, NEW l \in Loops, GoesOn(l), \A m \in Loops : m # l => Same(m)
    PROVE  Watched'
<1>1. \A m \in Loops : GoesOn(m) BY SameGoesOn
<1> QED BY <1>1, StillMeans DEF Watched, GoesOn

LEMMA BeginGoesOn ==
    ASSUME Clocks, Schedules, NEW l \in Loops, TickBegins(l)
    PROVE  Still /\ GoesOn(l)
<1>1. ClocksTyped /\ InFlight(l) /\ OnSchedule(l) BY DEF Clocks, Schedules
<1>2. Still BY <1>1, TickBeginsAt DEF Still
<1>3. /\ step[l] = "wait" /\ due[l] /\ resolved'[l]
      /\ step'[l] = "lookup" \/ (step'[l] = "request" /\ asked'[l] = now)
  BY <1>1, TickBeginsAt DEF InFlight
<1>4. Truthful(l)' BY <1>3 DEF Truthful
<1>5. Looks(l) => Looks(l)'
  BY <1>2, <1>3, <1>4, StillMeans DEF Looks
<1> QED BY <1>2, <1>4, <1>5 DEF GoesOn

LEMMA LookupGoesOn ==
    ASSUME Clocks, Schedules, NEW l \in Loops, NameIsAnswered(l) \/ LookupReturns(l)
    PROVE  Still /\ GoesOn(l)
<1>1. ClocksTyped /\ OnSchedule(l) BY DEF Clocks, Schedules
<1>2. Numbers(l) /\ Since \in Nat BY <1>1, ClocksAreNumbers, SinceIsLatest
<1>3. CASE NameIsAnswered(l)
  <2>1. Still /\ step[l] = "lookup" /\ step'[l] = "named" /\ resolved'[l] = world.resolves
    BY <1>1, <1>3, NameIsAnsweredAt DEF Still
  <2>2. world \in HealthyWorlds => world.resolves BY WorldsAssumption
  <2>3. Truthful(l)' BY <2>1, <2>2, StillMeans DEF Truthful
  <2>4. Since <= NextBy BY <1>2 DEF NextBy, Numbers
  <2>5. Looks(l) => now <= NextBy
    BY <1>2, <2>1, <2>4 DEF Looks, Numbers, NextBy
  <2> QED BY <2>1, <2>3, <2>5, StillMeans DEF GoesOn, Looks
<1>4. CASE LookupReturns(l)
  <2>1. /\ Still /\ step[l] = "named" /\ step'[l] = "request" /\ asked'[l] = now
        /\ resolved'[l] = resolved[l] /\ due'[l] = due[l] /\ fires'[l] = fires[l]
    BY <1>1, <1>4, LookupReturnsAt DEF Still
  <2>2. Truthful(l)' <=> Truthful(l) BY <2>1, StillMeans DEF Truthful, InRunTick
  <2>3. fires[l] # NULL /\ now <= Since => fires[l] <= Since + site.interval_seconds
    BY <1>1, <1>2 DEF OnSchedule, Numbers
  <2>4. Looks(l) => Looks(l)' BY <2>1, <2>2, <2>3, StillMeans DEF Looks
  <2> QED BY <2>1, <2>2, <2>4 DEF GoesOn
<1> QED BY <1>3, <1>4

\* What the request brings back is of the world, and so is what is made of it.
LEMMA AnswerGoesOn ==
    ASSUME Clocks, Schedules, NEW l \in Loops, SiteAnswers(l) \/ RunTickReturns(l)
    PROVE  Still /\ GoesOn(l)
<1>1. ClocksTyped /\ InFlight(l) BY DEF Clocks
<1>2. Numbers(l) /\ Since \in Nat BY <1>1, ClocksAreNumbers, SinceIsLatest
<1>3. /\ Still /\ asked'[l] = asked[l]
      /\ due'[l] = due[l] /\ fires'[l] = fires[l]
  BY <1>1, SiteAnswersAt, RunTickReturnsAt DEF Still
<1>4. Truthful(l) => Truthful(l)'
  <2>1. CASE SiteAnswers(l)
    <3>1. /\ step[l] = "request" /\ step'[l] = "answer" /\ resolved'[l] = resolved[l] /\ Still
          /\ \E reused \in BOOLEAN : seen'[l] = Response(world, now, reused)
      BY <1>1, <2>1, SiteAnswersAt DEF Still
    <3>2. (ComesFrom(seen[l], world))'
      BY <1>2, <3>1, StillMeans DEF ComesFrom, Numbers
    <3> QED BY <3>1, <3>2, StillMeans DEF Truthful, InRunTick
  <2>2. CASE RunTickReturns(l) /\ Truthful(l)
    <3>1. /\ step[l] = "answer" /\ step'[l] = "record" /\ Still
          /\ found'[l] = RunTick(site, resolved[l], seen[l], runSlow[l], now)
      BY <1>1, <2>2, RunTickReturnsAt DEF Still
    <3>2. /\ world \in Worlds /\ ComesFrom(seen[l], world)
          /\ world \in HealthyWorlds => resolved[l]
      BY <2>2, <3>1 DEF Truthful, ClocksTyped, Clocks, InRunTick
    <3>3. /\ world \in BrokenWorlds => ~found'[l].up
          /\ world \in HealthyWorlds => found'[l].up
      BY <1>1, <3>1, <3>2, ResultIsOutcome
    <3> QED BY <3>1, <3>3, StillMeans DEF Truthful, InRunTick
  <2> QED BY <2>1, <2>2
<1>5. Looks(l) => Looks(l)'
  <2>1. step[l] \in {"request", "answer"} /\ step'[l] \in {"answer", "record"}
    BY <1>1, SiteAnswersAt, RunTickReturnsAt
  <2>2. Since <= NextBy BY <1>2 DEF NextBy, Numbers
  <2>3. asked[l] <= Since => asked[l] <= NextBy BY <1>2, <2>2 DEF Numbers, NextBy
  <2> QED BY <1>3, <1>4, <2>1, <2>3, StillMeans DEF Looks
<1> QED BY <1>3, <1>4, <1>5 DEF GoesOn

\* A tick that says what the world is makes the database know it.
LEMMA TruthIsSeen ==
    ASSUME TypeOK, Clocks, NEW l \in Loops, Truthful(l), step[l] = "record",
           Record(l, found[l]), Still \/ world' = world
    PROVE  Seen'
<1> DEFINE o == found[l]
<1>1. /\ o \in Outcome
      /\ world \in BrokenWorlds => ~o.up
      /\ world \in HealthyWorlds => o.up
  BY OutcomesAssumption DEF Clocks, InFlight, Truthful
<1>2. db' = RecordTick(db, begun[l], o) /\ begun[l] # NULL BY DEF Record
<1> HIDE DEF o
<1>3. db \in DB /\ begun[l] \in Nat BY <1>2 DEF TypeOK, Nullable
<1>4. RecordTick(db, begun[l], o).state.current_up = IF o.up THEN 1 ELSE 0
  BY <1>1, <1>3, RecordTickParts
<1>5. UNCHANGED world BY StillMeans
<1> QED BY <1>1, <1>2, <1>4, <1>5 DEF Seen

\* What is left of a stale tick, once it is over, is the time of the next one.
LEMMA StaleTickIsOver ==
    ASSUME Clocks, Schedules, NEW l \in Loops, TickIsOver(l), Looks(l), ~Truthful(l),
           step[l] = "record", UNCHANGED losses
    PROVE  Looks(l)'
<1>1. ClocksTyped /\ OnSchedule(l) BY DEF Clocks, Schedules
<1>2. Numbers(l) /\ Since \in Nat /\ stalled <= Since BY <1>1, ClocksAreNumbers, SinceIsLatest
<1>3. /\ step'[l] = "wait" /\ due'[l] = due[l] /\ now' = now /\ UNCHANGED sites
      /\ fires'[l] = IF fires[l] = NULL THEN now + site.interval_seconds ELSE fires[l]
  BY <1>1, TickIsOverAt
<1>4. NextBy' = NextBy BY <1>3 DEF NextBy, Since, Later, sites, losses
<1>5. /\ asked[l] <= Since
      /\ fires[l] # NULL /\ ~due[l] => fires[l] <= Since + site.interval_seconds
  BY DEF Looks
<1>6. now <= Since + Timeout
  BY <1>1, <1>2, <1>5 DEF OnSchedule, Numbers
<1>7. now <= NextBy /\ (~due[l] => fires'[l] <= NextBy)
  BY <1>2, <1>3, <1>5, <1>6 DEF NextBy, Numbers
<1> QED BY <1>3, <1>4, <1>7 DEF Looks

LEMMA RecordKeepsWatch ==
    ASSUME TypeOK, Clocks, Schedules, Watched, NEW l \in Loops, TickIsOver(l),
           step[l] = "record", Record(l, found[l]), UNCHANGED losses
    PROVE  Watched'
<1>1. ClocksTyped BY DEF Clocks
<1>2. now' = now /\ UNCHANGED sites /\ step'[l] = "wait" BY <1>1, TickIsOverAt
<1>3. UNCHANGED <<now, site, world>> /\ Since' = Since /\ NextBy' = NextBy
  BY <1>2 DEF sites, losses, Since, Later, NextBy
<1>4. Truthful(l)' BY <1>2 DEF Truthful, InRunTick
<1>5. ASSUME NEW m \in Loops, m # l PROVE (Truthful(m)' <=> Truthful(m)) /\ (Looks(m)' <=> Looks(m))
  <2>1. Same(m) BY <1>1, <1>5, TickIsOverAt
  <2>2. Truthful(m)' <=> Truthful(m) BY <1>3, <2>1 DEF Truthful, Same, ComesFrom
  <2> QED BY <1>3, <2>1, <2>2 DEF Looks, Same
<1>6. CASE Truthful(l)
  <2>1. Seen' BY <1>3, <1>6, TruthIsSeen
  <2> QED BY <1>4, <1>5, <2>1 DEF Watched
<1>7. CASE ~Truthful(l)
  <2>1. Looks(l)' BY <1>7, StaleTickIsOver DEF Watched
  <2> QED BY <1>4, <1>5, <2>1 DEF Watched
<1> QED BY <1>6, <1>7

LEMMA SecondKeepsWatch ==
    ASSUME Clocks, Schedules, Watched, SecondPasses
    PROVE  Watched'
<1>1. ClocksTyped BY DEF Clocks
<1>2. /\ now' = now + 1 /\ UNCHANGED <<db, tick, sites, losses>>
      /\ \A l \in Loops :
            /\ due'[l] = (due[l] \/ fires[l] = now')
            /\ fires'[l] = IF fires[l] = now' THEN now' + site.interval_seconds ELSE fires[l]
            /\ step[l] = "wait" => ~due[l]
            /\ step[l] \notin Unbounded
  BY <1>1, ElapseAt DEF SecondPasses, Elapse, losses
<1>3. site' = site /\ world' = world /\ Since' = Since /\ NextBy' = NextBy /\ (Seen' <=> Seen)
  BY <1>2 DEF sites, losses, Since, Later, NextBy, Seen
<1>4. ASSUME NEW l \in Loops PROVE GoesOn(l)
  <2>1. Numbers(l) BY <1>1, ClocksAreNumbers
  <2>2. step[l] \in {"wait", "request", "answer"}
    BY <1>1, <1>2, TimesAreInts DEF Unbounded, Steps, InRunTick
  <2>3. /\ step'[l] = step[l] /\ resolved'[l] = resolved[l] /\ asked'[l] = asked[l]
        /\ seen'[l] = seen[l] /\ found'[l] = found[l]
    BY <1>2 DEF tick
  <2>4. ComesFrom(seen[l], world) => ComesFrom(seen[l], world)'
    BY <1>2, <1>3, <2>1, <2>3 DEF ComesFrom, Numbers
  <2>5. Truthful(l) => Truthful(l)'
    BY <1>3, <2>2, <2>3, <2>4 DEF Truthful, ComesFrom
  <2>6. Looks(l) => Looks(l)'
    <3>1. CASE step[l] = "wait" /\ Looks(l)
      <4>1. ~due[l] /\ fires[l] <= NextBy BY <1>2, <3>1 DEF Looks
      <4>2. (IF due'[l] THEN now' ELSE fires'[l]) <= NextBy
        BY <1>2, <2>1, <4>1
      <4> QED BY <1>3, <2>3, <3>1, <4>2 DEF Looks
    <3>2. CASE step[l] \in {"request", "answer"} /\ Looks(l)
      <4>1. Since \in Nat BY <1>1, SinceIsLatest
      <4>2. fires[l] # NULL /\ ~due[l] /\ ~due'[l] => fires'[l] = fires[l]
        BY <1>2
      <4>3. fires'[l] # NULL /\ ~due'[l] => fires[l] # NULL /\ ~due[l] /\ fires'[l] = fires[l]
        BY <1>2
      <4>4. asked[l] <= Since => asked[l] <= NextBy
        BY <2>1, <4>1 DEF NextBy, Numbers
      <4>5. IF Truthful(l)' THEN asked'[l] <= NextBy'
            ELSE /\ asked'[l] <= Since'
                 /\ fires'[l] # NULL /\ ~due'[l] => fires'[l] <= Since' + site'.interval_seconds
        BY <1>3, <2>3, <2>5, <3>2, <4>3, <4>4 DEF Looks
      <4> QED BY <2>3, <3>2, <4>5 DEF Looks
    <3> QED BY <2>2, <3>1, <3>2
  <2> QED BY <2>5, <2>6 DEF GoesOn
<1> QED BY <1>3, <1>4 DEF Watched, GoesOn

Timely == TypeOK /\ Clocks /\ Schedules /\ Watched

LEMMA NextTimely == Timely /\ [CheckingNext]_allvars => Timely'
<1> SUFFICES ASSUME Timely, [CheckingNext]_allvars PROVE Timely' OBVIOUS
<1> USE DEF Timely
<1>1. TypeOK' /\ Clocks' /\ Schedules' BY NextClocks, ChecksAreTicks, NextTypeOK, NextSchedules
<1>2. ClocksTyped /\ ClocksTyped' BY <1>1 DEF Clocks
<1>3. Since' = now' => Watched'
  <2>1. (Clocks /\ Schedules /\ Since = now => Watched)' BY WatchedFromNow, PTL
  <2> QED BY <1>1, <2>1
<1>4. changed' = now' \/ quiet' = now' \/ stalled' = now' => Watched'
  <2>1. /\ Since' \in Nat /\ Since' <= now'
        /\ changed' <= Since' /\ quiet' <= Since' /\ stalled' <= Since'
    <3>1. (ClocksTyped => Since \in Nat /\ Since <= now /\ changed <= Since
                          /\ quiet <= Since /\ stalled <= Since)'
      BY SinceIsLatest, PTL
    <3> QED BY <1>2, <3>1
  <2>2. now' \in Nat /\ changed' \in Nat /\ quiet' \in Nat /\ stalled' \in Int
    BY <1>2, ScheduleAssumption DEF ClocksTyped, NULL
  <2> QED BY <1>3, <2>1, <2>2
<1>5. ASSUME NEW l \in Loops, TickBegins(l) PROVE Watched'
  BY <1>2, <1>5, BeginGoesOn, GoingOnKeepsWatch, TickBeginsAt
<1>6. ASSUME NEW l \in Loops, NameIsAnswered(l) PROVE Watched'
  BY <1>2, <1>6, LookupGoesOn, GoingOnKeepsWatch, NameIsAnsweredAt
<1>7. ASSUME NEW l \in Loops, LookupReturns(l) PROVE Watched'
  BY <1>2, <1>7, LookupGoesOn, GoingOnKeepsWatch, LookupReturnsAt
<1>8. ASSUME NEW l \in Loops, SiteAnswers(l) PROVE Watched'
  BY <1>2, <1>8, AnswerGoesOn, GoingOnKeepsWatch, SiteAnswersAt
<1>9. ASSUME NEW l \in Loops, RunTickReturns(l) PROVE Watched'
  BY <1>2, <1>9, AnswerGoesOn, GoingOnKeepsWatch, RunTickReturnsAt
<1>10. ASSUME NEW l \in Loops, TickIsOver(l) PROVE Watched'
  <2>1. CASE quiet' = now
    BY <1>2, <1>4, <1>10, <2>1, TickIsOverAt
  <2>2. CASE step[l] = "record" /\ Record(l, found[l]) /\ UNCHANGED losses
    BY <1>10, <2>2, RecordKeepsWatch
  <2> QED BY <1>2, <1>10, <2>1, <2>2, TickIsOverAt
<1>11. CASE ProcessRestarts BY <1>1, <1>2, <1>4, <1>11, RestartAt
<1>12. CASE WorldChanges BY <1>1, <1>4, <1>12 DEF WorldChanges, vars
<1>13. CASE SecondPasses BY <1>1, <1>13, SecondKeepsWatch
<1>14. CASE SecondIsHeldUp BY <1>1, <1>4, <1>14 DEF SecondIsHeldUp
<1>15. CASE UNCHANGED allvars
  <2>1. Still /\ \A l \in Loops : Same(l)
    BY <1>15 DEF allvars, vars, cvars, timers, tick, Still, Same
  <2> QED BY <1>1, <2>1, SameGoesOn, StillMeans DEF Watched, GoesOn
<1> QED BY <1>1, <1>5, <1>6, <1>7, <1>8, <1>9, <1>10, <1>11, <1>12, <1>13, <1>14, <1>15
    DEF CheckingNext, TickIsOver

LEMMA AlwaysTimely == CheckingSpec => []Timely
<1>1. CheckingInit => Timely
  BY InitTypeOK, InitClocks, InitSchedules DEF Timely, CheckingInit
<1> QED BY <1>1, NextTimely, PTL DEF CheckingSpec

(***************************************************************************)
(* The slow checks are never further apart than their cadence, the time    *)
(* between two ticks and a request, whatever ticks are lost or dropped by  *)
(* a full ticker: a slow tick that comes too early is made one tick later. *)
(* A lookup or a write without end holds them up as long as it lasts, and  *)
(* no longer than a tick and a request more.                               *)
(***************************************************************************)
THEOREM SlowChecksInTime == CheckingSpec => []SlowChecksKeepUp
<1>1. Timely => SlowChecksKeepUp
  <2> SUFFICES ASSUME Timely, NEW l \in Loops, lastSlow[l] # NULL
               PROVE  \/ now - lastSlow[l]
                            < site.slow_interval_seconds + BetweenTicks + Timeout
                      \/ CatchingUp
    BY DEF SlowChecksKeepUp
  <2>1. ClocksTyped /\ OnSchedule(l) /\ Cadence(l) BY DEF Timely, Schedules, Clocks
  <2>2. Numbers(l) /\ step[l] \in Steps BY <2>1, ClocksAreNumbers, TimesAreInts
  <2>3. ASSUME NEW t \in Int, InTime(l, t), now <= t + Timeout
        PROVE  \/ now - lastSlow[l]
                     < site.slow_interval_seconds + BetweenTicks + Timeout
               \/ CatchingUp
    BY <2>2, <2>3 DEF InTime, CatchingUp, Numbers
  <2>4. CASE step[l] = "wait"
    BY <2>1, <2>2, <2>3, <2>4 DEF OnSchedule, Cadence, Numbers
  <2>5. CASE step[l] \in {"lookup", "named"}
    BY <2>1, <2>2, <2>3, <2>5 DEF Cadence, Numbers
  <2>6. CASE step[l] \in {"request", "answer"}
    <3>1. CASE TooEarly(l) BY <2>1, <2>2, <2>6, <3>1 DEF OnSchedule, TooEarly, Numbers
    <3>2. CASE InTime(l, asked[l])
      BY <2>1, <2>2, <2>3, <2>6, <3>2 DEF OnSchedule, Numbers
    <3> QED BY <2>1, <2>6, <3>1, <3>2 DEF Cadence
  <2>7. CASE step[l] = "record"
    <3>1. CASE TooEarly(l) /\ now <= asked[l] + Timeout
      BY <2>2, <3>1 DEF TooEarly, Numbers
    <3>2. CASE lastSlow[l] = now BY <2>2, <3>2 DEF Numbers
    <3>3. CASE stalled = now BY <2>2, <3>3 DEF CatchingUp, Numbers, NULL
    <3> QED BY <2>1, <2>7, <3>1, <3>2, <3>3 DEF Cadence
  <2> QED BY <2>2, <2>4, <2>5, <2>6, <2>7 DEF Steps, InRunTick
<1> QED BY <1>1, AlwaysTimely, PTL

(***************************************************************************)
(* An outage is in the database, with an incident open, within an interval *)
(* and two timeouts of its beginning, although what a tick has in flight   *)
(* may be from before it, if no tick is lost or held up meanwhile and the  *)
(* process does not start again; so is its end.                            *)
(***************************************************************************)
THEOREM HealthInTime == CheckingSpec => []HealthIsSeen
<1>1. Timely /\ IncidentAgreement => HealthIsSeen
  <2> SUFFICES ASSUME Timely, IncidentAgreement, Settled PROVE Seen
    BY DEF HealthIsSeen, OutageIsSeen, RecoveryIsSeen, Seen, IncidentAgreement, DownMeansOpen
  <2> SUFFICES ASSUME NEW l \in Loops, Looks(l) PROVE FALSE
    BY DEF Timely, Watched
  <2>1. ClocksTyped /\ OnSchedule(l) BY DEF Timely, Schedules, Clocks
  <2>2. Numbers(l) /\ step[l] \in Steps BY <2>1, ClocksAreNumbers, TimesAreInts
  <2>3. /\ Since \in Nat /\ Since \in {changed, quiet, stalled} /\ Since # NULL
        /\ stalled <= Since
    BY <2>1, SinceIsLatest DEF NULL
  <2>4. now - Since > site.interval_seconds + 2 * Timeout BY <2>3 DEF Settled
  <2>5. now > NextBy + Timeout /\ now > Since + Timeout /\ stalled # now /\ NextBy \in Int
    BY <2>2, <2>3, <2>4 DEF NextBy, Numbers
  <2>6. CASE step[l] = "wait"
    BY <2>1, <2>2, <2>5, <2>6 DEF Looks, OnSchedule, Numbers
  <2>7. CASE step[l] \in {"lookup", "named"}
    BY <2>2, <2>3, <2>5, <2>7 DEF Looks, Numbers
  <2>8. CASE step[l] \in {"request", "answer", "record"}
    <3>1. asked[l] <= NextBy \/ asked[l] <= Since BY <2>8 DEF Looks
    <3>2. now <= asked[l] + Timeout BY <2>1, <2>5, <2>8 DEF OnSchedule
    <3> QED BY <2>2, <2>3, <2>5, <3>1, <3>2 DEF Numbers
  <2> QED BY <2>2, <2>6, <2>7, <2>8 DEF Steps, InRunTick
<1>2. CheckingSpec => []IncidentAgreement BY CheckingImplementsSiteStore, Agreement, PTL
<1> QED BY <1>1, <1>2, AlwaysTimely, PTL

-----------------------------------------------------------------------------
(***************************************************************************)
(* percentile returns the quantile it was asked for, whatever the rows.    *)
(***************************************************************************)
THEOREM QuantilesAreRight == CheckingSpec => []PercentileIsQuantile
<1>1. TypeOK => PercentileIsQuantile
  <2> SUFFICES ASSUME TypeOK, NEW since \in Starts, NEW p \in Percents,
                      Cardinality(Latencies(db, since)) > 0
               PROVE
        LET rows == Latencies(db, since)
            v    == Percentile(db, since, p)
            n    == Cardinality(rows)
        IN  /\ 100 * Cardinality({i \in rows : db.results[i].response_ms <= v}) > p * n
            /\ 100 * Cardinality({i \in rows : db.results[i].response_ms < v}) <= p * n
    BY DEF PercentileIsQuantile
  <2> DEFINE rows == Latencies(db, since)
             n == Cardinality(rows)
             m == p * n
             k == m \div 100
             v == AtLatencyRank(db, rows, k)
             below == Cardinality({i \in rows : db.results[i].response_ms < v})
             upTo == Cardinality({i \in rows : db.results[i].response_ms <= v})
  <2>1. db \in DB BY DEF TypeOK
  <2>2. rows \in SUBSET DOMAIN db.results BY DEF Latencies, UpRows, RowsSince
  <2>3. n \in Nat /\ n > 0 BY <2>1, <2>2, RowsAreFinite
  <2>4. p \in 0..99 BY QueriesAssumption
  <2>5. m \in Nat /\ m < 100 * n
    <3> HIDE DEF n
    <3>1. m \in Nat /\ m <= 99 * n BY <2>3, <2>4
    <3> QED BY <2>3, <3>1
  <2>6. k \in 0..(n - 1) /\ 100 * k <= m /\ m < 100 * (k + 1)
    <3> HIDE DEF n, m
    <3> QED BY <2>3, <2>5
  <2>7. Percentile(db, since, p) = v
    <3>1. Offset(n, p) = k BY <2>3, <2>6 DEF Offset
    <3> QED BY <2>3, <2>6, <3>1 DEF Percentile, RowAtOffset
  <2>8. below <= k /\ upTo >= k + 1
    <3> HIDE DEF k, rows
    <3> QED BY <2>1, <2>2, <2>6, LatencyCounts
  <2>9. below \in Nat /\ upTo \in Nat
    <3>1. /\ {i \in rows : db.results[i].response_ms < v} \in SUBSET DOMAIN db.results
          /\ {i \in rows : db.results[i].response_ms <= v} \in SUBSET DOMAIN db.results
      BY <2>2
    <3> HIDE DEF v, rows
    <3> QED BY <2>1, <3>1, RowsAreFinite
  <2>10. 100 * upTo > m /\ 100 * below <= m
    <3> HIDE DEF k, m, below, upTo
    <3> QED BY <2>5, <2>6, <2>8, <2>9
  <2> QED BY <2>7, <2>10
<1> QED BY <1>1, CheckingImplementsSiteStore, TypeCorrect, PTL
-----------------------------------------------------------------------------
(***************************************************************************)
(* The list of incidents against the status.  An open incident has a       *)
(* failing run under it, so there is a row to head the list; the others    *)
(* are over, and lasted no less than no time because one loop records its  *)
(* ticks in time order.                                                    *)
(***************************************************************************)
LEMMA OpenIncidentHasARow ==
    ASSUME TypeOK, IncidentAgreement, Counting, IncidentsAreFailingRuns,
           db.state.current_incident_id # NULL
    PROVE  db.state.current_incident_id = Len(db.incidents) /\ Len(db.incidents) > 0
<1>1. db.results \in Seq(ResultRow) /\ db.incidents \in Seq(IncidentRow)
  BY DEF TypeOK, DB
<1>2. db.state.current_up = 0 BY DEF IncidentAgreement, DownMeansOpen
<1>3. Len(db.results) \in DOMAIN db.results /\ ~db.results[Len(db.results)].up
  BY <1>1, <1>2 DEF Counting, StateIsLastRow, NULL
<1>4. First(db.results) # {} BY <1>1, <1>3, FailuresStart
<1>5. DOMAIN db.incidents # {}
  BY <1>4 DEF IncidentsAreFailingRuns, FirstFailures, First
<1>6. Len(db.incidents) \in Nat /\ DOMAIN db.incidents = 1..Len(db.incidents) BY <1>1
<1> QED BY <1>5, <1>6 DEF IncidentAgreement, OpenIncidentIsNewest

LEMMA ListAgreesWithStatus ==
    ASSUME TypeOK, IncidentAgreement, Counting, IncidentsAreFailingRuns, IncidentsArePeriods
    PROVE  OngoingHeadsTheList
<1> DEFINE n == Len(db.incidents)
           open == db.state.current_incident_id
<1>1. db \in DB /\ db.incidents \in Seq(IncidentRow) BY DEF TypeOK, DB
<1>2. n \in Nat /\ DOMAIN db.incidents = 1..n BY <1>1
<1>3. open # NULL => open = n /\ n > 0 BY OpenIncidentHasARow
<1>4. Status(db).OngoingIncidentID = open BY DEF Status
<1> SUFFICES ASSUME NEW limit \in ListLimits
             PROVE  LET list == Incidents(db, limit)
                    IN  /\ open # NULL => list # <<>> /\ Head(list) = open
                        /\ \A k \in DOMAIN list :
                             LET length == Duration(db.incidents[list[k]])
                             IN  IF list[k] = open THEN length = NULL ELSE length >= 0
  BY <1>4 DEF OngoingHeadsTheList
<1> DEFINE list == Incidents(db, limit)
           m == IF limit <= n THEN limit ELSE n
<1>5. limit \in Nat /\ limit > 0 BY QueriesAssumption
<1>6. list = [k \in 1..m |-> n - k + 1] BY <1>2, <1>5, NewestFirst DEF Incidents
<1>7. m \in 0..n /\ (n > 0 => m > 0) BY <1>2, <1>5
<1>8. open # NULL => list # <<>> /\ Head(list) = open
  <2> SUFFICES ASSUME n > 0 PROVE list # <<>> /\ Head(list) = n BY <1>3
  <2>1. 1 \in DOMAIN list /\ list[1] = n BY <1>2, <1>6, <1>7
  <2>2. list \in Seq(Int) BY <1>2, <1>6, <1>7
  <2> HIDE DEF list
  <2> QED BY <2>1, <2>2
<1>9. ASSUME NEW k \in DOMAIN list
      PROVE  LET length == Duration(db.incidents[list[k]])
             IN  IF list[k] = open THEN length = NULL ELSE length >= 0
  <2> DEFINE i == list[k]
  <2>1. i \in 1..n BY <1>2, <1>6, <1>7
  <2>2. (db.incidents[i].resolved_at = NULL) <=> i = open
    BY <1>2, <2>1 DEF IncidentAgreement, OneOpenIncident
  <2>3. db.incidents[i].resolved_at # NULL
          => db.incidents[i].started_at <= db.incidents[i].resolved_at
    BY <1>2, <2>1 DEF IncidentsArePeriods
  <2>4. db.incidents[i].started_at \in Nat /\ db.incidents[i].resolved_at \in Int
    BY <1>1, <1>2, <2>1, TimesAreNumbers
  <2> HIDE DEF i
  <2> QED BY <2>2, <2>3, <2>4 DEF Duration, i
<1> QED BY <1>8, <1>9

(***************************************************************************)
(* With one loop, an ongoing incident heads every list of incidents and is *)
(* its only one without an end; the others lasted no less than no time.    *)
(***************************************************************************)
THEOREM OngoingIncidentFirst ==
    ASSUME \A l, m \in Loops : l = m
    PROVE  CheckingSpec => []OngoingHeadsTheList
<1>1. Spec => [](RowidOrdersByTime /\ IncidentsArePeriods) BY RowsInTimeOrder
<1>2. Spec => []Counting
  <2>1. Init => TypeOK /\ Counting BY InitTypeOK, InitCounting
  <2>2. TypeOK /\ Counting /\ [Next]_vars => (TypeOK /\ Counting)'
    BY NextTypeOK, NextCounting
  <2> QED BY <2>1, <2>2, PTL DEF Spec
<1> QED BY <1>1, <1>2, ListAgreesWithStatus, CheckingImplementsSiteStore, TypeCorrect,
           Agreement, IncidentsAreRuns, PTL
-----------------------------------------------------------------------------
(***************************************************************************)
(* The sum of the sizes of the classes of a finite set is its size.  The   *)
(* fold the sum is written with is a recursive function; the size of the   *)
(* part of the set that falls in a set of classes solves its equation, and *)
(* is its only solution (the smallest set of classes on which two          *)
(* solutions differ is not empty, and they agree without one class of it). *)
(***************************************************************************)
ChecksIn(points, K) ==
    LET iter[T \in SUBSET K] ==
            IF T = {} THEN 0
            ELSE LET x == CHOOSE x \in T : TRUE IN points[x].Checks + iter[T \ {x}]
    IN  iter[K]

LEMMA SumOfClasses ==
    ASSUME NEW S, IsFiniteSet(S), NEW K, IsFiniteSet(K), NEW class \in [S -> K], NEW points,
           \A b \in K : points[b].Checks = Cardinality({i \in S : class[i] = b})
    PROVE  ChecksIn(points, K) = Cardinality(S)
<1> DEFINE size(b) == points[b].Checks
           In(T) == {i \in S : class[i] \in T}
           pick(T) == CHOOSE x \in T : TRUE
           total == [T \in SUBSET K |-> Cardinality(In(T))]
           iter == CHOOSE g : g = [T \in SUBSET K |->
                       IF T = {} THEN 0 ELSE size(pick(T)) + g[T \ {pick(T)}]]
<1>1. \A T \in SUBSET K : IsFiniteSet(In(T)) /\ Cardinality(In(T)) \in Nat
  <2> SUFFICES ASSUME NEW T \in SUBSET K
               PROVE  IsFiniteSet(In(T)) /\ Cardinality(In(T)) \in Nat
    OBVIOUS
  <2>1. In(T) \subseteq S OBVIOUS
  <2> HIDE DEF In
  <2>2. IsFiniteSet(In(T)) BY <2>1, FS_Subset
  <2> QED BY <2>2, FS_CardinalityType
<1>2. ASSUME NEW T \in SUBSET K, T # {}
      PROVE  Cardinality(In(T)) = size(pick(T)) + Cardinality(In(T \ {pick(T)}))
  <2> DEFINE x == pick(T)
             A == {i \in S : class[i] = x}
             B == In(T \ {x})
  <2>1. x \in T /\ x \in K BY <1>2
  <2>2. size(x) = Cardinality(A) BY <2>1
  <2> HIDE DEF x
  <2>3. A \cup B = In(T) /\ A \cap B = {} /\ A \subseteq S BY <2>1
  <2>4. IsFiniteSet(A) BY <2>3, FS_Subset
  <2>5. IsFiniteSet(B) /\ T \ {x} \in SUBSET K BY <1>1
  <2> HIDE DEF A, B, In
  <2>6. Cardinality(A \cup B) = Cardinality(A) + Cardinality(B) - Cardinality(A \cap B)
    BY <2>4, <2>5, FS_Union
  <2>7. Cardinality(A \cap B) = 0 BY <2>3, FS_EmptySet
  <2>8. Cardinality(A) \in Nat /\ Cardinality(B) \in Nat BY <2>4, <2>5, FS_CardinalityType
  <2>9. Cardinality(In(T)) = size(x) + Cardinality(B)
    <3>1. Cardinality(In(T)) = Cardinality(A \cup B) BY <2>3
    <3> QED BY <2>2, <2>6, <2>7, <2>8, <3>1
  <2> QED BY <2>9 DEF B, x
<1>3. In({}) = {} /\ In(K) = S OBVIOUS
<1>4. Cardinality(In({})) = 0 BY <1>3, FS_EmptySet
<1> HIDE DEF In
<1>5. total = [T \in SUBSET K |->
                 IF T = {} THEN 0 ELSE size(pick(T)) + total[T \ {pick(T)}]]
  <2>1. \A T \in SUBSET K : total[T] = IF T = {} THEN 0
                                        ELSE size(pick(T)) + total[T \ {pick(T)}]
    BY <1>2, <1>4
  <2> HIDE DEF total, pick
  <2> QED BY <2>1 DEF total
<1>6. \A T \in SUBSET K : iter[T] = IF T = {} THEN 0
                                    ELSE size(pick(T)) + iter[T \ {pick(T)}]
  <2>1. iter = [T \in SUBSET K |->
                  IF T = {} THEN 0 ELSE size(pick(T)) + iter[T \ {pick(T)}]]
    <3> HIDE DEF total, pick
    <3> QED BY <1>5
  <2> HIDE DEF iter, pick
  <2> QED BY <2>1
<1>7. \A T \in SUBSET K : T # {} => pick(T) \in T OBVIOUS
<1>8. \A T \in SUBSET K : total[T] = IF T = {} THEN 0
                                     ELSE size(pick(T)) + total[T \ {pick(T)}]
  <2> HIDE DEF total, pick
  <2> QED BY <1>5
<1>9. ChecksIn(points, K) = iter[K] BY DEF ChecksIn
<1>10. total[K] = Cardinality(S) BY <1>3
<1> HIDE DEF total, iter, pick
<1>11. \A T \in SUBSET K : iter[T] = total[T]
  <2> DEFINE Bad == {T \in SUBSET K : iter[T] # total[T]}
             sizes == {n \in Nat : \E T \in Bad : n = Cardinality(T)}
  <2> SUFFICES ASSUME Bad # {} PROVE FALSE OBVIOUS
  <2>1. \A T \in SUBSET K : IsFiniteSet(T) /\ Cardinality(T) \in Nat
    BY FS_Subset, FS_CardinalityType
  <2>2. sizes \subseteq Nat /\ sizes # {} BY <2>1
  <2> HIDE DEF sizes
  <2>3. PICK n \in sizes : \A m \in sizes : n <= m BY <2>2, LeastNumber
  <2>4. PICK T \in Bad : n = Cardinality(T) BY DEF sizes
  <2>5. T \in SUBSET K /\ iter[T] # total[T] OBVIOUS
  <2>6. T # {} BY <1>6, <1>8, <2>5
  <2> DEFINE U == T \ {pick(T)}
  <2>7. U \in SUBSET K /\ pick(T) \in T BY <1>7, <2>5, <2>6
  <2>8. Cardinality(U) = n - 1 BY <2>1, <2>4, <2>5, <2>7, FS_RemoveElement
  <2>9. n - 1 \notin sizes BY <2>2, <2>3
  <2>10. U \notin Bad BY <2>1, <2>7, <2>8, <2>9 DEF sizes
  <2>11. iter[U] = total[U] BY <2>7, <2>10
  <2> QED BY <1>6, <1>8, <2>5, <2>6, <2>11
<1> QED BY <1>9, <1>10, <1>11
-----------------------------------------------------------------------------
(***************************************************************************)
(* A series: the buckets cover the window, and every row of the window has *)
(* one bucket, the last for the rows on the upper edge.                    *)
(***************************************************************************)
LEMMA FrameCovers ==
    ASSUME NEW start \in Int, NEW to \in Int, NEW n \in Int, start <= to
    PROVE  LET f == Frame(start, to, n)
           IN  /\ f.From = start /\ f.To = to
               /\ f.Buckets \in Nat \ {0} /\ f.BucketSeconds \in Nat \ {0}
               /\ f.From + f.Buckets * f.BucketSeconds >= f.To
<1> DEFINE c == Clamped(n)
           span == IF to - start <= 1 THEN 1 ELSE to - start
           w == (span + c - 1) \div c
<1>1. c \in Nat \ {0}
  <2>1. n > 0 => Min({n, MaxSeriesBuckets}) \in {n, MaxSeriesBuckets}
    <3> SUFFICES ASSUME n > 0
                 PROVE  \E x \in {n, MaxSeriesBuckets} : \A y \in {n, MaxSeriesBuckets} : x <= y
      BY DEF Min
    <3> QED BY DEF MaxSeriesBuckets
  <2> QED BY <2>1 DEF Clamped, DefaultSeriesBuckets, MaxSeriesBuckets
<1>2. Min({start, to}) = start
  <2>1. \A x \in {start, to} : (\A y \in {start, to} : x <= y) <=> x = start OBVIOUS
  <2> QED BY <2>1 DEF Min
<1>3. Max({to - start, 1}) = span
  <2>1. span \in {to - start, 1} OBVIOUS
  <2>2. \A x \in {to - start, 1} : (\A y \in {to - start, 1} : x >= y) <=> x = span OBVIOUS
  <2> QED BY <2>1, <2>2 DEF Max
<1>4. Frame(start, to, n) = [From |-> start, To |-> to, Buckets |-> c, BucketSeconds |-> w]
  BY <1>2, <1>3 DEF Frame
<1>5. span \in Nat /\ span > 0 /\ span >= to - start OBVIOUS
<1> HIDE DEF c, span
<1>6. w \in Nat /\ w > 0 /\ c * w >= span
  <2>1. span + c - 1 \in Nat BY <1>1, <1>5
  <2>2. w \in Nat /\ w * c <= span + c - 1 /\ span + c - 1 < w * c + c
    BY <1>1, <2>1, Division
  <2> HIDE DEF w
  <2>3. w * c \in Nat /\ w * c = c * w BY <1>1, <2>2
  <2>4. c * w >= span BY <1>1, <1>5, <2>2, <2>3
  <2>5. w # 0 BY <1>1, <1>5, <2>4
  <2> QED BY <2>2, <2>4, <2>5
<1> HIDE DEF w
<1>7. c * w \in Nat BY <1>1, <1>6
<1> QED BY <1>1, <1>4, <1>5, <1>6, <1>7

\* The bucket of a time in the window, and the edges of that bucket.
LEMMA BucketEdges ==
    ASSUME NEW start \in Int, NEW to \in Int, NEW n \in Int, start <= to,
           NEW f, f = Frame(start, to, n), NEW ts \in Int, f.From <= ts, ts <= f.To
    PROVE  LET b == Bucket(f, ts)
               w == f.BucketSeconds
           IN  /\ b \in 0..(f.Buckets - 1)
               /\ f.From + b * w <= ts
               /\ b + 1 \in 0..(f.Buckets - 1) => ts < f.From + (b + 1) * w
               /\ ts <= f.From + b * w + w
<1> DEFINE w == f.BucketSeconds
           c == f.Buckets
           q == (ts - f.From) \div w
           b == IF q <= c - 1 THEN q ELSE c - 1
<1>1. /\ f.From \in Int /\ c \in Nat \ {0} /\ w \in Nat \ {0}
      /\ f.From + c * w >= f.To /\ f.To \in Int
  BY FrameCovers
<1>2. ts - f.From \in Nat BY <1>1
<1>3. q \in Nat /\ q * w <= ts - f.From /\ ts - f.From < q * w + w
  <2> HIDE DEF w
  <2> QED BY <1>1, <1>2, Division
<1>4. Bucket(f, ts) = b
  <2> HIDE DEF q, c
  <2>1. b \in {q, c - 1} OBVIOUS
  <2>2. \A x \in {q, c - 1} : (\A y \in {q, c - 1} : x <= y) <=> x = b BY <1>1, <1>3
  <2>3. Min({q, c - 1}) = b BY <2>1, <2>2 DEF Min
  <2> QED BY <2>3 DEF Bucket, q, c
<1> HIDE DEF w, c, q
<1>5. b \in 0..(c - 1) BY <1>1, <1>3
<1>6. CASE q <= c - 1
  <2>1. b = q BY <1>6
  <2>2. q * w \in Int /\ (q + 1) * w = q * w + w BY <1>1, <1>3
  <2>3. /\ f.From + q * w <= ts /\ ts < f.From + (q + 1) * w
        /\ ts <= f.From + q * w + w
    BY <1>1, <1>3, <2>2
  <2> QED BY <1>4, <1>5, <2>1, <2>3 DEF w, c
<1>7. CASE ~(q <= c - 1)
  <2>1. b = c - 1 /\ b + 1 \notin 0..(c - 1) BY <1>1, <1>7
  <2>2. (c - 1) * w <= q * w /\ (c - 1) * w \in Int /\ q * w \in Int
    BY <1>1, <1>3, <1>7
  <2>3. (c - 1) * w + w = c * w BY <1>1
  <2>4. f.From + (c - 1) * w <= ts BY <1>1, <1>3, <2>2
  <2>5. ts <= f.From + (c - 1) * w + w BY <1>1, <2>2, <2>3
  <2> QED BY <1>4, <1>5, <2>1, <2>4, <2>5 DEF w, c
<1> QED BY <1>6, <1>7
LEMMA BucketsPartition ==
    ASSUME TypeOK, NEW start \in Starts, start <= now, NEW n \in BucketCounts,
           NEW f, f = Frame(start, now, n)
    PROVE  LET pts == Points(db, f)
           IN  /\ MapThenSumSet(LAMBDA b : pts[b].Checks, DOMAIN pts)
                     = Cardinality(RowsIn(db, f))
               /\ \A b \in DOMAIN pts : \A i \in RowsOf(db, f, b) :
                     /\ pts[b].TS <= db.results[i].ts
                     /\ b + 1 \in DOMAIN pts => db.results[i].ts < pts[b + 1].TS
                     /\ db.results[i].ts <= pts[b].TS + f.BucketSeconds
<1> DEFINE pts == Points(db, f)
           S == RowsIn(db, f)
           K == 0..(f.Buckets - 1)
           class == [i \in S |-> Bucket(f, db.results[i].ts)]
<1>1. db \in DB /\ start \in Int /\ now \in Int /\ n \in Int
  BY QueriesAssumption DEF TypeOK
<1>2. S \in SUBSET DOMAIN db.results BY DEF RowsIn, RowsSince
<1>3. IsFiniteSet(S) /\ \A i \in S : db.results[i].ts \in Nat
  <2> HIDE DEF S
  <2> QED BY <1>1, <1>2, RowsAreFinite
<1>4. f.Buckets \in Nat \ {0} BY <1>1, FrameCovers
<1>5. IsFiniteSet(K)
  <2>1. 0 \in Int /\ f.Buckets - 1 \in Int BY <1>4
  <2> QED BY <2>1, FS_Interval
<1>6. \A i \in S : f.From <= db.results[i].ts /\ db.results[i].ts <= f.To
  <2>1. \A i \in DOMAIN db.results : i \in RowsSince(db, f.From) => db.results[i].ts >= f.From
    BY DEF RowsSince
  <2>2. f.From \in Int BY <1>1, FrameCovers
  <2> QED BY <1>2, <1>3, <2>1, <2>2 DEF RowsIn
<1>7. ASSUME NEW i \in S
      PROVE  LET b == Bucket(f, db.results[i].ts)
                 w == f.BucketSeconds
             IN  /\ b \in K
                 /\ f.From + b * w <= db.results[i].ts
                 /\ b + 1 \in K => db.results[i].ts < f.From + (b + 1) * w
                 /\ db.results[i].ts <= f.From + b * w + w
  <2>1. db.results[i].ts \in Int /\ f.From <= db.results[i].ts /\ db.results[i].ts <= f.To
    BY <1>3, <1>6
  <2> DEFINE ts == db.results[i].ts
  <2> HIDE DEF ts
  <2>2. ts \in Int /\ f.From <= ts /\ ts <= f.To BY <2>1 DEF ts
  <2>3. LET b == Bucket(f, ts)
            w == f.BucketSeconds
        IN  /\ b \in K
            /\ f.From + b * w <= ts
            /\ b + 1 \in K => ts < f.From + (b + 1) * w
            /\ ts <= f.From + b * w + w
    BY <1>1, <2>2, BucketEdges
  <2> QED BY <2>3 DEF ts
<1>8. DOMAIN pts = K
      /\ \A b \in K : /\ pts[b].TS = f.From + b * f.BucketSeconds
                       /\ pts[b].Checks = Cardinality(RowsOf(db, f, b))
  BY DEF Points
<1>9. \A b : RowsOf(db, f, b) = {i \in S : Bucket(f, db.results[i].ts) = b} BY DEF RowsOf
<1>10. \A b : {i \in S : class[i] = b} = RowsOf(db, f, b) BY <1>9
<1>11. class \in [S -> K] BY <1>7
<1> HIDE DEF class, pts, S, K
<1>12. \A b \in K : pts[b].Checks = Cardinality({i \in S : class[i] = b}) BY <1>8, <1>10
<1>13. ChecksIn(pts, K) = Cardinality(S) BY <1>3, <1>5, <1>11, <1>12, SumOfClasses
<1>14. MapThenSumSet(LAMBDA b : pts[b].Checks, DOMAIN pts) = ChecksIn(pts, DOMAIN pts)
  BY DEF MapThenSumSet, MapThenFoldSet, ChecksIn
<1>15. ChecksIn(pts, DOMAIN pts) = Cardinality(S) BY <1>8, <1>13
<1>16. ASSUME NEW b \in DOMAIN pts, NEW i \in RowsOf(db, f, b)
       PROVE  /\ pts[b].TS <= db.results[i].ts
              /\ b + 1 \in DOMAIN pts => db.results[i].ts < pts[b + 1].TS
              /\ db.results[i].ts <= pts[b].TS + f.BucketSeconds
  <2>1. i \in S /\ Bucket(f, db.results[i].ts) = b /\ b \in K BY <1>8, <1>9
  <2> QED BY <1>7, <1>8, <2>1
<1>17. MapThenSumSet(LAMBDA b : pts[b].Checks, DOMAIN pts) = Cardinality(S)
  BY <1>14, <1>15 DEF MapThenSumSet, MapThenFoldSet
<1> QED BY <1>16, <1>17 DEF pts, S, MapThenSumSet, MapThenFoldSet

LEMMA LineLeavesOutTheSlowest ==
    ASSUME TypeOK, NEW f, NEW b \in DOMAIN P95s(db, f),
           Cardinality(UpRows(db, RowsOf(db, f, b))) > 1
    PROVE  Cardinality({i \in UpRows(db, RowsOf(db, f, b)) :
                            db.results[i].response_ms >= P95s(db, f)[b]}) > 1
<1> DEFINE rows == UpRows(db, RowsOf(db, f, b))
           n == Cardinality(rows)
           k == Cut(n) - 1
           v == AtLatencyRank(db, rows, k)
           above == {i \in rows : db.results[i].response_ms >= v}
<1>1. db \in DB /\ rows \in SUBSET DOMAIN db.results
  BY DEF TypeOK, UpRows, RowsOf, RowsIn, RowsSince
<1>2. n \in Nat /\ n > 1 /\ rows # {}
  <2>1. n \in Nat BY <1>1, RowsAreFinite
  <2> QED BY <2>1, FS_EmptySet
<1>3. k \in 0..(n - 2)
  <2> HIDE DEF n
  <2> DEFINE m == (n * 95) \div 100
             cut == IF m <= 1 THEN 1 ELSE m
  <2>1. m \in Nat /\ m < n BY <1>2
  <2> HIDE DEF m
  <2>2. cut \in {1, m} /\ \A x \in {1, m} : (\A y \in {1, m} : x >= y) <=> x = cut BY <2>1
  <2>3. Max({1, m}) = cut BY <2>2 DEF Max
  <2> QED BY <1>2, <2>1, <2>3 DEF Cut, m
<1>4. P95s(db, f)[b] = v BY <1>2 DEF P95s
<1>5. Cardinality(above) >= n - k
  <2>1. k \in 0..(n - 1) BY <1>2, <1>3
  <2> HIDE DEF rows, k
  <2> QED BY <1>1, <2>1, LatencyCounts
<1>6. Cardinality(above) \in Nat
  <2>1. above \in SUBSET DOMAIN db.results BY <1>1
  <2> HIDE DEF above
  <2> QED BY <1>1, <2>1, RowsAreFinite
<1>7. Cardinality(above) > 1
  <2> HIDE DEF above, n, k
  <2> QED BY <1>2, <1>3, <1>5, <1>6
<1> QED BY <1>4, <1>7

(***************************************************************************)
(* A series counts every check of its window once, in the bucket its time  *)
(* falls in, and its p95 line leaves out a lone slow answer.               *)
(***************************************************************************)
THEOREM SeriesAreSummaries == CheckingSpec => []SeriesSummarisesWindow
<1>1. TypeOK => SeriesPartitionsWindow
  BY BucketsPartition DEF SeriesPartitionsWindow, MapThenSumSet, MapThenFoldSet
<1>2. TypeOK => OutlierIsCutOff BY LineLeavesOutTheSlowest DEF OutlierIsCutOff
<1> QED BY <1>1, <1>2, CheckingImplementsSiteStore, TypeCorrect, PTL DEF SeriesSummarisesWindow
=============================================================================

------------------------- MODULE RecordTickTxProofs -------------------------
(***************************************************************************)
(* Theorems about RecordTickTx with its readers (SiteReads), for any       *)
(* number of loops and readers: the transactions of RecordTick are atomic, *)
(* so the statement-by-statement program implements SiteStore, and what a  *)
(* request puts together from several statements agrees with itself.       *)
(*                                                                         *)
(* The readers matter to the transactions in one way only: they hold the   *)
(* connection.  ReaderStep says so, and the first half reasons about that  *)
(* instead of about what is read.  The loops matter to the readers in one  *)
(* way only: tables grow (Grows), and the second half needs no more.       *)
(***************************************************************************)
EXTENDS SiteReads, SiteDBProofs, FiniteSetTheorems

ReaderStep ==
    /\ conn \notin Loops
    /\ conn' \in Readers \cup {Free}
    /\ UNCHANGED <<db, now, begun, base, at, found, tx, incident>>

TxNext == Next \/ ReaderStep

LEMMA ReadsAreSteps ==
    ASSUME conn \in Loops \cup Readers \cup {Free}, [ReadsNext]_allvars
    PROVE  [TxNext]_vars
<1>1. ASSUME NEW r \in Readers, Request(r) PROVE UNCHANGED vars
  BY <1>1 DEF Request
<1>2. ASSUME NEW r \in Readers, ReadStep(r) PROVE UNCHANGED vars \/ ReaderStep
  <2>1. r \notin Loops /\ Free \notin Loops BY FreeAssumption
  <2>2. CASE ReadStatus(r) BY <2>2 DEF ReadStatus, OneRow
  <2>3. CASE ReadTotals(r) BY <2>3 DEF ReadTotals, OneRow
  <2>4. CASE ReadUptime(r) BY <2>4 DEF ReadUptime, OneRow
  <2>5. CASE CountLatencies(r) BY <2>5 DEF CountLatencies, OneRow
  <2>6. CASE ReadRow(r) BY <2>6 DEF ReadRow, OneRow
  <2>7. CASE ReadFirst(r) BY <2>7 DEF ReadFirst, OneRow
  <2>8. CASE ReadResults(r) BY <2>8 DEF ReadResults, ReadList, OneRow
  <2>9. CASE ReadErrors(r) BY <2>9 DEF ReadErrors, ReadList, OneRow
  <2>10. CASE OpenRows(r, "points") \/ OpenRows(r, "p95")
    BY <2>1, <2>10 DEF OpenRows, ReaderStep
  <2>11. CASE CloseRows(r)
    BY <2>1, <2>11 DEF Scanning, CloseRows, ConnAfterRows, ReaderStep
  <2>12. CASE Respond(r) BY <2>12 DEF Respond
  <2>13. CASE ReadFails(r) BY <2>1, <2>13 DEF Scanning, ReadFails, ReaderStep
  <2> QED BY <1>2, <2>2, <2>3, <2>4, <2>5, <2>6, <2>7, <2>8, <2>9, <2>10, <2>11, <2>12, <2>13
          DEF ReadStep, Statement
<1>3. CASE UNCHANGED allvars BY <1>3 DEF allvars
<1>4. CASE ReadsCrash BY <1>4 DEF ReadsCrash, TxNext, Next
<1> QED BY <1>1, <1>2, <1>3, <1>4 DEF ReadsNext, TxNext, Next

-----------------------------------------------------------------------------
(***************************************************************************)
(* Types, the connection, and the stamp of the tick in flight.             *)
(***************************************************************************)
TickHasBegun == \A l \in Loops : (at[l] = "idle") <=> (begun[l] = NULL)

Discipline == TypeOK /\ OneTransaction /\ TickHasBegun

LEMMA NoTickType == NoTick \in Outcomes
BY OutcomesAssumption DEF NoTick

LEMMA IncidentAfterType ==
    ASSUME NEW d \in DB, NEW o \in Outcome
    PROVE  IncidentAfter(d, o) \in Nullable
BY DEF IncidentAfter, DB, StateRow, Nullable

LEMMA InitDiscipline == Init => Discipline
<1> SUFFICES ASSUME Init PROVE Discipline
  OBVIOUS
<1>1. TypeOK
  BY FreshDBType, NoTickType DEF Init, TypeOK, Nullable, Statements
<1>2. OneTransaction /\ TickHasBegun
  BY FreeAssumption DEF Init, OneTransaction, TickHasBegun, Statements
<1> QED BY <1>1, <1>2 DEF Discipline

\* What Return leaves behind, whether the tick was committed or not.
LEMMA ReturnDiscipline ==
    ASSUME Discipline, NEW l \in Loops, Return(l), db' \in DB, tx' \in DB
    PROVE  Discipline'
<1> USE DEF Discipline, Return, ConnAfter
<1>1. TypeOK'
  BY NoTickType DEF TypeOK, Nullable, Statements
<1>2. OneTransaction'
  BY FreeAssumption DEF TypeOK, OneTransaction, Statements
<1>3. TickHasBegun'
  BY DEF TypeOK, TickHasBegun
<1> QED BY <1>1, <1>2, <1>3

\* A statement keeps the transaction open, in the same loop.
LEMMA ExecDiscipline ==
    ASSUME Discipline, NEW l \in Loops, NEW here \in Statements, NEW next \in Statements,
           NEW result \in DB, Exec(l, here, next, result), incident' \in Nullable
    PROVE  Discipline'
<1> USE DEF Discipline, Exec
<1>1. TypeOK' BY DEF TypeOK, Statements
<1>2. OneTransaction' BY DEF TypeOK, OneTransaction, Statements
<1>3. TickHasBegun' BY DEF TypeOK, TickHasBegun, Statements
<1> QED BY <1>1, <1>2, <1>3

\* A loop that is past "idle" has stamped its tick.
LEMMA StampIsTime ==
    ASSUME Discipline, NEW l \in Loops, at[l] # "idle"
    PROVE  begun[l] \in Nat /\ found[l] \in Outcome
BY OutcomesAssumption DEF Discipline, TypeOK, TickHasBegun, Nullable

LEMMA StepDiscipline ==
    ASSUME Discipline, NEW l \in Loops, Step(l)
    PROVE  Discipline'
<1>1. ASSUME NEW o \in Outcomes, RunTickReturns(l, o) PROVE Discipline'
  BY <1>1, OutcomesAssumption
     DEF RunTickReturns, Discipline, TypeOK, OneTransaction, TickHasBegun, Statements
<1>2. CASE BeginTx(l)
  BY <1>2, FreeAssumption
     DEF BeginTx, Discipline, TypeOK, OneTransaction, TickHasBegun, Statements
<1>3. ASSUME at[l] \in Statements
      PROVE  tx \in DB /\ begun[l] \in Nat /\ found[l] \in Outcome /\ incident \in Nullable
  BY <1>3, StampIsTime DEF Discipline, TypeOK, Statements
<1>4. CASE ExecInsert(l)
  <2>1. InsertResult(tx, begun[l], found[l]) \in DB
    BY <1>3, <1>4, InsertResultParts DEF ExecInsert, Exec, Statements
  <2> QED BY <1>3, <1>4, <2>1, ExecDiscipline DEF ExecInsert, Exec, Statements
<1>5. CASE ExecReconcile(l)
  <2>1. at[l] \in Statements BY <1>5 DEF ExecReconcile, Exec, Statements
  <2>2. ReconcileIncident(tx, begun[l], found[l]) \in DB
    BY <1>3, <2>1, ReconcileParts
  <2>3. incident' \in Nullable
    BY <1>3, <1>5, <2>1, IncidentAfterType DEF ExecReconcile
  <2> QED BY <1>5, <2>2, <2>3, ExecDiscipline DEF ExecReconcile, Statements
<1>6. CASE ExecLog(l)
  <2>1. LogErrors(tx, begun[l], found[l]) \in DB
    BY <1>3, <1>6, LogErrorsParts DEF ExecLog, Exec, Statements
  <2> QED BY <1>3, <1>6, <2>1, ExecDiscipline DEF ExecLog, Exec, Statements
<1>7. CASE ExecUpdate(l)
  <2>1. UpdateState(tx, begun[l], found[l], incident) \in DB
    BY <1>3, <1>7, UpdateStateParts DEF ExecUpdate, Exec, Statements
  <2> QED BY <1>3, <1>7, <2>1, ExecDiscipline DEF ExecUpdate, Exec, Statements
<1>8. CASE Commit(l)
  BY <1>8, ReturnDiscipline DEF Commit, Discipline, TypeOK
<1>9. CASE Fail(l)
  BY <1>9, ReturnDiscipline DEF Fail, DbAfterFailure, Discipline, TypeOK
<1> QED BY <1>1, <1>2, <1>4, <1>5, <1>6, <1>7, <1>8, <1>9 DEF Step

LEMMA NextDiscipline == Discipline /\ [TxNext]_vars => Discipline'
<1> SUFFICES ASSUME Discipline, [TxNext]_vars PROVE Discipline'
  OBVIOUS
<1> USE DEF Discipline
<1>1. ASSUME NEW l \in Loops, Begin(l) PROVE Discipline'
  BY <1>1 DEF Begin, TypeOK, OneTransaction, TickHasBegun, Nullable, NULL, Statements
<1>2. ASSUME NEW l \in Loops, Step(l) PROVE Discipline'
  BY <1>2, StepDiscipline
<1>3. CASE Crash
  BY <1>3, FreeAssumption, NoTickType
     DEF Crash, TypeOK, OneTransaction, TickHasBegun, Nullable, Statements
<1>4. CASE Pass
  BY <1>4 DEF Pass, TypeOK, OneTransaction, TickHasBegun
<1>5. CASE ReaderStep
  BY <1>5, FreeAssumption DEF ReaderStep, TypeOK, OneTransaction, TickHasBegun
<1>6. CASE UNCHANGED vars
  BY <1>6 DEF vars, TypeOK, OneTransaction, TickHasBegun
<1> QED BY <1>1, <1>2, <1>3, <1>4, <1>5, <1>6 DEF TxNext, Next

-----------------------------------------------------------------------------
(***************************************************************************)
(* The open transaction.  Whoever holds the connection sees the committed  *)
(* database with the statements it has run so far, and the incident it     *)
(* computed from the state row is the one RecordTick computes: nothing     *)
(* commits between two statements of a transaction.                        *)
(***************************************************************************)
Stage(l) ==
    LET ts == begun[l]
        o == found[l]
        inserted == InsertResult(db, ts, o)
        reconciled == ReconcileIncident(inserted, ts, o)
    IN  /\ at[l] = "insert" => tx = db
        /\ at[l] = "reconcile" => tx = inserted
        /\ at[l] = "log" => tx = reconciled
        /\ at[l] = "update" => tx = LogErrors(reconciled, ts, o)
        /\ at[l] \in {"log", "update"} => incident = IncidentAfter(db, o)
        /\ at[l] = "commit" => tx = RecordTick(db, ts, o)

Staged == \A l \in Loops : Stage(l)

\* The insert leaves what the incident is computed from alone.
LEMMA IncidentAfterInsert ==
    ASSUME NEW d \in DB, NEW ts \in Nat, NEW o \in Outcome
    PROVE  IncidentAfter(InsertResult(d, ts, o), o) = IncidentAfter(d, o)
<1>1. /\ InsertResult(d, ts, o).state = d.state
      /\ InsertResult(d, ts, o).incidents = d.incidents
  BY InsertResultParts
<1> HIDE DEF InsertResult
<1> QED BY <1>1 DEF IncidentAfter

\* A step of another loop that leaves the database and the transaction of
\* loop m alone.
LEMMA StageStays ==
    ASSUME NEW m \in Loops, Stage(m), at'[m] = at[m], begun'[m] = begun[m],
           found'[m] = found[m],
           at[m] \in Statements => UNCHANGED <<db, tx, incident>>
    PROVE  Stage(m)'
BY DEF Stage, Statements

\* A loop outside a transaction has nothing staged.
LEMMA NothingStaged ==
    ASSUME NEW m \in Loops, at'[m] \notin Statements
    PROVE  Stage(m)'
BY DEF Stage, Statements

LEMMA ExecStage ==
    ASSUME Discipline, Staged, NEW l \in Loops, NEW here \in Statements,
           NEW next, NEW result, Exec(l, here, next, result), Stage(l)'
    PROVE  Staged'
<1> SUFFICES ASSUME NEW m \in Loops PROVE Stage(m)'
  BY DEF Staged
<1>1. CASE m = l BY <1>1
<1>2. CASE m # l
  <2>1. conn = l /\ at'[m] = at[m] /\ at[m] \notin Statements
    BY <1>2 DEF Exec, Discipline, TypeOK, OneTransaction
  <2> QED BY <2>1, NothingStaged
<1> QED BY <1>1, <1>2

LEMMA ReturnStage ==
    ASSUME Discipline, Staged, NEW l \in Loops, Return(l),
           conn = l \/ UNCHANGED <<db, tx>>
    PROVE  Staged'
<1> SUFFICES ASSUME NEW m \in Loops PROVE Stage(m)'
  BY DEF Staged
<1>1. CASE m = l
  <2>1. at'[m] = "idle" BY <1>1 DEF Return, Discipline, TypeOK
  <2> QED BY <2>1, NothingStaged DEF Statements
<1>2. CASE m # l
  <2>1. at'[m] = at[m] /\ begun'[m] = begun[m] /\ found'[m] = found[m]
    BY <1>2 DEF Return, Discipline, TypeOK
  <2>2. CASE at[m] \notin Statements BY <2>1, <2>2, NothingStaged
  <2>3. CASE at[m] \in Statements
    <3>1. conn = m BY <2>3 DEF Discipline, OneTransaction
    <3>2. UNCHANGED <<db, tx, incident>> BY <1>2, <3>1 DEF Return
    <3> QED BY <2>1, <3>2, StageStays DEF Staged
  <2> QED BY <2>2, <2>3
<1> QED BY <1>1, <1>2

LEMMA StepStaged ==
    ASSUME Discipline, Staged, NEW l \in Loops, Step(l)
    PROVE  Staged'
<1>1. ASSUME NEW o \in Outcomes, RunTickReturns(l, o) PROVE Staged'
  <2> SUFFICES ASSUME NEW m \in Loops PROVE Stage(m)'
    BY DEF Staged
  <2>1. CASE m = l
    <3>1. at'[m] = "wait" BY <1>1, <2>1 DEF RunTickReturns, Discipline, TypeOK
    <3> QED BY <3>1, NothingStaged DEF Statements
  <2>2. CASE m # l
    BY <1>1, <2>2, StageStays DEF RunTickReturns, Discipline, TypeOK, Staged
  <2> QED BY <2>1, <2>2
<1>2. CASE BeginTx(l)
  <2> SUFFICES ASSUME NEW m \in Loops PROVE Stage(m)'
    BY DEF Staged
  <2>1. CASE m = l
    <3>1. at'[m] = "insert" /\ tx' = db' BY <1>2, <2>1 DEF BeginTx, Discipline, TypeOK
    <3> QED BY <3>1 DEF Stage
  <2>2. CASE m # l
    <3>1. conn # m BY <1>2, FreeAssumption DEF BeginTx
    <3>2. at'[m] = at[m] /\ at[m] \notin Statements
      BY <1>2, <2>2, <3>1 DEF BeginTx, Discipline, TypeOK, OneTransaction
    <3> QED BY <3>2, NothingStaged
  <2> QED BY <2>1, <2>2
<1> DEFINE ts == begun[l]
           o == found[l]
<1>3. ASSUME at[l] \in Statements PROVE ts \in Nat /\ o \in Outcome /\ db \in DB
  BY <1>3, StampIsTime DEF Discipline, TypeOK, Statements
<1>4. CASE ExecInsert(l)
  <2>1. /\ at'[l] = "reconcile" /\ tx = db /\ tx' = InsertResult(tx, ts, o)
        /\ UNCHANGED <<db, begun, found>>
    BY <1>4 DEF ExecInsert, Exec, Discipline, TypeOK, Staged, Stage
  <2>2. Stage(l)' BY <2>1 DEF Stage
  <2> QED BY <1>4, <2>2, ExecStage DEF ExecInsert, Statements
<1>5. CASE ExecReconcile(l)
  <2>1. /\ at'[l] = "log" /\ tx = InsertResult(db, ts, o)
        /\ tx' = ReconcileIncident(tx, ts, o) /\ incident' = IncidentAfter(tx, o)
        /\ UNCHANGED <<db, begun, found>>
    BY <1>5 DEF ExecReconcile, Exec, Discipline, TypeOK, Staged, Stage
  <2>2. incident' = IncidentAfter(db, o)
    BY <1>3, <1>5, <2>1, IncidentAfterInsert DEF ExecReconcile, Exec, Statements
  <2>3. Stage(l)' BY <2>1, <2>2 DEF Stage
  <2> QED BY <1>5, <2>3, ExecStage DEF ExecReconcile, Statements
<1>6. CASE ExecLog(l)
  <2>1. /\ at'[l] = "update" /\ incident = IncidentAfter(db, o)
        /\ tx = ReconcileIncident(InsertResult(db, ts, o), ts, o)
        /\ tx' = LogErrors(tx, ts, o)
        /\ UNCHANGED <<db, begun, found, incident>>
    BY <1>6 DEF ExecLog, Exec, Discipline, TypeOK, Staged, Stage
  <2>2. Stage(l)' BY <2>1 DEF Stage
  <2> QED BY <1>6, <2>2, ExecStage DEF ExecLog, Statements
<1>7. CASE ExecUpdate(l)
  <2>1. /\ at'[l] = "commit" /\ incident = IncidentAfter(db, o)
        /\ tx = LogErrors(ReconcileIncident(InsertResult(db, ts, o), ts, o), ts, o)
        /\ tx' = UpdateState(tx, ts, o, incident)
        /\ UNCHANGED <<db, begun, found>>
    BY <1>7 DEF ExecUpdate, Exec, Discipline, TypeOK, Staged, Stage
  <2>2. tx' = RecordTick(db, ts, o) BY <2>1 DEF RecordTick
  <2>3. Stage(l)' BY <2>1, <2>2 DEF Stage
  <2> QED BY <1>7, <2>3, ExecStage DEF ExecUpdate, Statements
<1>8. CASE Commit(l)
  <2>1. conn = l BY <1>8 DEF Commit, Discipline, OneTransaction, Statements
  <2> QED BY <1>8, <2>1, ReturnStage DEF Commit
<1>9. CASE Fail(l)
  BY <1>9, ReturnStage DEF Fail, DbAfterFailure
<1> QED BY <1>1, <1>2, <1>4, <1>5, <1>6, <1>7, <1>8, <1>9 DEF Step

LEMMA NextStaged == Discipline /\ Staged /\ [TxNext]_vars => Staged'
<1> SUFFICES ASSUME Discipline, Staged, [TxNext]_vars PROVE Staged'
  OBVIOUS
<1>1. ASSUME NEW l \in Loops, Begin(l) PROVE Staged'
  <2> SUFFICES ASSUME NEW m \in Loops PROVE Stage(m)'
    BY DEF Staged
  <2>1. CASE m = l
    <3>1. at'[m] = "checking" BY <1>1, <2>1 DEF Begin, Discipline, TypeOK
    <3> QED BY <3>1, NothingStaged DEF Statements
  <2>2. CASE m # l
    BY <1>1, <2>2, StageStays DEF Begin, Discipline, TypeOK, Staged
  <2> QED BY <2>1, <2>2
<1>2. ASSUME NEW l \in Loops, Step(l) PROVE Staged'
  BY <1>2, StepStaged
<1>3. CASE Crash
  BY <1>3, NothingStaged DEF Crash, Staged, Statements
<1>4. CASE Pass \/ ReaderStep \/ UNCHANGED vars
  BY <1>4, StageStays DEF Pass, ReaderStep, vars, Staged
<1> QED BY <1>1, <1>2, <1>3, <1>4 DEF TxNext, Next

-----------------------------------------------------------------------------
(***************************************************************************)
(* Room for the rows: a bound of the model, needed because SiteStore has   *)
(* the same one.  Each loop that is recording has a row reserved.          *)
(***************************************************************************)
RoomForRows ==
    Recording # {} => Len(db.results) + Cardinality(Recording) <= MaxRows

LEMMA RecordingIsFinite ==
    /\ IsFiniteSet(Recording) /\ IsFiniteSet(Recording')
    /\ Cardinality(Recording) \in Nat /\ Cardinality(Recording') \in Nat
<1>1. Recording \subseteq Loops /\ Recording' \subseteq Loops
  BY DEF Recording
<1> QED BY <1>1, BoundsAssumption, FS_Subset, FS_CardinalityType

\* The tick of loop l is over; if it was committed, one row was added.
LEMMA ReturnRoom ==
    ASSUME Discipline, RoomForRows, NEW l \in Loops, Return(l),
           db' = db \/ (l \in Recording /\ Len(db'.results) = Len(db.results) + 1)
    PROVE  RoomForRows'
<1>1. Recording' = Recording \ {l}
  BY DEF Recording, Return, Discipline, TypeOK, Statements
<1>2. Len(db.results) \in Nat BY DEF Discipline, TypeOK, DB
<1>3. l \in Recording => Cardinality(Recording') = Cardinality(Recording) - 1
  BY <1>1, RecordingIsFinite, FS_RemoveElement
<1>4. l \notin Recording => Recording' = Recording BY <1>1
<1> DEFINE c == Cardinality(Recording)
           d == Cardinality(Recording')
           n == Len(db.results)
           m == Len(db'.results)
<1>5. c \in Nat /\ d \in Nat /\ n \in Nat /\ MaxRows \in Nat
  BY <1>2, RecordingIsFinite, BoundsAssumption
<1>6. (m = n /\ d \in {c, c - 1}) \/ (m = n + 1 /\ d = c - 1)
  BY <1>3, <1>4
<1>7. ASSUME Recording' # {} PROVE m + d <= MaxRows
  <2>1. Recording # {} BY <1>1, <1>7
  <2>2. n + c <= MaxRows BY <2>1 DEF RoomForRows
  <2> HIDE DEF c, d, n, m
  <2> QED BY <1>5, <1>6, <2>2
<1> QED BY <1>7 DEF RoomForRows

LEMMA CommitAddsRow ==
    ASSUME Discipline, Staged, NEW l \in Loops, Commit(l)
    PROVE  /\ db' = RecordTick(db, begun[l], found[l])
           /\ Len(db'.results) = Len(db.results) + 1
<1>1. begun[l] \in Nat /\ found[l] \in Outcome /\ db \in DB
  BY StampIsTime DEF Commit, Discipline, TypeOK
<1>2. db' = RecordTick(db, begun[l], found[l])
  BY DEF Commit, Staged, Stage
<1>3. db.results \in Seq(ResultRow) BY <1>1 DEF DB
<1> DEFINE row == [ts |-> begun[l], up |-> found[l].up,
                   response_ms |-> found[l].response_ms]
<1>4. db'.results = Append(db.results, row)
  BY <1>1, <1>2, RecordTickParts
<1> HIDE DEF row
<1>5. Len(db'.results) = Len(db.results) + 1 BY <1>3, <1>4
<1> QED BY <1>2, <1>5

LEMMA NextRoom == Discipline /\ Staged /\ RoomForRows /\ [TxNext]_vars => RoomForRows'
<1> SUFFICES ASSUME Discipline, Staged, RoomForRows, [TxNext]_vars PROVE RoomForRows'
  OBVIOUS
<1>1. ASSUME NEW l \in Loops, NEW o \in Outcomes, RunTickReturns(l, o) PROVE RoomForRows'
  <2>1. l \notin Recording /\ Recording' = Recording \cup {l} /\ db' = db
    BY <1>1 DEF RunTickReturns, Recording, Discipline, TypeOK, Statements
  <2>2. Cardinality(Recording') = Cardinality(Recording) + 1
    BY <2>1, RecordingIsFinite, FS_AddElement
  <2>3. Len(db.results) \in Nat BY DEF Discipline, TypeOK, DB
  <2>4. Len(db.results) + Cardinality(Recording) < MaxRows
    BY <1>1 DEF RunTickReturns
  <2> QED BY <2>1, <2>2, <2>3, <2>4, RecordingIsFinite, BoundsAssumption DEF RoomForRows
<1>2. ASSUME NEW l \in Loops, Commit(l) PROVE RoomForRows'
  <2>1. l \in Recording BY <1>2 DEF Commit, Recording, Statements
  <2> QED BY <1>2, <2>1, CommitAddsRow, ReturnRoom DEF Commit
<1>3. ASSUME NEW l \in Loops, Fail(l) PROVE RoomForRows'
  BY <1>3, ReturnRoom DEF Fail, DbAfterFailure
<1>4. ASSUME Recording' = Recording, db' = db PROVE RoomForRows'
  BY <1>4 DEF RoomForRows
<1>5. ASSUME NEW l \in Loops, Begin(l) PROVE RoomForRows'
  BY <1>4, <1>5 DEF Begin, Recording, Discipline, TypeOK, Statements
<1>6. ASSUME NEW l \in Loops, BeginTx(l) PROVE RoomForRows'
  BY <1>4, <1>6 DEF BeginTx, Recording, Discipline, TypeOK, Statements
<1>7. ASSUME NEW l \in Loops, ExecInsert(l) \/ ExecReconcile(l) \/ ExecLog(l) \/ ExecUpdate(l)
      PROVE  RoomForRows'
  BY <1>4, <1>7 DEF ExecInsert, ExecReconcile, ExecLog, ExecUpdate, Exec,
                    Recording, Discipline, TypeOK, Statements
<1>8. CASE Crash
  <2>1. Recording' = {} BY <1>8 DEF Crash, Recording, Statements
  <2> QED BY <2>1 DEF RoomForRows
<1>9. CASE Pass \/ ReaderStep \/ UNCHANGED vars
  BY <1>4, <1>9 DEF Pass, ReaderStep, vars, Recording
<1> QED BY <1>1, <1>2, <1>3, <1>5, <1>6, <1>7, <1>8, <1>9 DEF TxNext, Next, Step

-----------------------------------------------------------------------------
(***************************************************************************)
(* The refinement.                                                         *)
(***************************************************************************)
TxInv == Discipline /\ Staged /\ RoomForRows

LEMMA InitTxInv == Init => TxInv
<1> SUFFICES ASSUME Init PROVE TxInv
  OBVIOUS
<1>1. Staged BY DEF Init, Staged, Stage
<1>2. RoomForRows BY DEF Init, RoomForRows, Recording, Statements
<1> QED BY <1>1, <1>2, InitDiscipline DEF TxInv

LEMMA NextTxInv == TxInv /\ [TxNext]_vars => TxInv'
BY NextDiscipline, NextStaged, NextRoom DEF TxInv

\* SiteStore speaks of the same statements.
LEMMA SameRecordTick ==
    ASSUME NEW d, NEW ts, NEW o
    PROVE  SS!RecordTick(d, ts, o) = RecordTick(d, ts, o)
<1>1. SS!NULL = NULL BY DEF SS!NULL, NULL
<1>2. /\ SS!InsertResult(d, ts, o) = InsertResult(d, ts, o)
      /\ SS!IncidentAfter(d, o) = IncidentAfter(d, o)
  BY <1>1 DEF SS!InsertResult, InsertResult, SS!IncidentAfter, IncidentAfter,
              SS!Opens, Opens, SS!Recovers, Recovers
<1>3. ASSUME NEW e
      PROVE  SS!ReconcileIncident(e, ts, o) = ReconcileIncident(e, ts, o)
  <2>1. /\ SS!Opens(e.state, o) <=> Opens(e.state, o)
        /\ SS!Resolves(e.state, o) <=> Resolves(e.state, o)
    BY <1>1 DEF SS!Opens, Opens, SS!Resolves, Resolves, SS!Recovers, Recovers
  <2>2. /\ SS!OpenIncident(e, ts) = OpenIncident(e, ts)
        /\ SS!ResolveIncident(e, ts) = ResolveIncident(e, ts)
    BY <1>1 DEF SS!OpenIncident, OpenIncident, SS!ResolveIncident, ResolveIncident
  <2> QED BY <2>1, <2>2 DEF SS!ReconcileIncident, ReconcileIncident
<1>4. ASSUME NEW e PROVE SS!LogErrors(e, ts, o) = LogErrors(e, ts, o)
  BY DEF SS!LogErrors, LogErrors
<1>5. ASSUME NEW e, NEW i
      PROVE  SS!UpdateState(e, ts, o, i) = UpdateState(e, ts, o, i)
  <2>1. SS!FailsAfter(e.state, o) = FailsAfter(e.state, o)
    BY DEF SS!FailsAfter, FailsAfter
  <2> QED BY <1>1, <2>1 DEF SS!UpdateState, UpdateState
<1> QED BY <1>2, <1>3, <1>4, <1>5 DEF SS!RecordTick, RecordTick

LEMMA InitRefines == Init => SS!Init
BY DEF Init, SS!Init, NewDB, SS!NewDB, UpgradedDB, SS!UpgradedDB, NULL, SS!NULL

\* Every step is a step of SiteStore or leaves the committed database, the
\* stamps and the clock alone.
LEMMA TxNextRefines == TxInv /\ [TxNext]_vars => [SS!Next]_SS!vars
<1> SUFFICES ASSUME TxInv, [TxNext]_vars PROVE SS!Next \/ UNCHANGED SS!vars
  OBVIOUS
<1> USE DEF TxInv
<1>0. SS!NULL = NULL BY DEF SS!NULL, NULL
<1>1. ASSUME NEW l \in Loops, Begin(l) PROVE SS!Next
  <2>1. begun[l] = NULL BY <1>1 DEF Begin, Discipline, TickHasBegun
  <2>2. SS!Begin(l) BY <1>0, <1>1, <2>1 DEF Begin, SS!Begin
  <2> QED BY <2>2 DEF SS!Next
<1>2. ASSUME NEW l \in Loops, Commit(l) PROVE SS!Next
  <2>1. begun[l] # NULL /\ found[l] \in Outcomes
    BY <1>2 DEF Commit, Discipline, TickHasBegun, TypeOK
  <2>2. Len(db.results) < MaxRows
    <3>1. l \in Recording BY <1>2 DEF Commit, Recording, Statements
    <3>2. Cardinality(Recording) # 0
      BY <3>1, RecordingIsFinite, FS_EmptySet
    <3>3. Len(db.results) \in Nat BY DEF Discipline, TypeOK, DB
    <3>4. Len(db.results) + Cardinality(Recording) <= MaxRows
      BY <3>1 DEF RoomForRows
    <3> QED BY <3>2, <3>3, <3>4, RecordingIsFinite, BoundsAssumption
  <2>3. db' = SS!RecordTick(db, begun[l], found[l])
    BY <1>2, CommitAddsRow, SameRecordTick
  <2>4. SS!Record(l, found[l])
    BY <1>0, <1>2, <2>1, <2>2, <2>3 DEF SS!Record, Commit, Return
  <2> QED BY <2>1, <2>4 DEF SS!Next
<1>3. ASSUME NEW l \in Loops, Fail(l) PROVE SS!Next
  <2>1. begun[l] # NULL
    BY <1>3 DEF Fail, Discipline, TickHasBegun, TypeOK, Statements
  <2>2. SS!RecordFails(l)
    BY <1>0, <1>3, <2>1 DEF SS!RecordFails, Fail, DbAfterFailure, Return
  <2> QED BY <2>2 DEF SS!Next
<1>4. CASE Crash
  <2>1. CASE \E l \in Loops : begun[l] # NULL
    BY <1>0, <1>4, <2>1 DEF Crash, SS!Crash, SS!Next
  <2>2. CASE \A l \in Loops : begun[l] = NULL
    <3>1. begun' = begun
      BY <1>4, <2>2 DEF Crash, Discipline, TypeOK
    <3> QED BY <1>4, <3>1 DEF Crash, SS!vars
  <2> QED BY <2>1, <2>2
<1>5. CASE Pass
  BY <1>5 DEF Pass, SS!Pass, SS!Next
<1>6. ASSUME NEW l \in Loops, NEW o \in Outcomes, RunTickReturns(l, o)
      PROVE  UNCHANGED SS!vars
  BY <1>6 DEF RunTickReturns, SS!vars
<1>7. ASSUME NEW l \in Loops,
             BeginTx(l) \/ ExecInsert(l) \/ ExecReconcile(l) \/ ExecLog(l) \/ ExecUpdate(l)
      PROVE  UNCHANGED SS!vars
  BY <1>7 DEF BeginTx, ExecInsert, ExecReconcile, ExecLog, ExecUpdate, Exec, SS!vars
<1>8. CASE ReaderStep \/ UNCHANGED vars
  BY <1>8 DEF ReaderStep, vars, SS!vars
<1> QED BY <1>1, <1>2, <1>3, <1>4, <1>5, <1>6, <1>7, <1>8 DEF TxNext, Next, Step

LEMMA ReadsNextTxInv ==
    ASSUME TxInv, [ReadsNext]_allvars
    PROVE  TxInv' /\ [SS!Next]_SS!vars
<1>1. [TxNext]_vars
  BY ReadsAreSteps DEF TxInv, Discipline, TypeOK
<1> QED BY <1>1, NextTxInv, TxNextRefines

\* The tables and what the loops keep stay well-typed, and the one connection
\* is held by exactly the loop inside a transaction, whatever requests read.
THEOREM OneTransactionAtATime == ReadsSpec => [](TypeOK /\ OneTransaction)
<1>1. ReadsInit => TxInv BY InitTxInv DEF ReadsInit
<1>2. TxInv /\ [ReadsNext]_allvars => TxInv' BY ReadsNextTxInv
<1>3. TxInv => TypeOK /\ OneTransaction BY DEF TxInv, Discipline
<1> QED BY <1>1, <1>2, <1>3, PTL DEF ReadsSpec

\* A tick is all or nothing: statement by statement, with statements that
\* fail, a process that dies and requests that read in between, the committed
\* database moves exactly as SiteStore's.
THEOREM TransactionsImplementSiteStore == ReadsSpec => ImplementsSiteStore
<1>1. ReadsInit => TxInv /\ SS!Init BY InitTxInv, InitRefines DEF ReadsInit
<1>2. TxInv /\ [ReadsNext]_allvars => TxInv' BY ReadsNextTxInv
<1>3. TxInv /\ [ReadsNext]_allvars => [SS!Next]_SS!vars BY ReadsNextTxInv
<1> QED BY <1>1, <1>2, <1>3, PTL DEF ReadsSpec, ImplementsSiteStore, SS!Spec

-----------------------------------------------------------------------------
(***************************************************************************)
(* The statements of a request.  A count is followed by the row it counts  *)
(* for, and a row is never asked for without its count.                    *)
(***************************************************************************)
StmtNames == {"status", "totals", "count", "row", "uptime",
              "first", "points", "p95", "results", "errors"}

Stmt == [q : StmtNames, p : Nat]

Paired(s) ==
    /\ \A k \in DOMAIN s : s[k].q = "count" => k + 1 \in DOMAIN s /\ s[k + 1].q = "row"
    /\ \A k \in DOMAIN s : s[k].q = "row" /\ k > 1 => s[k - 1].q = "count"

QuantilePlan ==
    [k \in 1..(2 * Len(Quantiles)) |->
        [q |-> IF k % 2 = 1 THEN "count" ELSE "row", p |-> Quantiles[(k + 1) \div 2]]]

LEMMA QuantilePlanIsFlat ==
    FlattenSeq([i \in 1..Len(Quantiles) |->
        <<[q |-> "count", p |-> Quantiles[i]], [q |-> "row", p |-> Quantiles[i]]>>])
    = QuantilePlan
<1> DEFINE n == Len(Quantiles)
           two(i) == <<[q |-> "count", p |-> Quantiles[i]], [q |-> "row", p |-> Quantiles[i]]>>
           plans == [i \in 1..n |-> two(i)]
           upTo == [i \in 1..n |->
                      [k \in 1..(2 * i) |->
                         [q |-> IF k % 2 = 1 THEN "count" ELSE "row",
                          p |-> Quantiles[(k + 1) \div 2]]]]
           flat == CHOOSE g : g = [i \in 1..n |-> IF i = 1 THEN plans[i] ELSE g[i - 1] \o plans[i]]
<1>1. n \in Nat BY ReadsAssumption
<1>2. Len(plans) = n BY <1>1
<1>3. CASE n = 0
  <2>1. plans = QuantilePlan BY <1>3 DEF QuantilePlan
  <2> QED BY <1>2, <1>3, <2>1 DEF FlattenSeq
<1>4. CASE n # 0
  <2> DEFINE stmt(k) == [q |-> IF k % 2 = 1 THEN "count" ELSE "row",
                       p |-> Quantiles[(k + 1) \div 2]]
  <2>1. upTo = [i \in 1..n |-> IF i = 1 THEN plans[i] ELSE upTo[i - 1] \o plans[i]]
    <3>1. ASSUME NEW i \in 1..n, i # 1 PROVE upTo[i] = upTo[i - 1] \o two(i)
      <4> DEFINE a == [k \in 1..(2 * (i - 1)) |-> stmt(k)]
      <4>1. i \in Nat /\ i > 1 /\ i - 1 \in 1..n BY <1>1, <3>1
      <4>2. two(i) = <<stmt(2 * i - 1), stmt(2 * i)>>
        <5>1. /\ (2 * i - 1) % 2 = 1 /\ (2 * i) % 2 = 0
              /\ (2 * i - 1 + 1) \div 2 = i /\ (2 * i + 1) \div 2 = i
          BY <4>1
        <5> QED BY <5>1
      <4>3. upTo[i - 1] = a /\ upTo[i] = [k \in 1..(2 * i) |-> stmt(k)] BY <4>1
      <4> HIDE DEF upTo, stmt, two
      <4>4. a \o <<stmt(2 * i - 1), stmt(2 * i)>> = [k \in 1..(2 * i) |-> stmt(k)]
        <5> DEFINE len == 2 * (i - 1)
        <5>1. len \in Nat /\ 2 * i = len + 2 /\ 2 * i - 1 = len + 1 /\ Len(a) = len BY <4>1
        <5>2. 1..(len + 2) = 1..len \cup {len + 1, len + 2} BY <5>1
        <5> QED BY <5>1, <5>2
      <4> QED BY <4>2, <4>3, <4>4
    <3>2. ASSUME 1 \in 1..n PROVE upTo[1] = two(1)
      <4>1. upTo[1] = [k \in 1..2 |-> stmt(k)] BY <3>2
      <4>2. two(1) = <<stmt(1), stmt(2)>> OBVIOUS
      <4> HIDE DEF stmt, two, upTo
      <4> QED BY <4>1, <4>2
    <3> HIDE DEF two
    <3>3. \A i \in 1..n : upTo[i] = IF i = 1 THEN plans[i] ELSE upTo[i - 1] \o plans[i]
      <4> HIDE DEF upTo
      <4> QED BY <3>1, <3>2
    <3> HIDE DEF plans
    <3> QED BY <3>3
  <2> DEFINE Solves(g) == g = [i \in 1..n |-> IF i = 1 THEN plans[i] ELSE g[i - 1] \o plans[i]]
  <2> HIDE DEF upTo, plans
  <2>2. Solves(flat) BY <2>1
  <2>3. FlattenSeq(plans) = flat[n] BY <1>2, <1>4 DEF FlattenSeq
  <2> HIDE DEF flat
  <2>4. \A i \in 1..n : flat[i] = upTo[i]
    <3> DEFINE Bad == {i \in 1..n : flat[i] # upTo[i]}
    <3> SUFFICES ASSUME Bad # {} PROVE FALSE OBVIOUS
    <3>1. Bad \subseteq Nat OBVIOUS
    <3>2. PICK i \in Bad : \A m \in Bad : i <= m BY <3>1, LeastNumber
    <3>3. i \in 1..n /\ flat[i] # upTo[i] BY <3>2
    <3>4. /\ flat[i] = IF i = 1 THEN plans[i] ELSE flat[i - 1] \o plans[i]
          /\ upTo[i] = IF i = 1 THEN plans[i] ELSE upTo[i - 1] \o plans[i]
      BY <2>1, <2>2, <3>3
    <3>5. i # 1 => i - 1 \in 1..n /\ i - 1 \notin Bad BY <1>1, <3>2, <3>3
    <3> QED BY <3>3, <3>4, <3>5
  <2>5. upTo[n] = QuantilePlan BY <1>1, <1>4 DEF QuantilePlan, upTo
  <2> QED BY <1>1, <1>4, <2>3, <2>4, <2>5 DEF plans
<1> QED BY <1>1, <1>3, <1>4

Kinds(op) ==
    CASE op = "overview" -> {"status", "totals", "count", "row", "uptime"}
      [] op = "series"   -> {"first", "points", "p95"}
      [] op = "checks"   -> {"results", "errors"}
      [] OTHER           -> {}

\* A request of these kinds begins with a statement it runs once.
Begins(s, q) == s # <<>> /\ s[1].q = q /\ \A k \in DOMAIN s : k > 1 => s[k].q # q

LEMMA MetricsPlanParts ==
    /\ MetricsPlan \in Seq(Stmt) /\ Paired(MetricsPlan)
    /\ MetricsPlan # <<>> /\ MetricsPlan[1].q = "totals"
    /\ \A k \in DOMAIN MetricsPlan : MetricsPlan[k].q \in {"totals", "count", "row"}
<1> DEFINE n == 2 * Len(Quantiles)
           s == <<Ask("totals")>> \o QuantilePlan
<1>1. n \in Nat /\ Len(Quantiles) \in Nat BY ReadsAssumption
<1>2. ASSUME NEW k \in 1..n
      PROVE  /\ QuantilePlan[k] \in Stmt
             /\ QuantilePlan[k].q = IF k % 2 = 1 THEN "count" ELSE "row"
  <2> DEFINE half == (k + 1) \div 2
  <2>1. half \in 1..Len(Quantiles)
    <3> DEFINE len == Len(Quantiles)
    <3>1. k \in 1..(2 * len) /\ len \in Nat BY <1>1
    <3> HIDE DEF len
    <3> SUFFICES half \in 1..len BY DEF len
    <3> QED BY <3>1
  <2> HIDE DEF half
  <2>2. Quantiles[half] \in 0..99
    <3>1. Quantiles \in Seq(0..99) BY ReadsAssumption
    <3> QED BY <2>1, <3>1, ElementOfSeq
  <2> DEFINE name == IF k % 2 = 1 THEN "count" ELSE "row"
  <2>3. QuantilePlan[k] = [q |-> name, p |-> Quantiles[half]] BY DEF QuantilePlan, half
  <2>4. name \in StmtNames
    <3>1. "count" \in StmtNames /\ "row" \in StmtNames BY DEF StmtNames
    <3>2. CASE k % 2 = 1 BY <3>1, <3>2
    <3>3. CASE k % 2 # 1 BY <3>1, <3>3
    <3> QED BY <3>2, <3>3
  <2>5. Quantiles[half] \in Nat
    <3>1. \A x \in 0..99 : x \in Nat OBVIOUS
    <3> HIDE DEF half
    <3> QED BY <2>2, <3>1
  <2> QED BY <2>3, <2>4, <2>5 DEF Stmt
<1>3. QuantilePlan \in Seq(Stmt) /\ Len(QuantilePlan) = n
  <2>1. QuantilePlan \in [1..n -> Stmt]
    <3>1. DOMAIN QuantilePlan = 1..n /\ QuantilePlan = [k \in 1..n |-> QuantilePlan[k]]
      BY DEF QuantilePlan
    <3> HIDE DEF n
    <3> QED BY <1>2, <3>1
  <2> HIDE DEF n
  <2>2. QuantilePlan \in Seq(Stmt) BY <1>1, <2>1, SeqDef
  <2>3. Len(QuantilePlan) = n BY <1>1, <2>1, <2>2, LenProperties
  <2> QED BY <2>2, <2>3
<1>4. Ask("totals") \in Stmt /\ Ask("totals").q = "totals" BY DEF Ask, Stmt, StmtNames
<1>5. /\ s \in Seq(Stmt) /\ DOMAIN s = 1..(n + 1) /\ s[1].q = "totals"
      /\ \A k \in 2..(n + 1) : s[k].q = IF k % 2 = 0 THEN "count" ELSE "row"
  <2>1. s \in Seq(Stmt) /\ Len(s) = n + 1 BY <1>1, <1>3, <1>4
  <2>2. s[1] = Ask("totals") BY <1>1, <1>3, <1>4
  <2>3. ASSUME NEW k \in 2..(n + 1) PROVE s[k].q = IF k % 2 = 0 THEN "count" ELSE "row"
    <3>1. s[k] = QuantilePlan[k - 1] BY <1>1, <1>3, <1>4
    <3>2. k - 1 \in 1..n /\ ((k - 1) % 2 = 1 <=> k % 2 = 0) BY <1>1
    <3> QED BY <1>2, <3>1, <3>2
  <2> HIDE DEF s, n
  <2> QED BY <1>1, <1>4, <2>1, <2>2, <2>3
<1>6. MetricsPlan = s BY QuantilePlanIsFlat DEF MetricsPlan
<1> HIDE DEF s
<1>0. s # <<>> BY <1>1, <1>5
<1>7. Paired(s)
  <2>1. ASSUME NEW k \in DOMAIN s, s[k].q = "count" PROVE k + 1 \in DOMAIN s /\ s[k + 1].q = "row"
    <3>1. k \in 2..(n + 1) /\ k % 2 = 0 BY <1>1, <1>5, <2>1
    <3>2. k + 1 \in 2..(n + 1) /\ (k + 1) % 2 = 1 BY <1>1, <3>1
    <3> QED BY <1>5, <3>2
  <2>2. ASSUME NEW k \in DOMAIN s, s[k].q = "row", k > 1 PROVE s[k - 1].q = "count"
    <3>1. k \in 2..(n + 1) /\ k % 2 = 1 BY <1>1, <1>5, <2>2
    <3>2. k - 1 \in 2..(n + 1) /\ (k - 1) % 2 = 0 BY <1>1, <3>1
    <3> QED BY <1>5, <3>2
  <2> QED BY <2>1, <2>2 DEF Paired
<1>8. \A k \in DOMAIN s : s[k].q \in {"totals", "count", "row"}
  <2> SUFFICES ASSUME NEW k \in 1..(n + 1) PROVE s[k].q \in {"totals", "count", "row"}
    BY <1>5
  <2>1. k = 1 \/ k \in 2..(n + 1) BY <1>1
  <2> QED BY <1>5, <2>1
<1> QED BY <1>0, <1>5, <1>6, <1>7, <1>8

LEMMA OverviewPlanParts ==
    /\ OverviewPlan \in Seq(Stmt) /\ Paired(OverviewPlan) /\ Begins(OverviewPlan, "status")
    /\ \A k \in DOMAIN OverviewPlan : OverviewPlan[k].q \in Kinds("overview")
<1> DEFINE m == MetricsPlan
           n == Len(m)
           a == Ask("status")
           b == Ask("uptime")
           s == OverviewPlan
<1>1. /\ m \in Seq(Stmt) /\ Paired(m) /\ n \in Nat /\ DOMAIN m = 1..n /\ n > 0
      /\ m[1].q = "totals"
      /\ \A k \in 1..n : m[k].q \in {"totals", "count", "row"}
  <2>1. /\ m \in Seq(Stmt) /\ Paired(m) /\ m # <<>> /\ m[1].q = "totals"
        /\ \A k \in DOMAIN m : m[k].q \in {"totals", "count", "row"}
    BY MetricsPlanParts
  <2> HIDE DEF m
  <2>2. n \in Nat /\ DOMAIN m = 1..n /\ n > 0 BY <2>1
  <2> QED BY <2>1, <2>2
<1>2. a \in Stmt /\ b \in Stmt /\ a.q = "status" /\ b.q = "uptime" BY DEF Ask, Stmt, StmtNames
<1>3. /\ s \in Seq(Stmt) /\ DOMAIN s = 1..(n + 2)
      /\ s[1] = a /\ s[n + 2] = b /\ \A k \in 2..(n + 1) : s[k] = m[k - 1]
  <2> HIDE DEF a, b, m
  <2>1. s = <<a>> \o m \o <<b>> BY DEF OverviewPlan, a, b, m
  <2> HIDE DEF s
  <2>2. <<a>> \in Seq(Stmt) /\ <<b>> \in Seq(Stmt) /\ Len(<<a>>) = 1 /\ Len(<<b>>) = 1 BY <1>2
  <2> QED BY <1>1, <1>2, <2>1, <2>2
<1> HIDE DEF a, b, m, s
<1>4. \A k \in DOMAIN s : k = 1 \/ k = n + 2 \/ k \in 2..(n + 1) BY <1>1, <1>3
<1>5. /\ s[1].q = "status" /\ s[n + 2].q = "uptime"
      /\ \A k \in 2..(n + 1) : s[k].q \in {"totals", "count", "row"} /\ s[k].q = m[k - 1].q
  <2>1. \A k \in 2..(n + 1) : k - 1 \in 1..n BY <1>1
  <2> QED BY <1>1, <1>2, <1>3, <2>1
<1>6. \A k \in DOMAIN s : s[k].q \in {"status", "totals", "count", "row", "uptime"}
  BY <1>4, <1>5
<1>7. Begins(s, "status")
  <2>1. s # <<>> BY <1>1, <1>3
  <2>2. \A k \in DOMAIN s : k > 1 => s[k].q # "status" BY <1>3, <1>4, <1>5
  <2> QED BY <1>5, <2>1, <2>2 DEF Begins
<1>8. Paired(s)
  <2>1. ASSUME NEW k \in DOMAIN s, s[k].q = "count" PROVE k + 1 \in DOMAIN s /\ s[k + 1].q = "row"
    <3>1. k \in 2..(n + 1) /\ m[k - 1].q = "count" BY <1>4, <1>5, <2>1
    <3>2. k - 1 \in 1..n /\ k - 1 + 1 \in 1..n /\ m[k - 1 + 1].q = "row"
      BY <1>1, <3>1 DEF Paired
    <3>3. k + 1 \in 2..(n + 1) /\ k + 1 - 1 = k - 1 + 1 BY <1>1, <3>1, <3>2
    <3> QED BY <1>3, <1>5, <3>2, <3>3
  <2>2. ASSUME NEW k \in DOMAIN s, s[k].q = "row", k > 1 PROVE s[k - 1].q = "count"
    <3>1. k \in 2..(n + 1) /\ m[k - 1].q = "row" BY <1>4, <1>5, <2>2
    <3>2. k # 2 BY <1>1, <3>1
    <3>3. k - 1 \in 1..n /\ k - 1 > 1 BY <1>1, <3>1, <3>2
    <3>4. m[k - 1 - 1].q = "count" BY <1>1, <3>1, <3>3 DEF Paired
    <3>5. k - 1 \in 2..(n + 1) BY <3>1, <3>2
    <3> QED BY <1>5, <3>4, <3>5
  <2> QED BY <2>1, <2>2 DEF Paired
<1> QED BY <1>3, <1>6, <1>7, <1>8 DEF Kinds, s

\* A request as it is accepted.
Starts(op, s) ==
    /\ op = "overview" => Begins(s, "status")
    /\ op = "checks" => Begins(s, "results")

LEMMA PlanParts ==
    ASSUME NEW op \in {"overview", "series", "checks"}, NEW since
    PROVE  LET s == Plan(op, since)
           IN  /\ s \in Seq(Stmt) /\ Paired(s) /\ Starts(op, s)
               /\ \A k \in DOMAIN s : s[k].q \in Kinds(op)
<1>1. \A q \in StmtNames : Ask(q) \in Stmt /\ Ask(q).q = q BY DEF Ask, Stmt
<1>2. /\ "first" \in StmtNames /\ "points" \in StmtNames /\ "p95" \in StmtNames
      /\ "results" \in StmtNames /\ "errors" \in StmtNames
  BY DEF StmtNames
<1>3. CASE op = "overview"
  <2>1. Plan(op, since) = OverviewPlan BY <1>3 DEF Plan
  <2> QED BY <1>3, <2>1, OverviewPlanParts DEF Starts
<1>4. CASE op = "series"
  <2> DEFINE a == Ask("first")
             b == Ask("points")
             c == Ask("p95")
             s == Plan(op, since)
  <2>1. /\ a \in Stmt /\ b \in Stmt /\ c \in Stmt
        /\ a.q = "first" /\ b.q = "points" /\ c.q = "p95"
    BY <1>1, <1>2
  <2>2. s = (IF since = 0 THEN <<a>> ELSE <<>>) \o <<b, c>> BY <1>4 DEF Plan
  <2> HIDE DEF a, b, c, s
  <2>3. s = <<a>> \o <<b, c>> \/ s = <<>> \o <<b, c>>
    <3>1. CASE since = 0 BY <2>2, <3>1
    <3>2. CASE since # 0 BY <2>2, <3>2
    <3> QED BY <3>1, <3>2
  <2>4. s \in Seq({a, b, c})
    <3>1. <<a>> \in Seq({a, b, c}) /\ <<b, c>> \in Seq({a, b, c}) /\ <<>> \in Seq({a, b, c})
      OBVIOUS
    <3> QED BY <2>3, <3>1, ConcatProperties
  <2>5. \A k \in DOMAIN s : s[k].q \in {"first", "points", "p95"}
    <3>1. \A k \in DOMAIN s : s[k] \in {a, b, c} BY <2>4
    <3> QED BY <2>1, <3>1
  <2>6. \A k \in DOMAIN s : s[k].q # "count" /\ s[k].q # "row" BY <2>5
  <2>7. s \in Seq(Stmt)
    <3>1. {a, b, c} \subseteq Stmt BY <2>1
    <3> QED BY <2>4, <3>1, SeqMonotonic
  <2> QED BY <1>4, <2>5, <2>6, <2>7 DEF Paired, Starts, Kinds, s
<1>5. CASE op = "checks"
  <2> DEFINE a == Ask("results")
             b == Ask("errors")
             s == Plan(op, since)
  <2>1. a \in Stmt /\ b \in Stmt /\ a.q = "results" /\ b.q = "errors" BY <1>1, <1>2
  <2>2. s = <<a, b>> BY <1>5 DEF Plan
  <2> HIDE DEF a, b, s
  <2>3. s \in Seq(Stmt) /\ DOMAIN s = {1, 2} /\ s[1].q = "results" /\ s[2].q = "errors"
    BY <2>1, <2>2
  <2>4. \A k \in DOMAIN s : s[k].q \in {"results", "errors"} BY <2>3
  <2>5. Paired(s)
    <3>1. \A k \in DOMAIN s : s[k].q # "count" /\ s[k].q # "row" BY <2>4
    <3> QED BY <3>1 DEF Paired
  <2>6. Begins(s, "results")
    <3>1. s # <<>> BY <2>2
    <3>2. \A k \in DOMAIN s : k > 1 => k = 2 BY <2>3
    <3> QED BY <2>3, <3>1, <3>2 DEF Begins
  <2> QED BY <1>5, <2>3, <2>4, <2>5, <2>6 DEF Starts, Kinds, s
<1> QED BY <1>3, <1>4, <1>5

\* What is left of a plan once its first statement, or the first two, are done.
LEMMA TailParts ==
    ASSUME NEW s \in Seq(Stmt), s # <<>>, Paired(s)
    PROVE  /\ Tail(s) \in Seq(Stmt) /\ Paired(Tail(s))
           /\ Head(s) = s[1] /\ 1 \in DOMAIN s /\ Head(s) \in Stmt
           /\ \A k \in DOMAIN Tail(s) : k + 1 \in DOMAIN s /\ k + 1 > 1 /\ Tail(s)[k] = s[k + 1]
           /\ Tail(s) # <<>> => Head(Tail(s)) = s[2]
           /\ Tail(s) # <<>> /\ Head(Tail(s)).q = "row" => Head(s).q = "count"
           /\ Head(s).q = "count" => Tail(s) # <<>> /\ Head(Tail(s)).q = "row"
<1> DEFINE t == Tail(s)
           n == Len(s)
<1>1. n \in Nat /\ n > 0 /\ DOMAIN s = 1..n /\ Head(s) = s[1] /\ Head(s) \in Stmt OBVIOUS
<1>2. t \in Seq(Stmt) /\ DOMAIN t = 1..(n - 1) /\ \A k \in 1..(n - 1) : t[k] = s[k + 1]
  OBVIOUS
<1> HIDE DEF t, n
<1>3. \A k \in DOMAIN t : k + 1 \in DOMAIN s /\ k + 1 > 1 /\ t[k] = s[k + 1] BY <1>1, <1>2
<1>4. t # <<>> => 1 \in DOMAIN t /\ Head(t) = s[2] BY <1>1, <1>2
<1>5. Paired(t)
  <2>1. ASSUME NEW k \in DOMAIN t, t[k].q = "count" PROVE k + 1 \in DOMAIN t /\ t[k + 1].q = "row"
    <3>1. k + 1 \in DOMAIN s /\ s[k + 1].q = "count" BY <1>3, <2>1
    <3>2. k + 1 + 1 \in DOMAIN s /\ s[k + 1 + 1].q = "row" BY <3>1 DEF Paired
    <3>3. k + 1 \in 1..(n - 1) BY <1>1, <1>2, <3>2
    <3> QED BY <1>2, <3>2, <3>3
  <2>2. ASSUME NEW k \in DOMAIN t, t[k].q = "row", k > 1 PROVE t[k - 1].q = "count"
    <3>1. k + 1 \in DOMAIN s /\ k + 1 > 1 /\ s[k + 1].q = "row" BY <1>3, <2>2
    <3>2. s[k + 1 - 1].q = "count" BY <3>1 DEF Paired
    <3>3. k - 1 \in 1..(n - 1) /\ k - 1 + 1 = k + 1 - 1 BY <1>1, <1>2, <2>2
    <3> QED BY <1>2, <3>2, <3>3
  <2> QED BY <2>1, <2>2 DEF Paired
<1>6. t # <<>> /\ Head(t).q = "row" => Head(s).q = "count"
  <2> SUFFICES ASSUME t # <<>>, Head(t).q = "row" PROVE s[1].q = "count" BY <1>1
  <2>1. 2 \in DOMAIN s /\ s[2].q = "row" BY <1>1, <1>2, <1>4
  <2>2. s[2 - 1].q = "count" BY <2>1 DEF Paired
  <2> QED BY <2>2
<1>7. Head(s).q = "count" => t # <<>> /\ Head(t).q = "row"
  <2> SUFFICES ASSUME s[1].q = "count" PROVE t # <<>> /\ Head(t).q = "row" BY <1>1
  <2>0. 1 \in DOMAIN s BY <1>1
  <2>1. 1 + 1 \in DOMAIN s /\ s[1 + 1].q = "row" BY <2>0 DEF Paired
  <2>2. t # <<>> BY <1>1, <1>2, <2>1
  <2> QED BY <1>4, <2>1, <2>2
<1> QED BY <1>1, <1>2, <1>3, <1>4, <1>5, <1>6, <1>7 DEF t

-----------------------------------------------------------------------------
(***************************************************************************)
(* The tables while loops write: rows are added and kept, the state row is *)
(* the last row's, and a failing row has its error.                        *)
(***************************************************************************)
Grows(d, e) ==
    /\ \A i \in DOMAIN d.results : i \in DOMAIN e.results /\ e.results[i] = d.results[i]
    /\ \A i \in DOMAIN d.errors : i \in DOMAIN e.errors /\ e.errors[i] = d.errors[i]

RolledUp(d) ==
    /\ d.results = <<>> => d.state.current_up = NULL
    /\ d.results # <<>> =>
          LET last == d.results[Len(d.results)]
          IN  d.state.last_check_ts = last.ts /\ d.state.current_up = IF last.up THEN 1 ELSE 0

Logged(d) ==
    \A i \in DOMAIN d.results :
        ~d.results[i].up => \E j \in DOMAIN d.errors : d.errors[j] = d.results[i].ts

LEMMA TickTables ==
    ASSUME NEW d \in DB, NEW ts \in Nat, NEW o \in Outcome, RolledUp(d), Logged(d)
    PROVE  LET e == RecordTick(d, ts, o)
           IN  e \in DB /\ Grows(d, e) /\ RolledUp(e) /\ Logged(e)
                 /\ Len(e.results) = Len(d.results) + 1
<1> DEFINE e == RecordTick(d, ts, o)
           row == [ts |-> ts, up |-> o.up, response_ms |-> o.response_ms]
           new == [i \in 1..o.errors |-> ts]
           n == Len(d.results)
           m == Len(d.errors)
<1>1. /\ e \in DB /\ e.results = Append(d.results, row) /\ e.errors = d.errors \o new
      /\ e.state.current_up = (IF o.up THEN 1 ELSE 0)
  BY RecordTickParts
<1>2. e.state.last_check_ts = ts
  <2> DEFINE a == InsertResult(d, ts, o)
             b == ReconcileIncident(a, ts, o)
             c == LogErrors(b, ts, o)
  <2>1. a \in DB BY InsertResultParts
  <2> HIDE DEF a
  <2>2. b \in DB BY <2>1, ReconcileParts
  <2> HIDE DEF b
  <2>3. c \in DB BY <2>2, LogErrorsParts
  <2> HIDE DEF c
  <2>4. UpdateState(c, ts, o, IncidentAfter(d, o)).state.last_check_ts = ts
    BY <2>3 DEF UpdateState, DB, StateRow
  <2> QED BY <2>4 DEF RecordTick, a, b, c
<1> HIDE DEF e
<1>3. d.results \in Seq(ResultRow) /\ d.errors \in Seq(Nat) BY DEF DB
<1>4. row \in ResultRow /\ o.errors \in Nat /\ o.up \in BOOLEAN /\ (~o.up => o.errors > 0)
  BY DEF ResultRow, Outcome
<1>5. new \in Seq(Nat) /\ Len(new) = o.errors /\ \A i \in 1..o.errors : new[i] = ts BY <1>4
<1>6. row.ts = ts /\ (row.up <=> o.up) OBVIOUS
<1> HIDE DEF row, new
<1>7. /\ n \in Nat /\ DOMAIN d.results = 1..n /\ DOMAIN e.results = 1..(n + 1)
      /\ Len(e.results) = n + 1 /\ e.results[n + 1] = row
      /\ \A i \in 1..n : e.results[i] = d.results[i]
  BY <1>1, <1>3, <1>4
<1>8. /\ m \in Nat /\ DOMAIN d.errors = 1..m /\ DOMAIN e.errors = 1..(m + o.errors)
      /\ \A i \in 1..m : e.errors[i] = d.errors[i]
      /\ \A i \in (m + 1)..(m + o.errors) : e.errors[i] = ts
  <2>1. m \in Nat /\ DOMAIN d.errors = 1..m BY <1>3
  <2>2. /\ e.errors \in Seq(Nat) /\ Len(e.errors) = m + o.errors
        /\ \A i \in 1..(m + o.errors) : e.errors[i] = IF i <= m THEN d.errors[i] ELSE new[i - m]
    <3> DEFINE s == d.errors \o new
    <3>1. /\ s \in Seq(Nat) /\ Len(s) = m + Len(new)
          /\ \A i \in 1..(m + Len(new)) : s[i] = IF i <= m THEN d.errors[i] ELSE new[i - m]
      BY <1>3, <1>5, ConcatProperties
    <3>2. e.errors = s BY <1>1
    <3> HIDE DEF s, m
    <3> QED BY <1>5, <3>1, <3>2
  <2>3. DOMAIN e.errors = 1..(m + o.errors) BY <2>2
  <2> HIDE DEF m
  <2>4. ASSUME NEW i \in 1..m PROVE e.errors[i] = d.errors[i]
    <3>1. i \in 1..(m + o.errors) /\ i <= m BY <1>4, <2>1
    <3> QED BY <2>2, <3>1
  <2>5. ASSUME NEW i \in (m + 1)..(m + o.errors) PROVE e.errors[i] = ts
    <3>1. i \in 1..(m + o.errors) /\ ~(i <= m) /\ i - m \in 1..o.errors BY <1>4, <2>1
    <3> QED BY <1>5, <2>2, <3>1
  <2> QED BY <2>1, <2>3, <2>4, <2>5
<1> HIDE DEF n, m
<1>9. Grows(d, e)
  <2>1. \A i \in 1..n : i \in 1..(n + 1) BY <1>7
  <2>2. \A i \in 1..m : i \in 1..(m + o.errors) BY <1>4, <1>8
  <2> QED BY <1>7, <1>8, <2>1, <2>2 DEF Grows
<1>10. RolledUp(e)
  <2>1. e.results # <<>> BY <1>7
  <2> QED BY <1>1, <1>2, <1>6, <1>7, <2>1 DEF RolledUp
<1>11. Logged(e)
  <2>1. ASSUME NEW i \in DOMAIN e.results, ~e.results[i].up
        PROVE  \E j \in DOMAIN e.errors : e.errors[j] = e.results[i].ts
    <3>1. CASE i = n + 1
      <4>1. ~o.up /\ e.results[i].ts = ts BY <1>6, <1>7, <2>1, <3>1
      <4>2. m + 1 \in (m + 1)..(m + o.errors) /\ m + 1 \in DOMAIN e.errors
        BY <1>4, <1>8, <4>1
      <4> QED BY <1>8, <4>1, <4>2
    <3>2. CASE i # n + 1
      <4>1. i \in DOMAIN d.results /\ e.results[i] = d.results[i] BY <1>7, <3>2
      <4>2. PICK j \in DOMAIN d.errors : d.errors[j] = d.results[i].ts
        BY <2>1, <4>1 DEF Logged
      <4> QED BY <1>9, <4>1, <4>2 DEF Grows
    <3> QED BY <3>1, <3>2
  <2> QED BY <2>1 DEF Logged
<1> QED BY <1>1, <1>7, <1>9, <1>10, <1>11 DEF e, n

LEMMA FreshTables == RolledUp(NewDB) /\ Logged(NewDB) /\ RolledUp(UpgradedDB) /\ Logged(UpgradedDB)
<1>1. RolledUp(NewDB) /\ Logged(NewDB) BY DEF RolledUp, Logged, NewDB
<1> DEFINE row == [ts |-> 0, up |-> FALSE, response_ms |-> 0]
<1>2. /\ UpgradedDB.results = <<row>> /\ UpgradedDB.errors = <<0>>
      /\ UpgradedDB.state.last_check_ts = 0 /\ UpgradedDB.state.current_up = 0
  BY DEF UpgradedDB
<1>3. row.ts = 0 /\ ~row.up OBVIOUS
<1> HIDE DEF row
<1>4. Len(<<row>>) = 1 /\ DOMAIN <<row>> = {1} /\ <<row>>[1] = row /\ <<row>> # <<>>
  OBVIOUS
<1>5. RolledUp(UpgradedDB) BY <1>2, <1>3, <1>4 DEF RolledUp
<1>6. Logged(UpgradedDB) BY <1>2, <1>3, <1>4 DEF Logged
<1> QED BY <1>1, <1>5, <1>6

\* What a growing table does to what is counted in it.
LEMMA GrowingWindow ==
    ASSUME NEW d \in DB, NEW e \in DB, Grows(d, e), NEW since \in Nat
    PROVE  /\ Latencies(d, since) \subseteq Latencies(e, since)
           /\ Cardinality(Latencies(d, since)) \in Nat
           /\ Cardinality(Latencies(e, since)) \in Nat
           /\ Cardinality(Latencies(d, since)) <= Cardinality(Latencies(e, since))
<1>1. Latencies(d, since) \subseteq Latencies(e, since)
  BY DEF Latencies, UpRows, RowsSince, Grows
<1>2. /\ Latencies(d, since) \in SUBSET DOMAIN d.results
      /\ Latencies(e, since) \in SUBSET DOMAIN e.results
  BY DEF Latencies, UpRows, RowsSince
<1>3. /\ Cardinality(Latencies(d, since)) \in Nat
      /\ IsFiniteSet(Latencies(e, since)) /\ Cardinality(Latencies(e, since)) \in Nat
  BY <1>2, RowsAreFinite
<1>4. Cardinality(Latencies(d, since)) <= Cardinality(Latencies(e, since))
  BY <1>1, <1>3, FS_Subset
<1> QED BY <1>1, <1>3, <1>4

TablesInv == TxInv /\ RolledUp(db) /\ Logged(db)

LEMMA InitTables == ReadsInit => TablesInv
BY InitTxInv, FreshTables DEF ReadsInit, Init, TablesInv

LEMMA TablesStep ==
    ASSUME TablesInv, [ReadsNext]_allvars
    PROVE  /\ TablesInv' /\ Grows(db, db')
           /\ Len(db.results) \in Nat /\ Len(db'.results) \in Nat
           /\ \/ db' = db
              \/ Len(db.results) < MaxRows /\ Len(db'.results) = Len(db.results) + 1
<1>1. TxInv /\ TxInv' /\ [SS!Next]_SS!vars BY ReadsNextTxInv DEF TablesInv
<1>2. db \in DB /\ db' \in DB /\ begun \in [Loops -> Nullable]
  BY <1>1 DEF TxInv, Discipline, TypeOK
<1>3. Len(db.results) \in Nat /\ Len(db'.results) \in Nat BY <1>2 DEF DB
<1>4. CASE db' = db
  BY <1>1, <1>3, <1>4 DEF TablesInv, Grows
<1>5. ASSUME NEW l \in Loops, NEW o \in Outcomes, SS!Record(l, o)
      PROVE  /\ TablesInv' /\ Grows(db, db')
             /\ Len(db.results) < MaxRows /\ Len(db'.results) = Len(db.results) + 1
  <2>1. /\ db' = RecordTick(db, begun[l], o) /\ begun[l] # NULL /\ Len(db.results) < MaxRows
    BY <1>5, SameRecordTick DEF SS!Record, SS!NULL, NULL
  <2>2. begun[l] \in Nat /\ o \in Outcome BY <1>2, <2>1, OutcomesAssumption DEF Nullable
  <2>3. RolledUp(db) /\ Logged(db) BY DEF TablesInv
  <2>4. \E d \in DB : d = RecordTick(db, begun[l], o) /\ Grows(db, d) /\ RolledUp(d) /\ Logged(d)
                         /\ Len(d.results) = Len(db.results) + 1
    BY <1>2, <2>2, <2>3, TickTables
  <2> QED BY <1>1, <2>1, <2>4 DEF TablesInv
<1> QED BY <1>1, <1>3, <1>4, <1>5 DEF SS!Next, SS!Begin, SS!RecordFails, SS!Crash, SS!Pass, SS!vars

-----------------------------------------------------------------------------
(***************************************************************************)
(* Where a request is: its statements are those of its kind, the one it    *)
(* begins with is answered before any other and only once, and a reader    *)
(* holds the connection only at the rows of a series.                      *)
(***************************************************************************)
Begun(r, q) ==
    \/ DOMAIN reply[r] = {} /\ Begins(todo[r], q)
    \/ q \in DOMAIN reply[r] /\ \A k \in DOMAIN todo[r] : todo[r][k].q # q

Shape(r) ==
    /\ req[r].op \in {"none", "overview", "series", "checks"} /\ req[r].since \in Nat
    /\ todo[r] \in Seq(Stmt) /\ Paired(todo[r])
    /\ \A k \in DOMAIN todo[r] : todo[r][k].q \in Kinds(req[r].op)
    /\ DOMAIN reply[r] \subseteq Kinds(req[r].op)
    /\ conn = r => todo[r] # <<>> /\ Head(todo[r]).q \in {"points", "p95"}
    /\ req[r].op = "overview" => Begun(r, "status")
    /\ req[r].op = "checks" => Begun(r, "results")

(***************************************************************************)
(* What its answers say of the database as it is now.  A row is asked for  *)
(* after a count that is still no more than there is to count.             *)
(***************************************************************************)
Pending(r) ==
    todo[r] # <<>> /\ Head(todo[r]).q = "row" =>
        /\ "count" \in DOMAIN reply[r]
        /\ reply[r]["count"] \in 1..Cardinality(Latencies(db, req[r].since))

RowFound(r) == Answered(r, "row") => reply[r]["row"] # NoRow

\* The check that status was the last one of is in the window for good.
Tells(r) == Answered(r, "status") /\ reply[r]["status"].LastCheckTS >= req[r].since

Evidence(r) ==
    Tells(r) =>
        /\ reply[r]["status"].Up = 1 =>
              \E i \in RowsSince(db, req[r].since) : db.results[i].up
        /\ reply[r]["status"].Up = 0 =>
              \E i \in RowsSince(db, req[r].since) : ~db.results[i].up

InTotals(r) ==
    Tells(r) /\ Answered(r, "totals") =>
        /\ reply[r]["status"].Up = 1 => reply[r]["totals"].Successful > 0
        /\ reply[r]["status"].Up = 0 => reply[r]["totals"].Failed > 0

Listed(r) ==
    Answered(r, "results") =>
        \A i \in ToSet(reply[r]["results"]) :
            i \in DOMAIN db.results /\ db.results[i].ts >= req[r].since

Explained(r) ==
    (Answered(r, "results") /\ Answered(r, "errors")
        /\ Len(reply[r]["errors"]) < ListLimit) =>
            \A i \in ToSet(reply[r]["results"]) :
                ~db.results[i].up =>
                    \E e \in ToSet(reply[r]["errors"]) :
                        e \in DOMAIN db.errors /\ db.errors[e] = db.results[i].ts

Content(r) ==
    Pending(r) /\ RowFound(r) /\ Evidence(r) /\ InTotals(r) /\ Listed(r) /\ Explained(r)

\* A reader that takes no step keeps both, whatever loops and others do.
Still(r) ==
    /\ req'[r] = req[r] /\ todo'[r] = todo[r] /\ reply'[r] = reply[r]
    /\ conn' = r => conn = r

LEMMA StillShape ==
    ASSUME NEW r \in Readers, Shape(r), Still(r)
    PROVE  Shape(r)'
BY DEF Still, Shape, Begun

LEMMA StillContent ==
    ASSUME NEW r \in Readers, Shape(r), Content(r), Still(r),
           db \in DB, db' \in DB, Grows(db, db')
    PROVE  Content(r)'
<1> DEFINE since == req[r].since
<1>1. since \in Nat BY DEF Shape
<1>2. /\ req'[r] = req[r] /\ todo'[r] = todo[r] /\ reply'[r] = reply[r] BY DEF Still
<1>3. Pending(r)'
  <2>1. /\ Cardinality(Latencies(db, since)) \in Nat
        /\ Cardinality(Latencies(db', since)) \in Nat
        /\ Cardinality(Latencies(db, since)) <= Cardinality(Latencies(db', since))
    BY <1>1, GrowingWindow
  <2>2. Latencies(db, req[r].since)' = Latencies(db', since) BY <1>2 DEF Latencies, UpRows, RowsSince
  <2> DEFINE a == Cardinality(Latencies(db, since))
             b == Cardinality(Latencies(db', since))
             c == reply[r]["count"]
  <2>3. Cardinality(Latencies(db, req[r].since))' = b BY <2>2
  <2> HIDE DEF a, b, c
  <2>4. \A x \in 1..a : x \in 1..b BY <2>1 DEF a, b
  <2>5. todo[r] # <<>> /\ Head(todo[r]).q = "row" => "count" \in DOMAIN reply[r] /\ c \in 1..b
    BY <2>4 DEF Content, Pending, a, c
  <2> QED BY <1>2, <2>3, <2>5 DEF Pending, c
<1>4. \A i \in RowsSince(db, since) : i \in RowsSince(db', since) /\ db'.results[i] = db.results[i]
  BY DEF RowsSince, Grows
<1>5. RowFound(r)' /\ InTotals(r)'
  BY <1>2 DEF Content, RowFound, InTotals, Tells, Answered
<1>6. Evidence(r)'
  <2> SUFFICES ASSUME Tells(r)
               PROVE  /\ reply[r]["status"].Up = 1 => \E i \in RowsSince(db', since) : db'.results[i].up
                      /\ reply[r]["status"].Up = 0 => \E i \in RowsSince(db', since) : ~db'.results[i].up
    BY <1>2 DEF Evidence, Tells, Answered, RowsSince
  <2> QED BY <1>4 DEF Content, Evidence
<1>7. Listed(r)' BY <1>2 DEF Content, Listed, Answered, Grows
<1>8. Explained(r)'
  <2>1. \A i \in DOMAIN db.results : db'.results[i] = db.results[i] BY DEF Grows
  <2>2. \A e \in DOMAIN db.errors : e \in DOMAIN db'.errors /\ db'.errors[e] = db.errors[e] BY DEF Grows
  <2> QED BY <1>2, <2>1, <2>2 DEF Content, Listed, Explained, Answered
<1> QED BY <1>3, <1>5, <1>6, <1>7, <1>8 DEF Content

\* A request that is over, and one that is accepted.
LEMMA EndedRequest ==
    ASSUME NEW r \in Readers, req'[r] = NoRequest, todo'[r] = <<>>, reply'[r] = <<>>, conn' # r
    PROVE  Shape(r)' /\ Content(r)'
<1>1. req'[r].op = "none" /\ req'[r].since = 0 BY DEF NoRequest
<1>2. DOMAIN reply'[r] = {} /\ DOMAIN todo'[r] = {} /\ todo'[r] \in Seq(Stmt) OBVIOUS
<1>3. Shape(r)' BY <1>1, <1>2 DEF Shape, Paired, Kinds
<1>4. Content(r)'
  BY <1>2 DEF Content, Pending, RowFound, Evidence, InTotals, Listed, Explained, Tells, Answered
<1> QED BY <1>3, <1>4

LEMMA IdleReader ==
    ASSUME NEW r \in Readers, Shape(r), req[r].op = "none"
    PROVE  todo[r] = <<>> /\ DOMAIN reply[r] = {} /\ conn # r
<1>1. Kinds(req[r].op) = {} BY DEF Kinds
<1>2. \A k \in DOMAIN todo[r] : todo[r][k].q \in Kinds(req[r].op) BY DEF Shape
<1>3. DOMAIN todo[r] = {} BY <1>1, <1>2
<1>4. todo[r] \in Seq(Stmt) BY DEF Shape
<1>5. todo[r] = <<>>
  <2> SUFFICES ASSUME todo[r] # <<>> PROVE FALSE OBVIOUS
  <2>1. 1 \in DOMAIN todo[r] BY <1>4
  <2> QED BY <1>3, <2>1
<1>6. conn # r BY <1>5 DEF Shape
<1>7. DOMAIN reply[r] \subseteq Kinds(req[r].op) BY DEF Shape
<1> QED BY <1>1, <1>5, <1>6, <1>7

LEMMA AcceptedRequest ==
    ASSUME NEW r \in Readers, Shape(r), now \in Nat,
           DOMAIN req = Readers, DOMAIN todo = Readers, Request(r)
    PROVE  Shape(r)' /\ Content(r)'
<1>1. PICK op \in {"overview", "series", "checks"}, since \in 0..now :
        /\ req' = [req EXCEPT ![r] = [op |-> op, since |-> since]]
        /\ todo' = [todo EXCEPT ![r] = Plan(op, since)]
  BY DEF Request
<1>2. req[r].op = "none" BY DEF Request, NoRequest
<1>3. todo[r] = <<>> /\ DOMAIN reply[r] = {} /\ conn # r BY <1>2, IdleReader
<1>4. /\ req'[r].op = op /\ req'[r].since = since /\ todo'[r] = Plan(op, since)
      /\ reply'[r] = reply[r] /\ conn' # r
  BY <1>1, <1>3 DEF Request, vars
<1>5. LET s == Plan(op, since)
      IN  /\ s \in Seq(Stmt) /\ Paired(s) /\ Starts(op, s)
          /\ \A k \in DOMAIN s : s[k].q \in Kinds(op)
  BY PlanParts
<1> DEFINE s == todo'[r]
<1>6. /\ s \in Seq(Stmt) /\ Paired(s) /\ Starts(op, s)
      /\ \A k \in DOMAIN s : s[k].q \in Kinds(op)
  BY <1>4, <1>5
<1>7. since \in Nat OBVIOUS
<1>8. Shape(r)'
  <2>1. DOMAIN reply'[r] = {} BY <1>3, <1>4
  <2> QED BY <1>4, <1>6, <1>7, <2>1 DEF Shape, Begun, Starts
<1>9. s # <<>> => Head(s).q # "row"
  <2> SUFFICES ASSUME s # <<>>, Head(s).q = "row" PROVE FALSE OBVIOUS
  <2>1. Head(s) = s[1] /\ 1 \in DOMAIN s BY <1>6
  <2>2. s[1].q \in Kinds(op) BY <1>6, <2>1
  <2>3. op = "overview" BY <2>1, <2>2 DEF Kinds
  <2>4. s[1].q = "status" BY <1>6, <2>3 DEF Starts, Begins
  <2> QED BY <2>1, <2>4
<1>10. Content(r)'
  BY <1>3, <1>4, <1>9
     DEF Content, Pending, RowFound, Evidence, InTotals, Listed, Explained, Tells, Answered
<1> QED BY <1>8, <1>10

-----------------------------------------------------------------------------
(***************************************************************************)
(* The statements.  Each answers the question at the head of the list, and *)
(* leaves the rest of it, or without a latency to rank the rest but one,   *)
(* or of a series without a first check nothing.                           *)
(***************************************************************************)
Answers(r, q, a, rest) ==
    /\ todo[r] # <<>> /\ Head(todo[r]).q = q
    /\ reply'[r] = [x \in DOMAIN reply[r] \cup {q} |-> IF x = q THEN a ELSE reply[r][x]]
    /\ todo'[r] = rest /\ req'[r] = req[r] /\ conn' # r

Remains(rest, s) ==
    /\ rest \in Seq(Stmt) /\ Paired(rest)
    /\ \A k \in DOMAIN rest : \E j \in DOMAIN s : j > 1 /\ rest[k].q = s[j].q

LEMMA TailRemains ==
    ASSUME NEW s \in Seq(Stmt), s # <<>>, Paired(s)
    PROVE  /\ Remains(Tail(s), s) /\ Remains(<<>>, s)
           /\ Head(s).q = "count" => Remains(Tail(Tail(s)), s)
<1>1. Remains(Tail(s), s)
  <2> DEFINE t == Tail(s)
  <2>1. /\ t \in Seq(Stmt) /\ Paired(t)
        /\ \A k \in DOMAIN t : k + 1 \in DOMAIN s /\ k + 1 > 1 /\ t[k] = s[k + 1]
    BY TailParts
  <2> HIDE DEF t
  <2>2. Remains(t, s) BY <2>1 DEF Remains
  <2> QED BY <2>2 DEF t
<1>2. Remains(<<>>, s) BY DEF Remains, Paired
<1>3. ASSUME Head(s).q = "count" PROVE Remains(Tail(Tail(s)), s)
  <2> DEFINE t == Tail(s)
             u == Tail(t)
  <2>1. /\ t \in Seq(Stmt) /\ Paired(t) /\ t # <<>>
        /\ \A k \in DOMAIN t : k + 1 \in DOMAIN s /\ k + 1 > 1 /\ t[k] = s[k + 1]
    BY <1>3, TailParts
  <2> HIDE DEF t
  <2>2. /\ u \in Seq(Stmt) /\ Paired(u)
        /\ \A k \in DOMAIN u : k + 1 \in DOMAIN t /\ k + 1 > 1 /\ u[k] = t[k + 1]
    BY <2>1, TailParts
  <2> HIDE DEF u
  <2>3. ASSUME NEW k \in DOMAIN u PROVE \E j \in DOMAIN s : j > 1 /\ u[k].q = s[j].q
    <3>1. k + 1 \in DOMAIN t /\ u[k] = t[k + 1] BY <2>2
    <3>2. k + 1 + 1 \in DOMAIN s /\ k + 1 + 1 > 1 /\ t[k + 1] = s[k + 1 + 1] BY <2>1, <3>1
    <3> QED BY <3>1, <3>2
  <2>4. Remains(u, s) BY <2>2, <2>3 DEF Remains
  <2> QED BY <2>4 DEF u, t
<1> QED BY <1>1, <1>2, <1>3

LEMMA AnsweredParts ==
    ASSUME NEW r, NEW q, NEW a, NEW rest, Answers(r, q, a, rest)
    PROVE  /\ DOMAIN reply'[r] = DOMAIN reply[r] \cup {q} /\ reply'[r][q] = a
           /\ \A x \in DOMAIN reply[r] : x # q => reply'[r][x] = reply[r][x]
BY DEF Answers

LEMMA HeadParts ==
    ASSUME NEW r \in Readers, Shape(r), todo[r] # <<>>
    PROVE  /\ 1 \in DOMAIN todo[r] /\ Head(todo[r]) = todo[r][1]
           /\ Head(todo[r]).q \in Kinds(req[r].op)
<1>1. todo[r] \in Seq(Stmt) BY DEF Shape
<1>2. 1 \in DOMAIN todo[r] /\ Head(todo[r]) = todo[r][1] BY <1>1
<1> QED BY <1>2 DEF Shape

LEMMA AnsweredShape ==
    ASSUME NEW r \in Readers, Shape(r), NEW q, NEW a, NEW rest, Answers(r, q, a, rest),
           Remains(rest, todo[r])
    PROVE  Shape(r)'
<1> DEFINE s == todo[r]
           op == req[r].op
<1>1. /\ s # <<>> /\ Head(s).q = q /\ todo'[r] = rest /\ req'[r] = req[r] /\ conn' # r
  BY DEF Answers
<1>2. 1 \in DOMAIN s /\ s[1].q = q /\ q \in Kinds(op) BY <1>1, HeadParts
<1>3. DOMAIN reply'[r] = DOMAIN reply[r] \cup {q} BY AnsweredParts
<1>4. /\ rest \in Seq(Stmt) /\ Paired(rest)
      /\ \A k \in DOMAIN rest : \E j \in DOMAIN s : j > 1 /\ rest[k].q = s[j].q
  BY DEF Remains
<1>5. /\ op \in {"none", "overview", "series", "checks"} /\ req[r].since \in Nat
      /\ \A k \in DOMAIN s : s[k].q \in Kinds(op)
      /\ DOMAIN reply[r] \subseteq Kinds(op)
  BY DEF Shape
<1>6. \A k \in DOMAIN rest : rest[k].q \in Kinds(op) BY <1>4, <1>5
<1>7. ASSUME NEW p, Begun(r, p) PROVE Begun(r, p)'
  <2>1. CASE DOMAIN reply[r] = {} /\ Begins(s, p)
    <3>1. p = q /\ \A k \in DOMAIN s : k > 1 => s[k].q # p BY <1>2, <2>1 DEF Begins
    <3>2. \A k \in DOMAIN rest : rest[k].q # p BY <1>4, <3>1
    <3> QED BY <1>1, <1>3, <3>1, <3>2 DEF Begun
  <2>2. CASE p \in DOMAIN reply[r] /\ \A k \in DOMAIN s : s[k].q # p
    <3>1. \A k \in DOMAIN rest : rest[k].q # p BY <1>4, <2>2
    <3> QED BY <1>1, <1>3, <2>2, <3>1 DEF Begun
  <2> QED BY <1>7, <2>1, <2>2 DEF Begun
<1>8. op = "overview" => Begun(r, "status")' BY <1>7 DEF Shape
<1>9. op = "checks" => Begun(r, "results")' BY <1>7 DEF Shape
<1> QED BY <1>1, <1>2, <1>3, <1>4, <1>5, <1>6, <1>8, <1>9 DEF Shape

\* After any statement but a count, no row is asked for next.
LEMMA NoRowNext ==
    ASSUME NEW r \in Readers, Shape(r), todo[r] # <<>>, Head(todo[r]).q # "count"
    PROVE  Tail(todo[r]) # <<>> => Head(Tail(todo[r])).q # "row"
<1>1. todo[r] \in Seq(Stmt) /\ Paired(todo[r]) BY DEF Shape
<1> QED BY <1>1, TailParts

\* The overview has its status before it reads on; the checks their rows
\* before their errors.
LEMMA FirstThingsFirst ==
    ASSUME NEW r \in Readers, Shape(r), todo[r] # <<>>
    PROVE  LET q == Head(todo[r]).q
               op == req[r].op
           IN  /\ q \in Kinds("overview") => op = "overview"
               /\ q \in Kinds("checks") => op = "checks"
               /\ q \in {"totals", "count", "row", "uptime"} => "status" \in DOMAIN reply[r]
               /\ q = "errors" => "results" \in DOMAIN reply[r]
               /\ q \in {"status", "results"} => DOMAIN reply[r] = {}
               /\ DOMAIN reply[r] \subseteq Kinds(op)
<1> DEFINE q == Head(todo[r]).q
           op == req[r].op
<1>1. 1 \in DOMAIN todo[r] /\ q = todo[r][1].q /\ q \in Kinds(op) BY HeadParts
<1>2. op \in {"none", "overview", "series", "checks"} /\ DOMAIN reply[r] \subseteq Kinds(op)
  BY DEF Shape
<1> HIDE DEF q, op
<1>3. /\ q \in Kinds("overview") => op = "overview"
      /\ q \in Kinds("checks") => op = "checks"
  BY <1>1, <1>2 DEF Kinds
<1>4. q \in {"status", "totals", "count", "row", "uptime"} => q \in Kinds("overview") BY DEF Kinds
<1>5. q \in {"results", "errors"} => q \in Kinds("checks") BY DEF Kinds
<1>6. op = "overview" => Begun(r, "status") BY DEF Shape, op
<1>7. op = "checks" => Begun(r, "results") BY DEF Shape, op
<1>8. ASSUME NEW p, Begun(r, p)
      PROVE  /\ q = p => DOMAIN reply[r] = {}
             /\ q # p => p \in DOMAIN reply[r]
  BY <1>1, <1>8 DEF Begun, Begins
<1> QED BY <1>2, <1>3, <1>4, <1>5, <1>6, <1>7, <1>8 DEF q, op

LEMMA StatusAnswered ==
    ASSUME NEW r \in Readers, Shape(r), db \in DB, RolledUp(db),
           Answers(r, "status", Status(db), Tail(todo[r])), db' = db
    PROVE  Content(r)'
<1> DEFINE since == req[r].since
<1>1. /\ todo[r] # <<>> /\ Head(todo[r]).q = "status"
      /\ todo'[r] = Tail(todo[r]) /\ req'[r] = req[r]
  BY DEF Answers
<1>2. DOMAIN reply[r] = {} BY <1>1, FirstThingsFirst
<1>3. DOMAIN reply'[r] = {"status"} /\ reply'[r]["status"] = Status(db)
  BY <1>2, AnsweredParts
<1>4. Pending(r)' BY <1>1, NoRowNext DEF Pending
<1>5. Evidence(r)'
  <2>1. db.results \in Seq(ResultRow) /\ db.state \in StateRow BY DEF DB
  <2>2. since \in Nat BY DEF Shape
  <2> SUFFICES ASSUME db.state.last_check_ts >= since
               PROVE  /\ db.state.current_up = 1 => \E i \in RowsSince(db, since) : db.results[i].up
                      /\ db.state.current_up = 0 => \E i \in RowsSince(db, since) : ~db.results[i].up
    BY <1>1, <1>3 DEF Evidence, Tells, Status, RowsSince
  <2> SUFFICES ASSUME db.state.current_up \in {0, 1}
               PROVE  /\ db.state.current_up = 1 => \E i \in RowsSince(db, since) : db.results[i].up
                      /\ db.state.current_up = 0 => \E i \in RowsSince(db, since) : ~db.results[i].up
    OBVIOUS
  <2>3. db.results # <<>> BY DEF RolledUp, NULL
  <2> DEFINE n == Len(db.results)
  <2>4. /\ db.state.last_check_ts = db.results[n].ts
        /\ db.state.current_up = IF db.results[n].up THEN 1 ELSE 0
    BY <2>3 DEF RolledUp
  <2>5. n \in DOMAIN db.results BY <2>1, <2>3
  <2>6. n \in RowsSince(db, since) BY <2>4, <2>5 DEF RowsSince
  <2> QED BY <2>4, <2>6
<1> QED BY <1>3, <1>4, <1>5 DEF Content, RowFound, InTotals, Listed, Explained, Tells, Answered

\* What a statement of the overview leaves alone.
LEMMA OtherAnswers ==
    ASSUME NEW r \in Readers, Shape(r), Content(r), NEW q \in {"totals", "count", "row", "uptime"},
           NEW a, NEW rest, Answers(r, q, a, rest), db' = db
    PROVE  /\ Evidence(r)' /\ Listed(r)' /\ Explained(r)'
           /\ q # "totals" => InTotals(r)'
           /\ q # "row" => RowFound(r)'
           /\ (Tells(r)' <=> Tells(r)) /\ reply'[r]["status"] = reply[r]["status"]
           /\ "status" \in DOMAIN reply[r]
<1>1. todo[r] # <<>> /\ Head(todo[r]).q = q /\ req'[r] = req[r] BY DEF Answers
<1>2. "status" \in DOMAIN reply[r] /\ req[r].op = "overview" /\ DOMAIN reply[r] \subseteq Kinds("overview")
  BY <1>1, FirstThingsFirst DEF Kinds
<1>3. /\ DOMAIN reply'[r] = DOMAIN reply[r] \cup {q}
      /\ \A x \in DOMAIN reply[r] : x # q => reply'[r][x] = reply[r][x]
  BY AnsweredParts
<1>4. (Tells(r)' <=> Tells(r)) /\ reply'[r]["status"] = reply[r]["status"]
  BY <1>1, <1>2, <1>3 DEF Tells, Answered
<1>5. Evidence(r)' BY <1>1, <1>4 DEF Content, Evidence, RowsSince
<1>6. ~Answered(r, "results")'
  BY <1>2, <1>3 DEF Answered, Kinds
<1>7. q # "totals" => InTotals(r)'
  BY <1>3, <1>4 DEF Content, InTotals, Answered
<1>8. q # "row" => RowFound(r)' BY <1>3 DEF Content, RowFound, Answered
<1> QED BY <1>2, <1>4, <1>5, <1>6, <1>7, <1>8 DEF Listed, Explained

\* One row of a window settles what its two counts may be.
LEMMA WindowCounts ==
    ASSUME NEW d \in DB, NEW since
    PROVE  LET rows == RowsSince(d, since)
               n    == Cardinality(rows)
               ok   == Cardinality(UpRows(d, rows))
           IN  /\ n \in Nat /\ ok \in 0..n
               /\ (\E i \in rows : d.results[i].up) => ok > 0
               /\ (\E i \in rows : ~d.results[i].up) => ok < n
<1> DEFINE rows == RowsSince(d, since)
           up == UpRows(d, rows)
           n == Cardinality(rows)
           ok == Cardinality(up)
<1>1. rows \in SUBSET DOMAIN d.results /\ up \in SUBSET DOMAIN d.results /\ up \subseteq rows
  BY DEF RowsSince, UpRows
<1>2. IsFiniteSet(rows) /\ n \in Nat /\ IsFiniteSet(up) /\ ok \in Nat
  BY <1>1, RowsAreFinite
<1>3. ok <= n BY <1>1, <1>2, FS_Subset
<1>4. (\E i \in rows : d.results[i].up) => ok > 0
  <2> SUFFICES ASSUME NEW i \in rows, d.results[i].up PROVE ok > 0 OBVIOUS
  <2>1. i \in up BY DEF UpRows
  <2>2. ok # 0 BY <1>2, <2>1, FS_EmptySet
  <2> QED BY <1>2, <2>2
<1>5. (\E i \in rows : ~d.results[i].up) => ok < n
  <2> SUFFICES ASSUME NEW i \in rows, ~d.results[i].up PROVE ok < n OBVIOUS
  <2>1. i \notin up BY DEF UpRows
  <2>2. up # rows BY <2>1
  <2>3. ok # n BY <1>1, <1>2, <2>2, FS_Subset
  <2> QED BY <1>2, <1>3, <2>3
<1> QED BY <1>2, <1>3, <1>4, <1>5

LEMMA TotalsAnswered ==
    ASSUME NEW r \in Readers, Shape(r), Content(r), db \in DB,
           Answers(r, "totals", Totals(db, req[r].since), Tail(todo[r])), db' = db
    PROVE  Content(r)'
<1> DEFINE since == req[r].since
           rows == RowsSince(db, since)
           n == Cardinality(rows)
           ok == Cardinality(UpRows(db, rows))
<1>1. /\ todo[r] # <<>> /\ Head(todo[r]).q = "totals"
      /\ todo'[r] = Tail(todo[r]) /\ req'[r] = req[r]
  BY DEF Answers
<1>2. /\ Evidence(r)' /\ Listed(r)' /\ Explained(r)' /\ RowFound(r)'
      /\ (Tells(r)' <=> Tells(r)) /\ reply'[r]["status"] = reply[r]["status"]
  BY OtherAnswers
<1>3. Pending(r)' BY <1>1, NoRowNext DEF Pending
<1>4. /\ n \in Nat /\ ok \in 0..n
      /\ (\E i \in rows : db.results[i].up) => ok > 0
      /\ (\E i \in rows : ~db.results[i].up) => ok < n
  BY WindowCounts
<1>5. reply'[r]["totals"].Successful = ok /\ reply'[r]["totals"].Failed = n - ok
  <2>1. reply'[r]["totals"] = Totals(db, since) BY AnsweredParts
  <2> QED BY <2>1 DEF Totals
<1> HIDE DEF n, ok
<1>6. InTotals(r)'
  <2> SUFFICES ASSUME Tells(r)
               PROVE  /\ reply[r]["status"].Up = 1 => ok > 0
                      /\ reply[r]["status"].Up = 0 => n - ok > 0
    BY <1>2, <1>5 DEF InTotals
  <2> QED BY <1>4 DEF Content, Evidence
<1> QED BY <1>2, <1>3, <1>6 DEF Content

LEMMA UptimeAnswered ==
    ASSUME NEW r \in Readers, Shape(r), Content(r), NEW a,
           Answers(r, "uptime", a, Tail(todo[r])), db' = db
    PROVE  Content(r)'
<1>1. /\ todo[r] # <<>> /\ Head(todo[r]).q = "uptime" /\ todo'[r] = Tail(todo[r])
  BY DEF Answers
<1>2. /\ Evidence(r)' /\ Listed(r)' /\ Explained(r)' /\ RowFound(r)' /\ InTotals(r)'
  BY OtherAnswers
<1>3. Pending(r)' BY <1>1, NoRowNext DEF Pending
<1> QED BY <1>2, <1>3 DEF Content

LEMMA CountAnswered ==
    ASSUME NEW r \in Readers, Shape(r), Content(r), db \in DB, db' = db,
           LET n == Cardinality(Latencies(db, req[r].since))
           IN  Answers(r, "count", n, IF n = 0 THEN Tail(Tail(todo[r])) ELSE Tail(todo[r]))
    PROVE  Content(r)' /\ Shape(r)'
<1> DEFINE since == req[r].since
           n == Cardinality(Latencies(db, since))
           rest == IF n = 0 THEN Tail(Tail(todo[r])) ELSE Tail(todo[r])
<1>0. Answers(r, "count", n, rest) OBVIOUS
<1>1. /\ todo[r] # <<>> /\ Head(todo[r]).q = "count"
      /\ todo'[r] = rest /\ req'[r] = req[r]
  BY <1>0 DEF Answers
<1>2. todo[r] \in Seq(Stmt) /\ Paired(todo[r]) BY DEF Shape
<1>3. Remains(rest, todo[r])
  <2>1. Remains(Tail(todo[r]), todo[r]) /\ Remains(Tail(Tail(todo[r])), todo[r])
    BY <1>1, <1>2, TailRemains
  <2>2. CASE n = 0 BY <2>1, <2>2
  <2>3. CASE n # 0 BY <2>1, <2>3
  <2> QED BY <2>2, <2>3
<1>4. n \in Nat
  <2>1. Latencies(db, since) \in SUBSET DOMAIN db.results BY DEF Latencies, UpRows, RowsSince
  <2> QED BY <2>1, RowsAreFinite
<1>5. "count" \in DOMAIN reply'[r] /\ reply'[r]["count"] = n BY <1>0, AnsweredParts
<1>6. Shape(r)'
  <2> HIDE DEF n, rest
  <2> QED BY <1>0, <1>3, AnsweredShape
<1>7. /\ Evidence(r)' /\ Listed(r)' /\ Explained(r)' /\ RowFound(r)' /\ InTotals(r)'
  <2> HIDE DEF n, rest
  <2> QED BY <1>0, OtherAnswers
<1>8. Cardinality(Latencies(db, req[r].since))' = n
  BY <1>1 DEF Latencies, UpRows, RowsSince
<1>9. Pending(r)'
  <2>1. CASE n = 0
    <3>1. rest = Tail(Tail(todo[r])) BY <2>1
    <3> DEFINE t == Tail(todo[r])
    <3>2. t \in Seq(Stmt) /\ Paired(t) /\ t # <<>> /\ Head(t).q = "row"
      BY <1>1, <1>2, TailParts
    <3>3. Tail(t) # <<>> => Head(Tail(t)).q # "row"
      <4> HIDE DEF t
      <4>1. Tail(t) # <<>> /\ Head(Tail(t)).q = "row" => Head(t).q = "count" BY <3>2, TailParts
      <4> QED BY <3>2, <4>1
    <3>4. todo'[r] # <<>> => Head(todo'[r]).q # "row" BY <1>1, <3>1, <3>3
    <3> QED BY <3>4 DEF Pending
  <2>2. CASE n # 0
    <3>1. n \in 1..n BY <1>4, <2>2
    <3> HIDE DEF n
    <3> QED BY <1>5, <1>8, <3>1 DEF Pending
  <2> QED BY <2>1, <2>2
<1> QED BY <1>6, <1>7, <1>9 DEF Content

\* The offset is within the count, so it is within the table that has grown.
LEMMA OffsetInRange ==
    ASSUME NEW n \in Nat \ {0}, NEW p \in Nat
    PROVE  Offset(n, p) \in 0..(n - 1)
<1> DEFINE x == p * n
           o == x \div 100
<1>1. x \in Nat OBVIOUS
<1>2. o \in Nat
  <2> HIDE DEF x
  <2> QED BY <1>1
<1> HIDE DEF o
<1>3. CASE o >= n BY <1>2, <1>3 DEF Offset, o
<1>4. CASE ~(o >= n) BY <1>2, <1>4 DEF Offset, o
<1> QED BY <1>3, <1>4

LEMMA RowAnswered ==
    ASSUME NEW r \in Readers, Shape(r), Content(r), db \in DB, db' = db,
           Answers(r, "row",
                   RowAtOffset(db, req[r].since, Offset(reply[r]["count"], Head(todo[r]).p)),
                   Tail(todo[r]))
    PROVE  Content(r)'
<1> DEFINE since == req[r].since
           rows == Latencies(db, since)
           n == reply[r]["count"]
           p == Head(todo[r]).p
           o == Offset(n, p)
           row == RowAtOffset(db, since, o)
<1>0. Answers(r, "row", row, Tail(todo[r])) OBVIOUS
<1>1. /\ todo[r] # <<>> /\ Head(todo[r]).q = "row" /\ todo'[r] = Tail(todo[r])
  BY <1>0 DEF Answers
<1>2. /\ Evidence(r)' /\ Listed(r)' /\ Explained(r)' /\ InTotals(r)'
  <2> HIDE DEF row
  <2> QED BY <1>0, OtherAnswers
<1>3. Pending(r)' BY <1>1, NoRowNext DEF Pending
<1>4. rows \in SUBSET DOMAIN db.results BY DEF Latencies, UpRows, RowsSince
<1>5. /\ IsFiniteSet(rows) /\ Cardinality(rows) \in Nat
      /\ \A i \in rows : db.results[i].response_ms \in Nat
  BY <1>4, RowsAreFinite
<1>6. n \in 1..Cardinality(rows) BY <1>1 DEF Content, Pending
<1>7. p \in Nat
  <2>1. todo[r] \in Seq(Stmt) BY DEF Shape
  <2>2. Head(todo[r]) \in Stmt BY <1>1, <2>1
  <2> QED BY <2>2 DEF Stmt
<1>8. o \in 0..(n - 1)
  <2>1. n \in Nat \ {0} BY <1>5, <1>6
  <2> HIDE DEF n, p
  <2> QED BY <1>7, <2>1, OffsetInRange
<1>9. o \in 0..(Cardinality(rows) - 1) /\ o < Cardinality(rows)
  <2> HIDE DEF n, o, rows
  <2> QED BY <1>5, <1>6, <1>8
<1> HIDE DEF o, n, p
<1>10. row = AtLatencyRank(db, rows, o) BY <1>9 DEF RowAtOffset
<1>11. row \in Nat
  <2> HIDE DEF rows, row
  <2>1. PICK i \in rows : AtLatencyRank(db, rows, o) = db.results[i].response_ms
    BY <1>4, <1>9, LatencyRow
  <2> QED BY <1>5, <1>10, <2>1
<1>12. row # NoRow
  <2> HIDE DEF row
  <2> QED BY <1>11 DEF NoRow
<1>13. reply'[r]["row"] = row
  <2> HIDE DEF row
  <2> QED BY <1>0, AnsweredParts
<1>14. RowFound(r)' BY <1>12, <1>13 DEF RowFound
<1> QED BY <1>2, <1>3, <1>14 DEF Content

\* Nothing is promised of the replies of a series.
LEMMA SeriesAnswered ==
    ASSUME NEW r \in Readers, Shape(r)', req'[r].op = "series"
    PROVE  Content(r)'
<1>1. Kinds("series") = {"first", "points", "p95"} BY DEF Kinds
<1>2. /\ todo'[r] \in Seq(Stmt) /\ DOMAIN reply'[r] \subseteq {"first", "points", "p95"}
      /\ \A k \in DOMAIN todo'[r] : todo'[r][k].q \in {"first", "points", "p95"}
  BY <1>1 DEF Shape
<1>3. todo'[r] # <<>> => Head(todo'[r]).q # "row"
  <2> SUFFICES ASSUME todo'[r] # <<>> PROVE Head(todo'[r]).q # "row" OBVIOUS
  <2>1. 1 \in DOMAIN todo'[r] /\ Head(todo'[r]) = todo'[r][1] BY <1>2
  <2> QED BY <1>2, <2>1
<1>4. Pending(r)' BY <1>3 DEF Pending
<1>5. ~Answered(r, "row")' /\ ~Answered(r, "status")' /\ ~Answered(r, "results")'
  BY <1>2 DEF Answered
<1> QED BY <1>4, <1>5 DEF Content, RowFound, Evidence, InTotals, Listed, Explained, Tells

\* What the lists leave of the other answers: there are none.
LEMMA ListsAlone ==
    ASSUME NEW r \in Readers, Shape(r), NEW q \in {"results", "errors"}, NEW a,
           Answers(r, q, a, Tail(todo[r]))
    PROVE  /\ Pending(r)' /\ RowFound(r)' /\ Evidence(r)' /\ InTotals(r)'
           /\ q = "results" => DOMAIN reply'[r] = {"results"}
           /\ q = "errors" => "results" \in DOMAIN reply[r]
<1>1. /\ todo[r] # <<>> /\ Head(todo[r]).q = q
      /\ todo'[r] = Tail(todo[r]) /\ req'[r] = req[r]
  BY DEF Answers
<1>2. /\ req[r].op = "checks" /\ DOMAIN reply[r] \subseteq {"results", "errors"}
      /\ q = "results" => DOMAIN reply[r] = {}
      /\ q = "errors" => "results" \in DOMAIN reply[r]
  BY <1>1, FirstThingsFirst DEF Kinds
<1>3. DOMAIN reply'[r] = DOMAIN reply[r] \cup {q} BY AnsweredParts
<1>4. Pending(r)' BY <1>1, NoRowNext DEF Pending
<1>5. ~Answered(r, "row")' /\ ~Answered(r, "status")' BY <1>2, <1>3 DEF Answered
<1> QED BY <1>2, <1>3, <1>4, <1>5 DEF RowFound, Evidence, InTotals, Tells

LEMMA ResultsAnswered ==
    ASSUME NEW r \in Readers, Shape(r), db \in DB, db' = db,
           Answers(r, "results", Results(db, req[r].since, ListLimit), Tail(todo[r]))
    PROVE  Content(r)'
<1> DEFINE since == req[r].since
           ids == RowsSince(db, since)
           list == Results(db, since, ListLimit)
<1>0. Answers(r, "results", list, Tail(todo[r])) OBVIOUS
<1>1. ids \in SUBSET DOMAIN db.results BY DEF RowsSince
<1>2. IsFiniteSet(ids) /\ ids \in SUBSET Nat BY <1>1, RowsAreFinite
<1>3. list \in Seq(ids)
  <2>1. ListLimit \in Nat BY ReadsAssumption
  <2>2. list = Newest(ids, ListLimit) BY DEF Results
  <2> HIDE DEF ids, list
  <2> QED BY <1>2, <2>1, <2>2, NewestPage
<1> HIDE DEF list
<1>4. /\ Pending(r)' /\ RowFound(r)' /\ Evidence(r)' /\ InTotals(r)'
      /\ DOMAIN reply'[r] = {"results"}
  BY <1>0, ListsAlone
<1>5. reply'[r]["results"] = list /\ req'[r] = req[r] BY <1>0, AnsweredParts DEF Answers
<1>6. \A i \in ToSet(list) : i \in ids
  <2> HIDE DEF ids
  <2> QED BY <1>3 DEF ToSet
<1>7. Listed(r)' BY <1>5, <1>6 DEF Listed, RowsSince
<1>8. Explained(r)' BY <1>4 DEF Explained, Answered
<1> QED BY <1>4, <1>7, <1>8 DEF Content

LEMMA ErrorsAnswered ==
    ASSUME NEW r \in Readers, Shape(r), Content(r), db \in DB, Logged(db), db' = db,
           Answers(r, "errors", Errors(db, req[r].since, ListLimit), Tail(todo[r]))
    PROVE  Content(r)'
<1> DEFINE since == req[r].since
           ids == {e \in DOMAIN db.errors : db.errors[e] >= since}
           list == Errors(db, since, ListLimit)
<1>0. Answers(r, "errors", list, Tail(todo[r])) OBVIOUS
<1>1. IsFiniteSet(ids) /\ ids \in SUBSET Nat
  <2>1. db.errors \in Seq(Nat) BY DEF DB
  <2>2. DOMAIN db.errors = 1..Len(db.errors) /\ Len(db.errors) \in Nat BY <2>1
  <2>3. 1 \in Int /\ Len(db.errors) \in Int BY <2>2
  <2>4. IsFiniteSet(1..Len(db.errors)) BY <2>3, FS_Interval
  <2>5. ids \subseteq 1..Len(db.errors) BY <2>2
  <2> HIDE DEF ids
  <2>6. IsFiniteSet(ids) BY <2>4, <2>5, FS_Subset
  <2> QED BY <2>2, <2>5, <2>6
<1>2. /\ list \in Seq(ids)
      /\ Len(list) < ListLimit => \A i \in ids : \E k \in DOMAIN list : list[k] = i
  <2>1. ListLimit \in Nat BY ReadsAssumption
  <2>2. list = Newest(ids, ListLimit) BY DEF Errors
  <2> HIDE DEF ids, list
  <2> QED BY <1>1, <2>1, <2>2, NewestPage
<1> HIDE DEF list
<1>3. /\ Pending(r)' /\ RowFound(r)' /\ Evidence(r)' /\ InTotals(r)'
      /\ "results" \in DOMAIN reply[r]
  BY <1>0, ListsAlone
<1>4. /\ reply'[r]["errors"] = list /\ reply'[r]["results"] = reply[r]["results"]
      /\ req'[r] = req[r]
  BY <1>0, <1>3, AnsweredParts DEF Answers
<1>5. \A i \in ToSet(reply[r]["results"]) : i \in DOMAIN db.results /\ db.results[i].ts >= since
  BY <1>3 DEF Content, Listed, Answered
<1>6. Listed(r)' BY <1>4, <1>5 DEF Listed
<1>7. Explained(r)'
  <2> SUFFICES ASSUME Len(list) < ListLimit, NEW i \in ToSet(reply[r]["results"]), ~db.results[i].up
               PROVE  \E e \in ToSet(list) : e \in DOMAIN db.errors /\ db.errors[e] = db.results[i].ts
    BY <1>4 DEF Explained
  <2>1. i \in DOMAIN db.results /\ db.results[i].ts >= since BY <1>5
  <2>2. PICK e \in DOMAIN db.errors : db.errors[e] = db.results[i].ts BY <2>1 DEF Logged
  <2>3. e \in ids BY <2>1, <2>2
  <2> HIDE DEF ids
  <2>4. PICK k \in DOMAIN list : list[k] = e BY <1>2, <2>3
  <2>5. e \in ToSet(list) BY <2>4 DEF ToSet
  <2> QED BY <2>2, <2>5
<1> QED BY <1>3, <1>6, <1>7 DEF Content

-----------------------------------------------------------------------------
(***************************************************************************)
(* The steps of a reader.                                                  *)
(***************************************************************************)
Domains == DOMAIN req = Readers /\ DOMAIN todo = Readers /\ DOMAIN reply = Readers

Told(r) == Shape(r) /\ Content(r)

\* Reader r moves alone: the tables stay, and so does every other reader.
Alone(r) ==
    /\ db' = db /\ Domains'
    /\ \A s \in Readers : s # r =>
        req'[s] = req[s] /\ todo'[s] = todo[s] /\ reply'[s] = reply[s]
    /\ conn' \in {conn, Free, r}

LEMMA OneRowAnswers ==
    ASSUME NEW r \in Readers, NEW q, NEW a, NEW rest, Domains, OneRow(r, q, a, rest)
    PROVE  Answers(r, q, a, rest) /\ Alone(r)
<1>1. conn' = conn /\ conn' # r BY FreeAssumption DEF OneRow, vars
<1> QED BY <1>1 DEF OneRow, Asks, Answer, Answers, Alone, Domains, vars

LEMMA SeriesAsks ==
    ASSUME NEW r \in Readers, Shape(r), todo[r] # <<>>,
           Head(todo[r]).q \in {"first", "points", "p95"}
    PROVE  req[r].op = "series"
<1>1. Head(todo[r]).q \in Kinds(req[r].op) BY HeadParts
<1>2. req[r].op \in {"none", "overview", "series", "checks"} BY DEF Shape
<1> QED BY <1>1, <1>2 DEF Kinds

\* The rows of a series: the statement is answered, and stays at the head of
\* the list until its last row is read.
LEMMA OpenRowsShape ==
    ASSUME NEW r \in Readers, Domains, Shape(r), NEW q \in {"points", "p95"}, OpenRows(r, q)
    PROVE  Shape(r)' /\ req'[r].op = "series" /\ Alone(r)
<1>1. todo[r] # <<>> /\ Head(todo[r]).q = q BY DEF OpenRows, Asks
<1>2. req[r].op = "series" BY <1>1, SeriesAsks
<1>3. req' = req /\ todo' = todo /\ conn' = r BY DEF OpenRows
<1>4. DOMAIN reply'[r] = DOMAIN reply[r] \cup {q} BY DEF OpenRows, Answer, Domains
<1>5. q \in Kinds("series") BY DEF Kinds
<1>6. Alone(r) BY DEF Alone, OpenRows, Answer, Domains
<1> QED BY <1>1, <1>2, <1>3, <1>4, <1>5, <1>6 DEF Shape

LEMMA CloseRowsShape ==
    ASSUME NEW r \in Readers, Domains, Shape(r), CloseRows(r)
    PROVE  Shape(r)' /\ req'[r].op = "series" /\ Alone(r)
<1>1. conn = r /\ todo[r] # <<>> BY DEF CloseRows, Scanning
<1>2. todo[r] \in Seq(Stmt) /\ Paired(todo[r]) /\ Head(todo[r]).q \in {"points", "p95"}
  BY <1>1 DEF Shape
<1>3. req[r].op = "series" BY <1>1, <1>2, SeriesAsks
<1>4. req' = req /\ todo'[r] = Tail(todo[r]) /\ reply' = reply /\ conn' # r
  BY FreeAssumption DEF CloseRows, ConnAfterRows, Domains
<1> DEFINE t == Tail(todo[r])
<1>5. /\ t \in Seq(Stmt) /\ Paired(t)
      /\ \A k \in DOMAIN t : k + 1 \in DOMAIN todo[r] /\ t[k] = todo[r][k + 1]
  BY <1>1, <1>2, TailParts
<1> HIDE DEF t
<1>6. \A k \in DOMAIN t : t[k].q \in Kinds(req[r].op) BY <1>5 DEF Shape
<1>7. todo'[r] = t BY <1>4 DEF t
<1>8. Shape(r)' BY <1>3, <1>4, <1>5, <1>6, <1>7 DEF Shape
<1>9. Alone(r) BY DEF Alone, CloseRows, ConnAfterRows, Domains
<1> QED BY <1>3, <1>4, <1>8, <1>9

LEMMA StatementTells ==
    ASSUME NEW r \in Readers, TablesInv, Domains, Told(r), Statement(r)
    PROVE  Told(r)' /\ Alone(r)
<1> USE DEF Told
<1>1. db \in DB /\ RolledUp(db) /\ Logged(db) BY DEF TablesInv, TxInv, Discipline, TypeOK
<1>2. todo[r] \in Seq(Stmt) /\ Paired(todo[r]) BY DEF Shape
<1>3. todo[r] # <<>> => Remains(Tail(todo[r]), todo[r]) /\ Remains(<<>>, todo[r])
  BY <1>2, TailRemains
<1>4. ASSUME NEW q, NEW a, OneRow(r, q, a, Tail(todo[r]))
      PROVE  Answers(r, q, a, Tail(todo[r])) /\ Alone(r) /\ db' = db /\ Shape(r)'
  <2>1. Answers(r, q, a, Tail(todo[r])) /\ Alone(r) BY <1>4, OneRowAnswers
  <2>2. todo[r] # <<>> BY <2>1 DEF Answers
  <2> QED BY <1>3, <2>1, <2>2, AnsweredShape DEF Alone
<1>5. CASE ReadStatus(r)
  <2>1. OneRow(r, "status", Status(db), Tail(todo[r])) BY <1>5 DEF ReadStatus
  <2> QED BY <1>1, <1>4, <2>1, StatusAnswered
<1>6. CASE ReadTotals(r)
  <2>1. OneRow(r, "totals", Totals(db, req[r].since), Tail(todo[r])) BY <1>6 DEF ReadTotals
  <2> QED BY <1>1, <1>4, <2>1, TotalsAnswered
<1>7. CASE ReadUptime(r)
  <2>1. OneRow(r, "uptime", Uptime(db, req[r].since), Tail(todo[r])) BY <1>7 DEF ReadUptime
  <2> QED BY <1>1, <1>4, <2>1, UptimeAnswered
<1>8. CASE CountLatencies(r)
  <2> DEFINE n == Cardinality(Latencies(db, req[r].since))
             rest == IF n = 0 THEN Tail(Tail(todo[r])) ELSE Tail(todo[r])
  <2>1. OneRow(r, "count", n, rest) BY <1>8 DEF CountLatencies
  <2>2. Answers(r, "count", n, rest) /\ Alone(r)
    <3> HIDE DEF n, rest
    <3> QED BY <2>1, OneRowAnswers
  <2>3. db' = db BY <2>2 DEF Alone
  <2> QED BY <1>1, <2>2, <2>3, CountAnswered
<1>9. CASE ReadRow(r)
  <2>1. OneRow(r, "row",
               RowAtOffset(db, req[r].since, Offset(reply[r]["count"], Head(todo[r]).p)),
               Tail(todo[r]))
    BY <1>9 DEF ReadRow
  <2> QED BY <1>1, <1>4, <2>1, RowAnswered
<1>10. CASE ReadFirst(r)
  <2> DEFINE rest == IF FirstCheck(db) = NULL THEN <<>> ELSE Tail(todo[r])
  <2>1. OneRow(r, "first", FirstCheck(db), rest) BY <1>10 DEF ReadFirst
  <2>2. Answers(r, "first", FirstCheck(db), rest) /\ Alone(r)
    <3> HIDE DEF rest
    <3> QED BY <2>1, OneRowAnswers
  <2>3. todo[r] # <<>> /\ Head(todo[r]).q = "first" /\ req'[r] = req[r] BY <2>2 DEF Answers
  <2>4. Remains(rest, todo[r]) BY <1>3, <2>3
  <2>5. Shape(r)'
    <3> HIDE DEF rest
    <3> QED BY <2>2, <2>4, AnsweredShape
  <2>6. req'[r].op = "series" BY <2>3, SeriesAsks
  <2> QED BY <2>2, <2>5, <2>6, SeriesAnswered
<1>11. CASE ReadResults(r)
  <2>1. OneRow(r, "results", Results(db, req[r].since, ListLimit), Tail(todo[r]))
    BY <1>11 DEF ReadResults, ReadList
  <2> QED BY <1>1, <1>4, <2>1, ResultsAnswered
<1>12. CASE ReadErrors(r)
  <2>1. OneRow(r, "errors", Errors(db, req[r].since, ListLimit), Tail(todo[r]))
    BY <1>12 DEF ReadErrors, ReadList
  <2> QED BY <1>1, <1>4, <2>1, ErrorsAnswered
<1>13. CASE OpenRows(r, "points") BY <1>13, OpenRowsShape, SeriesAnswered
<1>14. CASE OpenRows(r, "p95") BY <1>14, OpenRowsShape, SeriesAnswered
<1> QED BY <1>5, <1>6, <1>7, <1>8, <1>9, <1>10, <1>11, <1>12, <1>13, <1>14 DEF Statement

LEMMA ReadStepTells ==
    ASSUME NEW r \in Readers, TablesInv, Domains, Told(r), Request(r) \/ ReadStep(r)
    PROVE  Told(r)' /\ Alone(r)
<1> USE DEF Told
<1>1. CASE Request(r)
  <2>1. now \in Nat BY DEF TablesInv, TxInv, Discipline, TypeOK
  <2>2. Alone(r) BY <1>1 DEF Request, Alone, Domains, vars
  <2> QED BY <1>1, <2>1, <2>2, AcceptedRequest DEF Domains
<1>2. CASE Statement(r) BY <1>2, StatementTells
<1>3. CASE CloseRows(r) BY <1>3, CloseRowsShape, SeriesAnswered
<1>4. ASSUME EndRequest(r)
      PROVE  req'[r] = NoRequest /\ todo'[r] = <<>> /\ reply'[r] = <<>> /\ Domains'
  BY <1>4 DEF EndRequest, Domains
<1>5. CASE Respond(r)
  <2>1. conn # r BY <1>5 DEF Respond, Shape
  <2>2. EndRequest(r) /\ conn' = conn /\ db' = db BY <1>5 DEF Respond, vars
  <2>3. Told(r)' BY <1>4, <2>1, <2>2, EndedRequest
  <2>4. Alone(r) BY <1>4, <2>2 DEF Alone, EndRequest
  <2> QED BY <2>3, <2>4
<1>6. CASE ReadFails(r)
  <2>1. EndRequest(r) /\ conn' = Free /\ db' = db /\ conn' # r BY <1>6, FreeAssumption DEF ReadFails
  <2>2. Told(r)' BY <1>4, <2>1, EndedRequest
  <2>3. Alone(r) BY <1>4, <2>1 DEF Alone, EndRequest
  <2> QED BY <2>2, <2>3
<1> QED BY <1>1, <1>2, <1>3, <1>5, <1>6 DEF ReadStep

-----------------------------------------------------------------------------
ReadsInv == TablesInv /\ Domains /\ \A r \in Readers : Told(r)

LEMMA InitReadsInv == ReadsInit => ReadsInv
<1> SUFFICES ASSUME ReadsInit PROVE ReadsInv OBVIOUS
<1>1. Domains BY DEF ReadsInit, Domains
<1>2. ASSUME NEW r \in Readers PROVE Told(r)
  <2>1. req[r].op = "none" /\ req[r].since = 0 /\ todo[r] = <<>> /\ reply[r] = <<>>
    BY DEF ReadsInit, NoRequest
  <2>2. conn # r BY FreeAssumption DEF ReadsInit, Init
  <2>3. DOMAIN reply[r] = {} /\ DOMAIN todo[r] = {} /\ todo[r] \in Seq(Stmt) BY <2>1
  <2>4. Shape(r) BY <2>1, <2>2, <2>3 DEF Shape, Paired, Kinds
  <2>5. Content(r)
    BY <2>1, <2>3 DEF Content, Pending, RowFound, Evidence, InTotals, Listed, Explained, Tells, Answered
  <2> QED BY <2>4, <2>5 DEF Told
<1> QED BY <1>1, <1>2, InitTables DEF ReadsInv

\* A loop that takes the connection takes it from the pool, and gives it back
\* to the pool; what is read and answered is not its business.
LEMMA LoopsAreStill ==
    ASSUME TablesInv, NEW r \in Readers, UNCHANGED rvars,
           \/ \E l \in Loops : Begin(l) \/ Step(l)
           \/ Pass
    PROVE  Still(r)
<1>1. req' = req /\ todo' = todo /\ reply' = reply BY DEF rvars
<1>2. conn' = r => conn = r
  <2>1. r \notin Loops /\ r # Free BY FreeAssumption
  <2>2. ASSUME NEW l \in Loops, Begin(l) PROVE conn' = conn BY <2>2 DEF Begin
  <2>3. ASSUME NEW l \in Loops, Step(l) PROVE conn' \in {conn, Free, l}
    BY <2>3 DEF Step, RunTickReturns, BeginTx, ExecInsert, ExecReconcile, ExecLog, ExecUpdate,
                Exec, Commit, Fail, Return, ConnAfter
  <2>4. CASE Pass BY <2>4 DEF Pass
  <2> QED BY <2>1, <2>2, <2>3, <2>4
<1> QED BY <1>1, <1>2 DEF Still

LEMMA NextReadsInv == ReadsInv /\ [ReadsNext]_allvars => ReadsInv'
<1> SUFFICES ASSUME ReadsInv, [ReadsNext]_allvars PROVE ReadsInv' OBVIOUS
<1>1. TablesInv' /\ Grows(db, db') BY TablesStep DEF ReadsInv
<1>2. db \in DB /\ db' \in DB BY <1>1 DEF ReadsInv, TablesInv, TxInv, Discipline, TypeOK
<1>3. ASSUME NEW s \in Readers, Still(s) PROVE Told(s)'
  BY <1>1, <1>2, <1>3, StillShape, StillContent DEF ReadsInv, Told
<1>4. ASSUME NEW r \in Readers, Request(r) \/ ReadStep(r) PROVE ReadsInv'
  <2>1. Told(r)' /\ Alone(r) BY <1>4, ReadStepTells DEF ReadsInv
  <2>2. ASSUME NEW s \in Readers, s # r PROVE Told(s)'
    <3>1. Still(s) BY <2>1, <2>2, FreeAssumption DEF Alone, Still
    <3> QED BY <1>3, <3>1
  <2> QED BY <1>1, <2>1, <2>2 DEF Alone, ReadsInv
<1>5. ASSUME UNCHANGED rvars,
             (\E l \in Loops : Begin(l) \/ Step(l)) \/ Pass
      PROVE  ReadsInv'
  <2>1. \A s \in Readers : Still(s) BY <1>5, LoopsAreStill DEF ReadsInv
  <2>2. Domains' BY <1>5 DEF rvars, Domains, ReadsInv
  <2> QED BY <1>1, <1>3, <2>1, <2>2 DEF ReadsInv
<1>6. CASE ReadsCrash
  <2>1. Domains' BY <1>6 DEF ReadsCrash, Domains
  <2>2. ASSUME NEW s \in Readers PROVE Told(s)'
    <3>1. req'[s] = NoRequest /\ todo'[s] = <<>> /\ reply'[s] = <<>> BY <1>6 DEF ReadsCrash
    <3>2. conn' # s BY <1>6, FreeAssumption DEF ReadsCrash, Crash
    <3> QED BY <3>1, <3>2, EndedRequest DEF Told
  <2> QED BY <1>1, <2>1, <2>2 DEF ReadsInv
<1>7. CASE UNCHANGED allvars
  <2>1. \A s \in Readers : Still(s) BY <1>7 DEF allvars, vars, rvars, Still
  <2>2. Domains' BY <1>7 DEF allvars, rvars, Domains, ReadsInv
  <2> QED BY <1>1, <1>3, <2>1, <2>2 DEF ReadsInv
<1> QED BY <1>4, <1>5, <1>6, <1>7 DEF ReadsNext

-----------------------------------------------------------------------------
(***************************************************************************)
(* The percentage of a reply.  It is rounded to two decimals, so it is     *)
(* certain to agree with the counts only while a table is short of the     *)
(* 20,000 rows at which one check in the other direction rounds away.      *)
(***************************************************************************)
Few == Len(db.results) < 20000

InUptime(r) ==
    Tells(r) /\ Answered(r, "uptime") =>
        /\ reply[r]["status"].Up = 1 => reply[r]["uptime"].Percent > 0
        /\ reply[r]["status"].Up = 0 => reply[r]["uptime"].Percent < 10000

UptimeInv == Few /\ \A r \in Readers : InUptime(r)

LEMMA InitUptimeInv == ReadsInit => UptimeInv
<1> SUFFICES ASSUME ReadsInit PROVE UptimeInv OBVIOUS
<1>1. Few
  <2>1. CASE db = NewDB BY <2>1 DEF NewDB, Few
  <2>2. CASE db = UpgradedDB
    <3> DEFINE row == [ts |-> 0, up |-> FALSE, response_ms |-> 0]
    <3>1. db.results = <<row>> BY <2>2 DEF UpgradedDB
    <3> HIDE DEF row
    <3>2. Len(db.results) = 1 BY <3>1
    <3> QED BY <3>2 DEF Few
  <2> QED BY <2>1, <2>2 DEF ReadsInit, Init
<1>2. \A r \in Readers : ~Answered(r, "status") BY DEF ReadsInit, Answered
<1> QED BY <1>1, <1>2 DEF UptimeInv, InUptime, Tells

LEMMA UptimeInReply ==
    ASSUME NEW r \in Readers, Told(r), db \in DB, Few,
           Answers(r, "uptime", Uptime(db, req[r].since), Tail(todo[r])), db' = db
    PROVE  InUptime(r)'
<1> DEFINE since == req[r].since
           rows == RowsSince(db, since)
           n == Cardinality(rows)
           ok == Cardinality(UpRows(db, rows))
<1>1. (Tells(r)' <=> Tells(r)) /\ reply'[r]["status"] = reply[r]["status"]
  BY OtherAnswers DEF Told
<1>2. reply'[r]["uptime"].Percent = Percent(ok, n)
  <2>1. reply'[r]["uptime"] = Uptime(db, since) BY AnsweredParts
  <2> QED BY <2>1 DEF Uptime
<1>3. /\ n \in Nat /\ ok \in 0..n
      /\ (\E i \in rows : db.results[i].up) => ok > 0
      /\ (\E i \in rows : ~db.results[i].up) => ok < n
  BY WindowCounts
<1>4. n < 20000
  <2>1. db.results \in Seq(ResultRow) BY DEF DB
  <2>2. DOMAIN db.results = 1..Len(db.results) /\ Len(db.results) \in Nat BY <2>1
  <2>3. 1 \in Int /\ Len(db.results) \in Int BY <2>2
  <2>4. IsFiniteSet(1..Len(db.results)) /\ Cardinality(1..Len(db.results)) = Len(db.results)
    BY <2>2, <2>3, FS_Interval
  <2>5. rows \subseteq 1..Len(db.results) BY <2>2 DEF RowsSince
  <2> HIDE DEF rows
  <2>6. n <= Len(db.results) BY <2>4, <2>5, FS_Subset
  <2> QED BY <1>3, <2>2, <2>6 DEF Few
<1>5. (ok > 0 => Percent(ok, n) > 0) /\ (ok < n => Percent(ok, n) < 10000)
  <2> HIDE DEF n, ok
  <2> QED BY <1>3, <1>4, PercentEdges
<1> HIDE DEF n, ok
<1>6. Evidence(r) BY DEF Told, Content
<1> QED BY <1>1, <1>2, <1>3, <1>5, <1>6 DEF InUptime, Evidence

\* No other statement of the overview touches the percentage.
LEMMA UptimeStays ==
    ASSUME NEW r \in Readers, Told(r), InUptime(r), NEW q, q # "uptime", NEW a, NEW rest,
           Answers(r, q, a, rest)
    PROVE  InUptime(r)'
<1>1. todo[r] # <<>> /\ Head(todo[r]).q = q /\ req'[r] = req[r] BY DEF Answers
<1>2. /\ DOMAIN reply'[r] = DOMAIN reply[r] \cup {q}
      /\ \A x \in DOMAIN reply[r] : x # q => reply'[r][x] = reply[r][x]
  BY AnsweredParts
<1>3. q = "status" => DOMAIN reply[r] = {} BY <1>1, FirstThingsFirst DEF Told
<1>4. CASE q = "status" BY <1>2, <1>3, <1>4 DEF InUptime, Answered
<1>5. CASE q # "status" BY <1>1, <1>2, <1>5 DEF InUptime, Tells, Answered
<1> QED BY <1>4, <1>5

LEMMA NextUptimeInv ==
    ASSUME MaxRows < 20000, ReadsInv, UptimeInv, [ReadsNext]_allvars
    PROVE  UptimeInv'
<1>0. db \in DB /\ MaxRows \in Nat
  BY BoundsAssumption DEF ReadsInv, TablesInv, TxInv, Discipline, TypeOK
<1>1. Few'
  <2>1. /\ Len(db.results) \in Nat /\ Len(db'.results) \in Nat
        /\ \/ db' = db
           \/ Len(db.results) < MaxRows /\ Len(db'.results) = Len(db.results) + 1
    BY TablesStep DEF ReadsInv
  <2>2. CASE db' = db BY <2>2 DEF UptimeInv, Few
  <2>3. CASE Len(db.results) < MaxRows /\ Len(db'.results) = Len(db.results) + 1
    BY <1>0, <2>1, <2>3 DEF Few
  <2> QED BY <2>1, <2>2, <2>3
<1>2. ASSUME NEW s \in Readers, req'[s] = req[s], reply'[s] = reply[s] PROVE InUptime(s)'
  BY <1>2 DEF UptimeInv, InUptime, Tells, Answered
<1>3. ASSUME NEW s \in Readers, reply'[s] = <<>> PROVE InUptime(s)'
  BY <1>3 DEF InUptime, Answered
<1>4. ASSUME NEW r \in Readers, Request(r) \/ ReadStep(r) PROVE UptimeInv'
  <2>1. Domains /\ Told(r) /\ InUptime(r) BY DEF ReadsInv, UptimeInv
  <2>2. Alone(r) BY <1>4, ReadStepTells DEF ReadsInv
  <2>3. ASSUME NEW s \in Readers, s # r PROVE InUptime(s)' BY <1>2, <2>2, <2>3 DEF Alone
  <2>4. ASSUME NEW q, q # "uptime", NEW a, NEW rest, OneRow(r, q, a, rest) PROVE InUptime(r)'
    BY <2>1, <2>4, OneRowAnswers, UptimeStays
  <2>5. ASSUME NEW q, q # "uptime", OpenRows(r, q) PROVE InUptime(r)'
    <3>1. /\ DOMAIN reply'[r] = DOMAIN reply[r] \cup {q} /\ req' = req
          /\ \A x \in DOMAIN reply[r] : x # q => reply'[r][x] = reply[r][x]
      BY <2>1, <2>5 DEF OpenRows, Answer, Domains
    <3>2. todo[r] # <<>> /\ Head(todo[r]).q = q BY <2>5 DEF OpenRows, Asks
    <3>3. q = "status" => DOMAIN reply[r] = {} BY <2>1, <3>2, FirstThingsFirst DEF Told
    <3>4. CASE q = "status" BY <3>1, <3>3, <3>4, <2>5 DEF InUptime, Answered
    <3>5. CASE q # "status" BY <2>1, <3>1, <3>5, <2>5 DEF InUptime, Tells, Answered
    <3> QED BY <3>4, <3>5
  <2>6. InUptime(r)'
    <3>1. CASE ReadUptime(r)
      <4>1. OneRow(r, "uptime", Uptime(db, req[r].since), Tail(todo[r])) BY <3>1 DEF ReadUptime
      <4> QED BY <1>0, <2>1, <4>1, OneRowAnswers, UptimeInReply DEF UptimeInv, Alone
    <3>2. CASE ReadStatus(r) BY <2>4, <3>2 DEF ReadStatus
    <3>3. CASE ReadTotals(r) BY <2>4, <3>3 DEF ReadTotals
    <3>4. CASE CountLatencies(r) BY <2>4, <3>4 DEF CountLatencies
    <3>5. CASE ReadRow(r) BY <2>4, <3>5 DEF ReadRow
    <3>6. CASE ReadFirst(r) BY <2>4, <3>6 DEF ReadFirst
    <3>7. CASE ReadResults(r) BY <2>4, <3>7 DEF ReadResults, ReadList
    <3>8. CASE ReadErrors(r) BY <2>4, <3>8 DEF ReadErrors, ReadList
    <3>9. CASE OpenRows(r, "points") \/ OpenRows(r, "p95") BY <2>5, <3>9
    <3>10. CASE CloseRows(r) BY <1>2, <3>10 DEF CloseRows
    <3>11. CASE Respond(r) \/ ReadFails(r)
      BY <1>3, <2>1, <3>11 DEF Respond, ReadFails, EndRequest, Domains
    <3>12. CASE Request(r)
      <4>1. req[r].op = "none" BY <3>12 DEF Request, NoRequest
      <4>2. DOMAIN reply[r] = {} BY <2>1, <4>1, IdleReader DEF Told
      <4>3. reply' = reply BY <3>12 DEF Request
      <4> QED BY <4>2, <4>3 DEF InUptime, Answered
    <3> QED BY <1>4, <3>1, <3>2, <3>3, <3>4, <3>5, <3>6, <3>7, <3>8, <3>9, <3>10, <3>11, <3>12
            DEF ReadStep, Statement
  <2> QED BY <1>1, <2>3, <2>6 DEF UptimeInv
<1>5. CASE UNCHANGED rvars BY <1>1, <1>2, <1>5 DEF rvars, UptimeInv
<1>6. CASE ReadsCrash BY <1>1, <1>3, <1>6 DEF ReadsCrash, UptimeInv
<1> QED BY <1>4, <1>5, <1>6 DEF ReadsNext, allvars

LEMMA ToldHoldsTogether ==
    ASSUME ReadsInv
    PROVE  /\ PercentileFindsItsRow /\ FailuresAreExplained
           /\ UptimeInv => OverviewExplainsItsState
<1>1. \A r \in Readers : Content(r) BY DEF ReadsInv, Told
<1>2. PercentileFindsItsRow BY <1>1 DEF PercentileFindsItsRow, Content, RowFound
<1>3. FailuresAreExplained
  <2> SUFFICES ASSUME NEW r \in Readers, Answered(r, "results"), Answered(r, "errors"),
                      Len(reply[r]["errors"]) < ListLimit,
                      NEW i \in ToSet(reply[r]["results"]), ~db.results[i].up
               PROVE  \E e \in ToSet(reply[r]["errors"]) : db.errors[e] = db.results[i].ts
    BY DEF FailuresAreExplained
  <2> QED BY <1>1 DEF Content, Explained
<1>4. UptimeInv => OverviewExplainsItsState
  <2> SUFFICES ASSUME UptimeInv, NEW r \in Readers,
                      Answered(r, "status"), Answered(r, "totals"), Answered(r, "uptime"),
                      reply[r]["status"].LastCheckTS >= req[r].since
               PROVE  /\ reply[r]["status"].Up = 1 => reply[r]["totals"].Successful > 0
                                                   /\ reply[r]["uptime"].Percent > 0
                      /\ reply[r]["status"].Up = 0 => reply[r]["totals"].Failed > 0
                                                   /\ reply[r]["uptime"].Percent < 10000
    BY DEF OverviewExplainsItsState
  <2> QED BY <1>1 DEF Content, InTotals, UptimeInv, InUptime, Tells
<1> QED BY <1>2, <1>3, <1>4

(***************************************************************************)
(* A percentile whose latencies were counted finds the row it counted for, *)
(* and a list of checks read before a list of errors has an error for      *)
(* every failed check: for any number of loops and requests, any list of   *)
(* quantiles and any table, whatever is committed between two statements.  *)
(***************************************************************************)
THEOREM RowsCountedAreFound == ReadsSpec => [](PercentileFindsItsRow /\ FailuresAreExplained)
<1>1. ReadsInit => ReadsInv BY InitReadsInv
<1>2. ReadsInv /\ [ReadsNext]_allvars => ReadsInv' BY NextReadsInv
<1>3. ReadsInv => PercentileFindsItsRow /\ FailuresAreExplained BY ToldHoldsTogether
<1> QED BY <1>1, <1>2, <1>3, PTL DEF ReadsSpec

(***************************************************************************)
(* The replies of several statements hold together, the overview's too:    *)
(* state, totals and uptime of one row are read one after the other, and   *)
(* a site shown up has a success in its totals and an uptime above 0.  The *)
(* hypothesis is what the rounding of the percentage needs.                *)
(***************************************************************************)
THEOREM RepliesAreCoherent ==
    ASSUME MaxRows < 20000
    PROVE  ReadsSpec => []RepliesHoldTogether
<1> DEFINE I == ReadsInv /\ UptimeInv
<1>1. ReadsInit => I BY InitReadsInv, InitUptimeInv
<1>2. I /\ [ReadsNext]_allvars => I' BY NextReadsInv, NextUptimeInv
<1>3. I => RepliesHoldTogether BY ToldHoldsTogether DEF RepliesHoldTogether
<1> HIDE DEF I
<1> QED BY <1>1, <1>2, <1>3, PTL DEF ReadsSpec
=============================================================================

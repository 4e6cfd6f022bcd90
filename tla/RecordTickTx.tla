---------------------------- MODULE RecordTickTx ----------------------------
(***************************************************************************)
(* RecordTick statement by statement, as the implementation of SiteStore.  *)
(*                                                                         *)
(* The pool of a site database holds one connection (SetMaxOpenConns(1)),  *)
(* so a second loop's Begin waits until the first transaction ends; any    *)
(* statement, and the commit, may fail and return early, and the deferred  *)
(* Rollback must then undo the statements and give the connection back, or *)
(* every later tick and query of the site waits for ever.                  *)
(***************************************************************************)
EXTENDS SiteDB, FiniteSets

CONSTANTS Loops, Outcomes, MaxRows, MaxTime,
          Readers,  \* requests that read this database beside the loops
          Free      \* the connection is in the pool

ASSUME FreeAssumption == Free \notin Loops \cup Readers /\ Loops \cap Readers = {}
ASSUME OutcomesAssumption == Outcomes \subseteq Outcome /\ Outcomes # {}
ASSUME BoundsAssumption == IsFiniteSet(Loops) /\ MaxRows \in Nat

VARIABLES
    db, now, begun, base,   \* as in SiteStore
    at,         \* at[l]: where loop l's tick is
    found,      \* found[l]: what its RunTick found, until it is recorded
    conn,       \* the loop or reader holding the connection, or Free
    tx,         \* the database as the open transaction sees it
    incident    \* RecordTick's local curIncID, once the switch has run

vars == <<db, now, begun, base, at, found, conn, tx, incident>>

Statements == {"insert", "reconcile", "log", "update", "commit"}

\* The local variable before RunTick returns: any value will do.
NoTick == CHOOSE o \in Outcomes : TRUE

Init ==
    /\ \/ db = NewDB /\ base = 0
       \/ db = UpgradedDB /\ base = 1
    /\ now = 0
    /\ begun = [l \in Loops |-> NULL]
    /\ at = [l \in Loops |-> "idle"]
    /\ found = [l \in Loops |-> NoTick]
    /\ conn = Free
    /\ tx = db
    /\ incident = NULL

-----------------------------------------------------------------------------
Begin(l) ==
    /\ at[l] = "idle"
    /\ begun' = [begun EXCEPT ![l] = now]
    /\ at' = [at EXCEPT ![l] = "checking"]
    /\ UNCHANGED <<db, now, base, found, conn, tx, incident>>

\* Loops that are recording: each will add a row.
Recording == {l \in Loops : at[l] \in Statements \cup {"wait"}}

\* RunTick returns and RecordTick asks the pool for the connection.
RunTickReturns(l, o) ==
    /\ at[l] = "checking"
    /\ Len(db.results) + Cardinality(Recording) < MaxRows
    /\ found' = [found EXCEPT ![l] = o]
    /\ at' = [at EXCEPT ![l] = "wait"]
    /\ UNCHANGED <<db, now, begun, base, conn, tx, incident>>

BeginTx(l) ==
    /\ at[l] = "wait"
    /\ conn = Free
    /\ conn' = l
    /\ tx' = db
    /\ at' = [at EXCEPT ![l] = "insert"]
    /\ UNCHANGED <<db, now, begun, base, found, incident>>

\* One successful statement inside the transaction.
Exec(l, here, next, result) ==
    /\ at[l] = here
    /\ tx' = result
    /\ at' = [at EXCEPT ![l] = next]
    /\ UNCHANGED <<db, now, begun, base, found, conn>>

ExecInsert(l) ==
    /\ Exec(l, "insert", "reconcile", InsertResult(tx, begun[l], found[l]))
    /\ UNCHANGED incident

\* Reads the state row, then runs the case of the switch that applies.
ExecReconcile(l) ==
    /\ Exec(l, "reconcile", "log", ReconcileIncident(tx, begun[l], found[l]))
    /\ incident' = IncidentAfter(tx, found[l])

ExecLog(l) ==
    /\ Exec(l, "log", "update", LogErrors(tx, begun[l], found[l]))
    /\ UNCHANGED incident

ExecUpdate(l) ==
    /\ Exec(l, "update", "commit", UpdateState(tx, begun[l], found[l], incident))
    /\ UNCHANGED incident

\* The connection after the tick of loop l is over, one way or the other.
ConnAfter(l) == IF conn = l THEN Free ELSE conn

Return(l) ==
    /\ at' = [at EXCEPT ![l] = "idle"]
    /\ begun' = [begun EXCEPT ![l] = NULL]
    /\ conn' = ConnAfter(l)
    /\ incident' = IF conn = l THEN NULL ELSE incident
    /\ found' = [found EXCEPT ![l] = NoTick]
    /\ UNCHANGED <<now, base>>

Commit(l) ==
    /\ at[l] = "commit"
    /\ db' = tx
    /\ tx' = tx
    /\ Return(l)

DbKeepingTx(l) == IF conn = l THEN tx ELSE db

DbAfterFailure(l) == db

\* Begin, a statement or the commit returns an error: the early return runs
\* the deferred Rollback.  At "checking" it is the request that panics.  Begin
\* has no deadline: it fails only once it has been given the connection.
Fail(l) ==
    /\ at[l] \in Statements \cup {"checking", "wait"}
    /\ at[l] = "wait" => conn = Free
    /\ db' = DbAfterFailure(l)
    /\ tx' = IF conn = l THEN db' ELSE tx
    /\ Return(l)

\* The process dies at any point; SQLite recovers the last commit.
Crash ==
    /\ conn # Free \/ \E l \in Loops : at[l] # "idle"
    /\ at' = [l \in Loops |-> "idle"]
    /\ begun' = [l \in Loops |-> NULL]
    /\ conn' = Free
    /\ tx' = db
    /\ incident' = NULL
    /\ found' = [l \in Loops |-> NoTick]
    /\ UNCHANGED <<db, now, base>>

Pass ==
    /\ now < MaxTime
    /\ now' = now + 1
    /\ UNCHANGED <<db, begun, base, at, found, conn, tx, incident>>

\* The step loop l takes next on its own.
Step(l) ==
    \/ \E o \in Outcomes : RunTickReturns(l, o)
    \/ BeginTx(l)
    \/ ExecInsert(l)
    \/ ExecReconcile(l)
    \/ ExecLog(l)
    \/ ExecUpdate(l)
    \/ Commit(l)
    \/ Fail(l)

Next ==
    \/ \E l \in Loops : Begin(l) \/ Step(l)
    \/ Crash
    \/ Pass

Spec == Init /\ [][Next]_vars

\* A tick that has begun runs on.  database/sql serves the requests for its
\* connection in the order they were made, hence strong fairness for Begin.
FairSpec ==
    Spec /\ \A l \in Loops : WF_vars(Step(l)) /\ SF_vars(BeginTx(l))

-----------------------------------------------------------------------------
TypeOK ==
    /\ db \in DB /\ tx \in DB
    /\ now \in Nat /\ base \in Nat
    /\ begun \in [Loops -> Nullable]
    /\ at \in [Loops -> {"idle", "checking", "wait"} \cup Statements]
    /\ found \in [Loops -> Outcomes]
    /\ conn \in Loops \cup Readers \cup {Free}
    /\ incident \in Nullable

\* The connection is held by exactly the loop that is inside a transaction,
\* so no transaction ends without giving it back and no two overlap.
OneTransaction ==
    \A l \in Loops : (at[l] \in Statements) <=> (conn = l)

(***************************************************************************)
(* The transaction is atomic: the committed database moves as SiteStore    *)
(* says, by whole ticks, whatever statement fails and wherever the process *)
(* dies.                                                                   *)
(***************************************************************************)
SS == INSTANCE SiteStore

ImplementsSiteStore == SS!Spec

\* Every tick that has begun returns to its loop: no loop is left waiting for
\* a connection that never comes back.
TickReturns == \A l \in Loops : (at[l] # "idle") ~> (at[l] = "idle")
=============================================================================

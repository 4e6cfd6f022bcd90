----------------------------- MODULE Migrations -----------------------------
(***************************************************************************)
(* OpenRegistry: a starting process brings registry.db up to the latest    *)
(* version, each migration and its bump of PRAGMA user_version in one      *)
(* transaction.  It may die, or a statement may fail, anywhere; systemd    *)
(* starts it again, and the next process finds what was committed.         *)
(***************************************************************************)
EXTENDS Integers, Sequences

CONSTANTS
    History,      \* the migrations: a sequence of sequences of statements
    MaxFaults     \* bound on failed statements and crashes

Statement == [op : {"create", "add"}, name : STRING]

ASSUME HistoryAssumption == History \in Seq(Seq(Statement))

ASSUME FaultsAssumption == MaxFaults \in Nat

Latest == Len(History)

Create(name) == [op |-> "create", name |-> name]     \* ... IF NOT EXISTS
AddColumn(name) == [op |-> "add", name |-> name]

\* idx_sessions stands for the indexes: they are created the same way.
registryMigrations ==
    << <<Create("sites")>>,
       <<AddColumn("api_key_hash")>>,
       <<Create("admin_users")>>,
       <<Create("sessions"), Create("idx_sessions")>>,
       <<Create("alert_channels"), Create("alert_rules"), Create("alert_deliveries")>> >>

VARIABLES
    schema,      \* the tables and columns of the committed database
    version,     \* its user_version
    boot,        \* where the process is
    todo,        \* the migrations applyMigrations has still to run
    tx           \* what its open transaction sees

mvars == <<schema, version, boot, todo, tx>>

\* What the migrations 1..v define.
SchemaOf(v) == UNION {{History[i][j].name : j \in DOMAIN History[i]} : i \in 1..v}

NoTx == [schema |-> {}, version |-> 0, stmt |-> 1]

\* A database of any release, those from before user_version included: the
\* tables of the baseline, and version 0.
MigrationsInit ==
    /\ \E v \in 0..Latest :
        /\ version = v
        /\ \/ schema = SchemaOf(v)
           \/ v = 0 /\ Latest > 0 /\ schema = SchemaOf(1)
    /\ boot = "down"
    /\ todo = {}
    /\ tx = NoTx

-----------------------------------------------------------------------------
PendingFromCurrent(v) == {m \in 1..Latest : m >= v}

Pending(v) == {m \in 1..Latest : m > v}

\* openSQLite.
StartProcess ==
    /\ boot = "down"
    /\ boot' = "open"
    /\ UNCHANGED <<schema, version, todo, tx>>

ReadVersion ==
    /\ boot = "open"
    /\ boot' = "migrate"
    /\ todo' = Pending(version)
    /\ UNCHANGED <<schema, version, tx>>

BeginMigration ==
    /\ boot = "migrate"
    /\ todo # {}
    /\ boot' = "stmt"
    /\ tx' = [schema |-> schema, version |-> version, stmt |-> 1]
    /\ UNCHANGED <<schema, version, todo>>

\* The migration under way, and its next statement.
Current == CHOOSE m \in todo : \A n \in todo : m <= n

Stmt == History[Current][tx.stmt]

Refused(stmt) == stmt.op = "add" /\ stmt.name \in tx.schema

ExecStmt ==
    /\ boot = "stmt"
    /\ tx.stmt <= Len(History[Current])
    /\ ~Refused(Stmt)
    /\ tx' = [tx EXCEPT !.schema = @ \cup {Stmt.name}, !.stmt = @ + 1]
    /\ UNCHANGED <<schema, version, boot, todo>>

SetVersion ==
    /\ boot = "stmt"
    /\ tx.stmt > Len(History[Current])
    /\ tx' = [tx EXCEPT !.version = Current]
    /\ boot' = "commit"
    /\ UNCHANGED <<schema, version, todo>>

CommitMigration ==
    /\ boot = "commit"
    /\ schema' = tx.schema
    /\ version' = tx.version
    /\ todo' = todo \ {Current}
    /\ boot' = "migrate"
    /\ tx' = NoTx

\* The registry is open; the rest of run follows.
Opened ==
    /\ boot = "migrate"
    /\ todo = {}
    /\ boot' = "serving"
    /\ UNCHANGED <<schema, version, todo, tx>>

\* What the file holds once a transaction is rolled back, or recovered from.
SchemaKeepingTx(sees) == schema \cup sees

SchemaAfter(sees) == schema

\* The process ends: log.Fatal on an error, or a crash.
BootEnds ==
    /\ boot # "down"
    /\ boot' = "down"
    /\ schema' = SchemaAfter(tx.schema)
    /\ todo' = {}
    /\ tx' = NoTx
    /\ UNCHANGED version

\* A statement that cannot succeed.
StmtRefused ==
    /\ boot = "stmt"
    /\ tx.stmt <= Len(History[Current])
    /\ Refused(Stmt)
    /\ BootEnds

BootStep ==
    \/ StartProcess \/ ReadVersion \/ BeginMigration \/ ExecStmt
    \/ SetVersion \/ CommitMigration \/ Opened \/ StmtRefused

-----------------------------------------------------------------------------
(* Each migration and its version number reach the file together: no crash *)
(* and no failing statement leaves a database half migrated (migrate.go,   *)
(* applyMigrations).  Only the baseline may be there without its number.   *)
SchemaMatchesVersion ==
    \/ schema = SchemaOf(version)
    \/ version = 0 /\ Latest > 0 /\ schema = SchemaOf(1)
=============================================================================

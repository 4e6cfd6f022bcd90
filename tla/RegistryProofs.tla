--------------------------- MODULE RegistryProofs ---------------------------
(***************************************************************************)
(* The registry for any history of migrations, and any clients, requests,  *)
(* bodies, faults and sites: a file is never half migrated; a rule names a *)
(* channel that exists; and settings are what they were last asked to be.  *)
(*                                                                         *)
(* The migrations touch no row, and no handler the schema, so there are    *)
(* two invariants, each kept by the steps of the other.                    *)
(***************************************************************************)
EXTENDS AlertConfig, TLAPS

Names(m) == {History[m][j].name : j \in DOMAIN History[m]}

NamesBefore(m, i) == {History[m][j].name : j \in 1..(i - 1)}

Boots == {"down", "open", "migrate", "stmt", "commit", "serving"}

\* What an open transaction has added to the committed schema.
TxOK ==
    /\ tx \in [schema : SUBSET STRING, version : Int, stmt : Nat]
    /\ boot = "stmt" =>
        /\ tx.stmt \in 1..(Len(History[version + 1]) + 1)
        /\ tx.schema = schema \cup NamesBefore(version + 1, tx.stmt)
    /\ boot = "commit" =>
        /\ tx.version = version + 1
        /\ tx.schema = schema \cup Names(version + 1)

MigrationsInv ==
    /\ version \in 0..Latest
    /\ boot \in Boots
    /\ schema \subseteq STRING
    /\ todo \subseteq 1..Latest
    /\ SchemaMatchesVersion
    /\ boot \in {"migrate", "stmt", "commit"} => todo = Pending(version)
    /\ boot \in {"stmt", "commit"} => todo # {}
    /\ TxOK

LEMMA HistoryType ==
    /\ Latest \in Nat
    /\ \A m \in 1..Latest :
        /\ Len(History[m]) \in Nat
        /\ DOMAIN History[m] = 1..Len(History[m])
        /\ \A j \in 1..Len(History[m]) : History[m][j].name \in STRING
<1>1. History \in Seq(Seq(Statement)) BY HistoryAssumption DEF HistoryAssumption
<1>2. Latest \in Nat /\ DOMAIN History = 1..Latest BY <1>1 DEF Latest
<1>3. \A m \in 1..Latest : History[m] \in Seq(Statement) BY <1>1, <1>2
<1>4. ASSUME NEW m \in 1..Latest, NEW j \in 1..Len(History[m])
      PROVE  History[m][j].name \in STRING
  <2>1. History[m][j] \in Statement BY <1>3
  <2> QED BY <2>1 DEF Statement
<1>5. \A m \in 1..Latest : Len(History[m]) \in Nat /\ DOMAIN History[m] = 1..Len(History[m])
  BY <1>3
<1> QED BY <1>2, <1>4, <1>5

LEMMA SchemaStrings == \A v \in 0..Latest : SchemaOf(v) \subseteq STRING
BY HistoryType DEF SchemaOf

\* One more migration adds its names.
LEMMA SchemaGrows ==
    ASSUME NEW v \in 0..Latest, v < Latest
    PROVE  SchemaOf(v + 1) = SchemaOf(v) \cup Names(v + 1)
<1>1. 1..(v + 1) = (1..v) \cup {v + 1} BY HistoryType
<1> QED BY <1>1 DEF SchemaOf, Names

\* The next migration is the one after the version, and is the last or not.
LEMMA NextMigration ==
    ASSUME NEW v \in 0..Latest, todo = Pending(v), todo # {}
    PROVE  /\ Current = v + 1
           /\ v < Latest
           /\ todo \ {Current} = Pending(v + 1)
<1>1. v + 1 \in todo /\ \A n \in todo : v + 1 <= n BY HistoryType DEF Pending
<1>2. \A m \in todo : (\A n \in todo : m <= n) => m = v + 1 BY <1>1, HistoryType DEF Pending
<1>3. Current = v + 1 BY <1>1, <1>2 DEF Current
<1> QED BY <1>1, <1>3, HistoryType DEF Pending

LEMMA MigrationsInitially == MigrationsInit => MigrationsInv
<1> SUFFICES ASSUME MigrationsInit PROVE MigrationsInv OBVIOUS
<1>1. PICK v \in 0..Latest :
        /\ version = v
        /\ schema = SchemaOf(v) \/ (v = 0 /\ Latest > 0 /\ schema = SchemaOf(1))
  BY DEF MigrationsInit
<1>2. SchemaMatchesVersion BY <1>1 DEF SchemaMatchesVersion
<1>3. schema \subseteq STRING BY <1>1, SchemaStrings, HistoryType
<1>4. TxOK BY DEF MigrationsInit, TxOK, NoTx
<1> QED BY <1>1, <1>2, <1>3, <1>4 DEF MigrationsInit, MigrationsInv, Boots

LEMMA EndingKeeps ==
    ASSUME MigrationsInv, BootEnds
    PROVE  MigrationsInv'
<1>1. schema' = schema /\ version' = version /\ boot' = "down" /\ todo' = {} /\ tx' = NoTx
  BY DEF BootEnds, SchemaAfter
<1>2. TxOK' BY <1>1 DEF TxOK, NoTx
<1> QED BY <1>1, <1>2 DEF MigrationsInv, SchemaMatchesVersion, Boots

LEMMA MigrationStarts ==
    ASSUME MigrationsInv, StartProcess \/ ReadVersion \/ Opened \/ BeginMigration
    PROVE  MigrationsInv'
<1>1. schema' = schema /\ version' = version
  BY DEF StartProcess, ReadVersion, Opened, BeginMigration
<1>2. CASE StartProcess \/ ReadVersion \/ Opened
  <2>1. tx' = tx /\ boot' \in {"open", "migrate", "serving"}
    BY <1>2 DEF StartProcess, ReadVersion, Opened
  <2>2. TxOK' BY <2>1 DEF MigrationsInv, TxOK
  <2>3. todo' \subseteq 1..Latest /\ (boot' = "migrate" => todo' = Pending(version))
    BY <1>2 DEF StartProcess, ReadVersion, Opened, MigrationsInv, Pending
  <2> QED BY <1>1, <2>1, <2>2, <2>3 DEF MigrationsInv, SchemaMatchesVersion, Boots, Pending
<1>3. CASE BeginMigration
  <2>1. /\ tx' = [schema |-> schema, version |-> version, stmt |-> 1]
        /\ boot = "migrate" /\ boot' = "stmt" /\ todo' = todo /\ todo # {}
    BY <1>3 DEF BeginMigration
  <2>2. version < Latest BY <2>1, NextMigration DEF MigrationsInv
  <2>3. NamesBefore(version + 1, 1) = {} BY DEF NamesBefore
  <2>4. TxOK' BY <1>1, <2>1, <2>2, <2>3, HistoryType DEF MigrationsInv, TxOK
  <2> QED BY <1>1, <2>1, <2>4 DEF MigrationsInv, SchemaMatchesVersion, Boots, Pending
<1> QED BY <1>2, <1>3

\* Statements of one transaction, then the number, then both to the file.
LEMMA MigrationRuns ==
    ASSUME MigrationsInv, ExecStmt \/ SetVersion \/ CommitMigration
    PROVE  MigrationsInv'
<1>1. /\ boot \in {"stmt", "commit"} /\ todo = Pending(version) /\ todo # {}
      /\ version \in 0..Latest
  BY DEF ExecStmt, SetVersion, CommitMigration, MigrationsInv
<1>2. /\ Current = version + 1 /\ version < Latest
      /\ todo \ {Current} = Pending(version + 1)
  BY <1>1, NextMigration
<1>3. /\ Len(History[version + 1]) \in Nat
      /\ DOMAIN History[version + 1] = 1..Len(History[version + 1])
      /\ \A j \in 1..Len(History[version + 1]) : History[version + 1][j].name \in STRING
  BY <1>1, <1>2, HistoryType
<1>4. CASE ExecStmt
  <2>1. /\ boot = "stmt" /\ tx.stmt \in 1..Len(History[version + 1])
        /\ tx.schema = schema \cup NamesBefore(version + 1, tx.stmt)
        /\ tx.schema \in SUBSET STRING
    BY <1>2, <1>3, <1>4 DEF ExecStmt, MigrationsInv, TxOK
  <2>2. /\ tx' \in [schema : SUBSET STRING, version : Int, stmt : Nat]
        /\ tx'.stmt = tx.stmt + 1
        /\ tx'.schema = tx.schema \cup {History[version + 1][tx.stmt].name}
    <3> DEFINE name == History[version + 1][tx.stmt].name
    <3>1. name \in STRING BY <1>3, <2>1
    <3>2. tx \in [schema : SUBSET STRING, version : Int, stmt : Nat]
      BY DEF MigrationsInv, TxOK
    <3>3. tx' = [tx EXCEPT !.schema = tx.schema \cup {name}, !.stmt = tx.stmt + 1]
      BY <1>2, <1>4 DEF ExecStmt, Stmt
    <3> HIDE DEF name
    <3>4. /\ tx'.schema = tx.schema \cup {name} /\ tx'.stmt = tx.stmt + 1
          /\ tx'.version = tx.version
          /\ tx' = [schema |-> tx'.schema, version |-> tx'.version, stmt |-> tx'.stmt]
      BY <3>2, <3>3
    <3>5. tx' \in [schema : SUBSET STRING, version : Int, stmt : Nat]
      BY <3>1, <3>2, <3>4
    <3> QED BY <3>4, <3>5 DEF name
  <2>3. 1..tx.stmt = (1..(tx.stmt - 1)) \cup {tx.stmt} BY <2>1, <1>3
  <2>4. NamesBefore(version + 1, tx.stmt + 1)
            = NamesBefore(version + 1, tx.stmt) \cup {History[version + 1][tx.stmt].name}
    <3>1. (tx.stmt + 1) - 1 = tx.stmt BY <2>1, <1>3
    <3> QED BY <2>3, <3>1 DEF NamesBefore
  <2>5. /\ schema' = schema /\ version' = version /\ boot' = boot /\ todo' = todo
    BY <1>4 DEF ExecStmt
  <2>6. TxOK' BY <1>3, <2>1, <2>2, <2>4, <2>5 DEF TxOK
  <2> QED BY <2>5, <2>6 DEF MigrationsInv, SchemaMatchesVersion, Pending
<1>5. CASE SetVersion
  <2>1. /\ boot = "stmt" /\ tx.stmt = Len(History[version + 1]) + 1
        /\ tx.schema = schema \cup NamesBefore(version + 1, tx.stmt)
        /\ tx \in [schema : SUBSET STRING, version : Int, stmt : Nat]
    BY <1>2, <1>3, <1>5 DEF SetVersion, MigrationsInv, TxOK
  <2>2. tx.stmt - 1 = Len(History[version + 1]) BY <2>1, <1>3
  <2>3. NamesBefore(version + 1, tx.stmt) = Names(version + 1)
    BY <2>2, <1>3 DEF NamesBefore, Names
  <2>4. /\ tx' \in [schema : SUBSET STRING, version : Int, stmt : Nat]
        /\ tx'.version = version + 1 /\ tx'.schema = tx.schema
        /\ schema' = schema /\ version' = version /\ boot' = "commit" /\ todo' = todo
    BY <1>1, <1>2, <1>5, <2>1 DEF SetVersion
  <2>5. TxOK' BY <2>1, <2>3, <2>4 DEF TxOK
  <2> QED BY <1>1, <2>4, <2>5 DEF MigrationsInv, SchemaMatchesVersion, Pending, Boots
<1>6. CASE CommitMigration
  <2>1. /\ schema' = schema \cup Names(version + 1) /\ version' = version + 1
        /\ boot' = "migrate" /\ tx' = NoTx /\ todo' = Pending(version')
    BY <1>2, <1>6 DEF CommitMigration, MigrationsInv, TxOK
  <2>2. SchemaOf(version + 1) = SchemaOf(version) \cup Names(version + 1)
    BY <1>1, <1>2, SchemaGrows
  <2>3. schema' = SchemaOf(version')
    <3>1. CASE schema = SchemaOf(version) BY <3>1, <2>1, <2>2
    <3>2. CASE version = 0 /\ schema = SchemaOf(1)
      <4>1. SchemaOf(1) = SchemaOf(0) \cup Names(1) BY <2>2, <3>2
      <4> QED BY <4>1, <3>2, <2>1
    <3> QED BY <3>1, <3>2 DEF MigrationsInv, SchemaMatchesVersion
  <2>4. version' \in 0..Latest BY <1>1, <1>2, <2>1, HistoryType
  <2>5. schema' \subseteq STRING BY <2>3, <2>4, SchemaStrings
  <2>6. TxOK' BY <2>1 DEF TxOK, NoTx
  <2>7. todo' \subseteq 1..Latest BY <2>1 DEF Pending
  <2>8. SchemaMatchesVersion' BY <2>3 DEF SchemaMatchesVersion, SchemaOf, Latest
  <2> QED BY <2>1, <2>4, <2>5, <2>6, <2>7, <2>8 DEF MigrationsInv, Boots, Pending
<1> QED BY <1>4, <1>5, <1>6

LEMMA BootKeeps ==
    ASSUME MigrationsInv, BootStep
    PROVE  MigrationsInv'
<1>1. CASE StmtRefused BY <1>1, EndingKeeps DEF StmtRefused
<1> QED BY <1>1, MigrationStarts, MigrationRuns DEF BootStep

LEMMA OthersKeepMigrations ==
    ASSUME MigrationsInv, UNCHANGED mvars
    PROVE  MigrationsInv'
BY DEF mvars, MigrationsInv, TxOK, SchemaMatchesVersion, Pending

LEMMA GoesKeepsSchema ==
    ASSUME NEW p, NEW ok, NEW next, Goes(p, ok, next)
    PROVE  UNCHANGED mvars
BY DEF Goes

LEMMA HandlersKeepSchema ==
    ASSUME NEW p \in Clients, Handler(p)
    PROVE  UNCHANGED mvars
<1>1. CASE ReadRow(p) \/ CheckChannel(p) \/ CheckSite(p) \/ CheckRange(p) \/ Refuse(p)
  BY <1>1, GoesKeepsSchema DEF ReadRow, CheckChannel, CheckSite, CheckRange, Refuse
<1>2. CASE Accept(p) \/ StatementFails(p) BY <1>2 DEF Accept, StatementFails
<1>3. CASE Insert(p) \/ Update(p) BY <1>3 DEF Insert, Update, Put
<1>4. CASE Delete(p) BY <1>4 DEF Delete
<1> QED BY <1>1, <1>2, <1>3, <1>4 DEF Handler

(* The migrations' invariant holds whatever the handlers do.               *)
THEOREM MigrationsTheorem == Spec => []MigrationsInv
<1>1. Init => MigrationsInv BY MigrationsInitially DEF Init
<1>2. MigrationsInv /\ [Next]_vars => MigrationsInv'
  <2> SUFFICES ASSUME MigrationsInv, [Next]_vars PROVE MigrationsInv' OBVIOUS
  <2>1. CASE Boot BY <2>1, BootKeeps DEF Boot
  <2>2. CASE Crash BY <2>2, EndingKeeps DEF Crash
  <2>3. CASE SitesChange BY <2>3, OthersKeepMigrations DEF SitesChange
  <2>4. CASE \E p \in Clients : Handler(p) BY <2>4, HandlersKeepSchema, OthersKeepMigrations
  <2>5. CASE UNCHANGED vars BY <2>5, OthersKeepMigrations DEF vars
  <2> QED BY <2>1, <2>2, <2>3, <2>4, <2>5 DEF Next
<1> QED BY <1>1, <1>2, PTL DEF Spec

(* A file is at the version it says, after any number of starts cut short. *)
THEOREM SchemaTheorem == Spec => []SchemaMatchesVersion
<1>1. MigrationsInv => SchemaMatchesVersion BY DEF MigrationsInv
<1> QED BY <1>1, MigrationsTheorem, PTL

-----------------------------------------------------------------------------
ChannelRows == [enabled : BOOLEAN]

RuleRows == [site : SiteIds \cup {AnySite}, channel : Nat, kind : Kinds,
             enabled : BOOLEAN, confirm : 1..100]

Bodies == ChannelInputs \cup RuleInputs \cup {<<>>}

AnyRow == ChannelRows \cup RuleRows \cup {<<>>}

Places == {"done", "read", "channel", "site", "range", "write"}

RequestRecords ==
    [op : {"none", "create", "update", "delete"},
     table : {"none", "channel", "rule"},
     at : Places,
     id : TargetIds \cup {0}, in : Bodies, row : AnyRow, stale : BOOLEAN]

\* What a request carries suits its table and how far it has come.
Suits(r) ==
    /\ r.op \in {"create", "update"} =>
        /\ r.table = "channel" => r.in \in ChannelInputs /\ r.at \in {"read", "write"}
        /\ r.table = "rule" => r.in \in RuleInputs
        /\ r.table \in {"channel", "rule"}
    /\ r.op = "update" /\ r.at # "read" =>
        /\ r.table = "channel" => r.row \in ChannelRows
        /\ r.table = "rule" => r.row \in RuleRows
    /\ r.op # "none" /\ r.at \in {"read", "channel", "site", "range"} =>
        r.op \in {"create", "update"}
    /\ r.op \in {"create", "update"} /\ r.table = "rule" /\ r.at = "write" =>
        InRange(r.in.confirm)
    /\ r.op = "none" => r.at = "done"
    /\ r.op = "delete" => r.table \in {"channel", "rule"}

\* An update that nothing overtook holds the row as it is.
Fresh(r) ==
    r.op = "update" /\ r.at # "read" /\ ~r.stale =>
        r.id \in DOMAIN Table(r.table) /\ r.row = Table(r.table)[r.id]

RequestsInv ==
    /\ req \in [Clients -> RequestRecords]
    /\ \A p \in Clients : Suits(req[p]) /\ Fresh(req[p])

TablesInv ==
    /\ sites \subseteq SiteIds
    /\ \A id \in DOMAIN channels : channels[id] \in ChannelRows
    /\ \A id \in DOMAIN rules :
        rules[id] \in RuleRows /\ rules[id].channel \in DOMAIN channels

ChannelAgrees(a, row) == a.enabled \subseteq {row.enabled}

RuleAgrees(a, row) ==
    /\ a.site = row.site /\ a.channel = row.channel /\ a.kind = row.kind
    /\ a.enabled \subseteq {row.enabled}
    /\ a.confirm \subseteq {row.confirm}

AskedInv ==
    /\ asked = [channel |-> asked.channel, rule |-> asked.rule]
    /\ DOMAIN asked.channel = DOMAIN channels
    /\ DOMAIN asked.rule = DOMAIN rules
    /\ \A id \in DOMAIN channels : ChannelAgrees(asked.channel[id], channels[id])
    /\ \A id \in DOMAIN rules : RuleAgrees(asked.rule[id], rules[id])

UsedInv ==
    used \in [requests : 0..MaxRequests, sites : 0..MaxSiteChanges, faults : 0..MaxFaults]

RowsInv == TablesInv /\ AskedInv /\ RequestsInv /\ UsedInv

\* What is read of the tables and the history is theirs alone.
LEMMA RowsUnchanged ==
    ASSUME RowsInv, UNCHANGED <<sites, channels, rules, asked>>,
           RequestsInv', UsedInv'
    PROVE  RowsInv'
BY DEF RowsInv, TablesInv, AskedInv

LEMMA BodyType ==
    /\ \A in \in ChannelInputs : IsOptional(in.enabled, BOOLEAN)
    /\ \A in \in RuleInputs :
        /\ in.site \in SiteIds \cup {AnySite} /\ in.channel \in Nat /\ in.kind \in Kinds
        /\ IsOptional(in.enabled, BOOLEAN) /\ IsOptional(in.confirm, Nat)
BY AlertConfigAssumption DEF AlertConfigAssumption

\* A field that is given is taken; one that is not is kept.
LEMMA GivenField ==
    ASSUME NEW S, NEW field, NEW kept, IsOptional(field, S)
    PROVE  /\ field = {} => Given(field, kept) = kept
           /\ field # {} => Given(field, kept) \in S /\ field = {Given(field, kept)}
BY DEF Given, IsOptional

LEMMA FieldAgrees ==
    ASSUME NEW S, NEW field, NEW kept, NEW before, NEW stale \in BOOLEAN,
           IsOptional(field, S), ~stale => before \subseteq {kept}
    PROVE  LastAsked(field, before, stale) \subseteq {Given(field, kept)}
<1>1. /\ field = {} => Given(field, kept) = kept
      /\ field # {} => field = {Given(field, kept)}
  BY GivenField
<1>2. CASE field # {} BY <1>1, <1>2 DEF LastAsked
<1>3. CASE field = {} /\ stale BY <1>3 DEF LastAsked
<1>4. CASE field = {} /\ ~stale BY <1>1, <1>4 DEF LastAsked
<1> QED BY <1>2, <1>3, <1>4

\* The request of one client changes; the others, and all else, stay.
LEMMA OneRequest ==
    ASSUME RequestsInv, NEW p \in Clients, NEW r \in RequestRecords,
           Suits(r), Fresh(r), req' = [req EXCEPT ![p] = r],
           UNCHANGED <<channels, rules>>
    PROVE  RequestsInv'
<1>1. req' \in [Clients -> RequestRecords] BY DEF RequestsInv
<1>2. \A q \in Clients : req'[q] = IF q = p THEN r ELSE req[q] BY DEF RequestsInv
<1>3. \A q \in Clients : Suits(req'[q]) BY <1>2 DEF RequestsInv
<1>4. ASSUME NEW q \in Clients PROVE Fresh(req[q])'
  <2>1. Fresh(req'[q]) BY <1>2 DEF RequestsInv
  <2> QED BY <2>1 DEF Fresh, Table
<1>5. \A q \in Clients : Suits(req[q])' BY <1>3 DEF Suits, InRange
<1> QED BY <1>1, <1>4, <1>5 DEF RequestsInv

LEMMA IdleOK == Idle \in RequestRecords /\ Suits(Idle) /\ Fresh(Idle)
<1>1. <<>> \in Bodies /\ <<>> \in AnyRow BY DEF Bodies, AnyRow
<1> QED BY <1>1 DEF Idle, Request, RequestRecords, Places, Suits, Fresh

LEMMA RowsInitially == Init => RowsInv
<1> SUFFICES ASSUME Init PROVE RowsInv OBVIOUS
<1>1. /\ sites = SiteIds /\ DOMAIN channels = {} /\ DOMAIN rules = {}
      /\ asked = [channel |-> channels, rule |-> rules]
  BY DEF Init
<1>2. TablesInv /\ AskedInv BY <1>1 DEF TablesInv, AskedInv
<1>3. RequestsInv BY IdleOK DEF Init, RequestsInv
<1>4. UsedInv BY AlertConfigAssumption, FaultsAssumption
  DEF Init, UsedInv, AlertConfigAssumption, FaultsAssumption
<1> QED BY <1>2, <1>3, <1>4 DEF RowsInv

LEMMA RequestsOK == \A r \in Requests : r \in RequestRecords /\ Suits(r) /\ Fresh(r)
<1>1. /\ ChannelInputs \subseteq Bodies /\ RuleInputs \subseteq Bodies /\ <<>> \in Bodies
      /\ <<>> \in AnyRow
  BY DEF Bodies, AnyRow
<1>2. ASSUME NEW op, NEW table, NEW at, NEW id, NEW in
      PROVE  Request(op, table, at, id, in)
                = [op |-> op, table |-> table, at |-> at, id |-> id,
                   in |-> in, row |-> <<>>, stale |-> FALSE]
  BY DEF Request
<1>3. ASSUME NEW i \in ChannelInputs
      PROVE  LET r == Request("create", "channel", "write", 0, i)
             IN  r \in RequestRecords /\ Suits(r) /\ Fresh(r)
  BY <1>1, <1>2 DEF RequestRecords, Places, Suits, Fresh
<1>4. ASSUME NEW i \in ChannelInputs, NEW id \in TargetIds
      PROVE  LET r == Request("update", "channel", "read", id, i)
             IN  r \in RequestRecords /\ Suits(r) /\ Fresh(r)
  BY <1>1, <1>2 DEF RequestRecords, Places, Suits, Fresh
<1>5. ASSUME NEW i \in RuleInputs
      PROVE  LET r == Request("create", "rule", "channel", 0, i)
             IN  r \in RequestRecords /\ Suits(r) /\ Fresh(r)
  BY <1>1, <1>2 DEF RequestRecords, Places, Suits, Fresh
<1>6. ASSUME NEW i \in RuleInputs, NEW id \in TargetIds
      PROVE  LET r == Request("update", "rule", "read", id, i)
             IN  r \in RequestRecords /\ Suits(r) /\ Fresh(r)
  BY <1>1, <1>2 DEF RequestRecords, Places, Suits, Fresh
<1>7. ASSUME NEW t \in {"channel", "rule"}, NEW id \in TargetIds
      PROVE  LET r == Request("delete", t, "write", id, <<>>)
             IN  r \in RequestRecords /\ Suits(r) /\ Fresh(r)
  BY <1>1, <1>2 DEF RequestRecords, Places, Suits, Fresh
<1> QED BY <1>3, <1>4, <1>5, <1>6, <1>7 DEF Requests

LEMMA AcceptKeeps ==
    ASSUME RowsInv, NEW p \in Clients, Accept(p)
    PROVE  RowsInv'
<1>1. PICK r \in Requests : req' = [req EXCEPT ![p] = r] BY DEF Accept
<1>2. RequestsInv' BY <1>1, RequestsOK, OneRequest DEF Accept, RowsInv
<1>3. UsedInv' BY AlertConfigAssumption DEF AlertConfigAssumption, RowsInv, UsedInv, Accept
<1> QED BY <1>2, <1>3, RowsUnchanged DEF Accept

\* A statement that only reads keeps all when what follows is in order.
LEMMA GoesKeeps ==
    ASSUME RowsInv, NEW p \in Clients, NEW ok \in BOOLEAN, NEW next, Goes(p, ok, next),
           ok => next \in RequestRecords /\ Suits(next) /\ Fresh(next)
    PROVE  RowsInv'
<1>1. PICK r \in RequestRecords : Suits(r) /\ Fresh(r) /\ req' = [req EXCEPT ![p] = r]
  BY IdleOK DEF Goes
<1>2. RequestsInv' BY <1>1, OneRequest DEF Goes, RowsInv
<1>3. UsedInv' BY DEF Goes, RowsInv, UsedInv
<1> QED BY <1>2, <1>3, RowsUnchanged DEF Goes

LEMMA RequestMoves ==
    ASSUME NEW r \in RequestRecords, NEW at \in Places, Suits(r), Fresh(r), r.op # "none",
           r.table = "rule", r.op \in {"create", "update"}, r.at # "read",
           at = "write" => InRange(r.in.confirm)
    PROVE  LET n == [r EXCEPT !.at = at] IN
           n \in RequestRecords /\ Suits(n) /\ Fresh(n)
<1> DEFINE n == [r EXCEPT !.at = at]
<1>1. /\ n \in RequestRecords /\ n.at = at /\ n.op = r.op /\ n.table = r.table
      /\ n.id = r.id /\ n.in = r.in /\ n.row = r.row /\ n.stale = r.stale
  BY DEF RequestRecords, Places
<1> HIDE DEF n
<1>2. Suits(n) BY <1>1 DEF Suits, RequestRecords, Places
<1>3. Fresh(n) BY <1>1 DEF Fresh
<1>4. n \in RequestRecords /\ Suits(n) /\ Fresh(n) BY <1>1, <1>2, <1>3
<1> QED BY <1>4 DEF n

LEMMA RequestReads ==
    ASSUME NEW r \in RequestRecords, NEW row \in AnyRow, NEW at \in Places,
           Suits(r), r.at = "read",
           r.id \in DOMAIN Table(r.table), row = Table(r.table)[r.id],
           r.table = "channel" => row \in ChannelRows /\ at = "write",
           r.table # "channel" => row \in RuleRows /\ at = "channel"
    PROVE  LET n == Holding(r, row, at) IN
           n \in RequestRecords /\ Suits(n) /\ Fresh(n)
<1> DEFINE a == [r EXCEPT !.row = row]
           b == [a EXCEPT !.stale = FALSE]
           c == [b EXCEPT !.at = at]
<1>1. /\ a \in RequestRecords /\ a.op = r.op /\ a.table = r.table
      /\ a.id = r.id /\ a.in = r.in /\ a.row = row
  BY DEF RequestRecords, Places
<1> HIDE DEF a
<1>2. /\ b \in RequestRecords /\ b.op = a.op /\ b.table = a.table
      /\ b.id = a.id /\ b.in = a.in /\ b.row = a.row /\ b.stale = FALSE
  BY <1>1 DEF RequestRecords, Places
<1> HIDE DEF b
<1>3. /\ c \in RequestRecords /\ c.op = b.op /\ c.table = b.table
      /\ c.id = b.id /\ c.in = b.in /\ c.row = b.row /\ c.stale = FALSE /\ c.at = at
  BY <1>2 DEF RequestRecords, Places
<1>4. c = Holding(r, row, at) BY DEF a, b, Holding
<1> HIDE DEF c
<1>5. Suits(c) BY <1>1, <1>2, <1>3 DEF Suits, RequestRecords, Places
<1>6. Fresh(c) BY <1>1, <1>2, <1>3 DEF Fresh
<1> QED BY <1>3, <1>4, <1>5, <1>6

LEMMA ReadRowKeeps ==
    ASSUME RowsInv, NEW p \in Clients, ReadRow(p)
    PROVE  RowsInv'
<1> DEFINE r == req[p]
           row == Table(r.table)[r.id]
           at == IF r.table = "channel" THEN "write" ELSE "channel"
           n == Holding(r, row, at)
<1>1. r \in RequestRecords /\ Suits(r) /\ r.at = "read" BY DEF RowsInv, RequestsInv, ReadRow, At
<1>2. Goes(p, r.id \in DOMAIN Table(r.table), n) BY DEF ReadRow
<1>3. ASSUME r.id \in DOMAIN Table(r.table)
      PROVE  n \in RequestRecords /\ Suits(n) /\ Fresh(n)
  <2>1. /\ r.table = "channel" => row \in ChannelRows /\ at = "write"
        /\ r.table # "channel" => row \in RuleRows /\ at = "channel"
    BY <1>3 DEF RowsInv, TablesInv, Table
  <2>2. row \in AnyRow /\ at \in Places BY <2>1 DEF AnyRow, Places
  <2>3. row = Table(r.table)[r.id] OBVIOUS
  <2> HIDE DEF r, row, at
  <2> QED BY <1>1, <1>3, <2>1, <2>2, <2>3, RequestReads
<1> HIDE DEF n
<1>4. (r.id \in DOMAIN Table(r.table)) \in BOOLEAN OBVIOUS
<1> QED BY <1>2, <1>3, <1>4, GoesKeeps

\* The statements of decodeRule.
LEMMA DecodeKeeps ==
    ASSUME RowsInv, NEW p \in Clients, CheckChannel(p) \/ CheckSite(p) \/ CheckRange(p)
    PROVE  RowsInv'
<1> DEFINE r == req[p]
<1>1. /\ r \in RequestRecords /\ Suits(r) /\ Fresh(r) /\ r.at \in {"channel", "site", "range"}
  BY DEF RowsInv, RequestsInv, CheckChannel, CheckSite, CheckRange, At
<1>2. r.op \in {"create", "update"} /\ r.table = "rule" /\ r.op # "none" /\ r.at # "read"
  BY <1>1 DEF Suits, RequestRecords
<1>3. ASSUME NEW at \in Places, at = "write" => InRange(r.in.confirm)
      PROVE  LET n == [r EXCEPT !.at = at] IN n \in RequestRecords /\ Suits(n) /\ Fresh(n)
  <2> HIDE DEF r
  <2> QED BY <1>1, <1>2, <1>3, RequestMoves
<1>4. \A at \in Places : at # "write" =>
        LET n == [r EXCEPT !.at = at] IN n \in RequestRecords /\ Suits(n) /\ Fresh(n)
  BY <1>3
<1>5. CASE CheckChannel(p)
  <2> DEFINE at == IF r.in.site = AnySite THEN "range" ELSE "site"
  <2>1. at \in Places /\ at # "write" BY DEF Places
  <2>2. Goes(p, r.in.channel \in DOMAIN channels, [r EXCEPT !.at = at]) BY <1>5 DEF CheckChannel
  <2>3. (r.in.channel \in DOMAIN channels) \in BOOLEAN OBVIOUS
  <2> DEFINE n == [r EXCEPT !.at = at]
  <2>4. n \in RequestRecords /\ Suits(n) /\ Fresh(n) BY <1>4, <2>1
  <2> HIDE DEF r, at, n
  <2> QED BY <2>2, <2>3, <2>4, GoesKeeps DEF n
<1>6. CASE CheckSite(p)
  <2>1. "range" \in Places BY DEF Places
  <2>2. Goes(p, r.in.site \in sites, [r EXCEPT !.at = "range"]) BY <1>6 DEF CheckSite
  <2>3. (r.in.site \in sites) \in BOOLEAN OBVIOUS
  <2> HIDE DEF r
  <2> QED BY <1>4, <2>1, <2>2, <2>3, GoesKeeps
<1>7. CASE CheckRange(p)
  <2>1. "write" \in Places BY DEF Places
  <2>2. Goes(p, InRange(r.in.confirm), [r EXCEPT !.at = "write"]) BY <1>7 DEF CheckRange
  <2>3. InRange(r.in.confirm) \in BOOLEAN BY DEF InRange
  <2> HIDE DEF r
  <2> QED BY <1>3, <2>1, <2>2, <2>3, GoesKeeps
<1> QED BY <1>5, <1>6, <1>7

LEMMA RefuseKeeps ==
    ASSUME RowsInv, NEW p \in Clients, Refuse(p)
    PROVE  RowsInv'
BY GoesKeeps DEF Refuse

LEMMA FaultyKeeps == UsedInv /\ Faulty => UsedInv'
BY FaultsAssumption DEF Faulty, UsedInv, FaultsAssumption

LEMMA StatementFailsKeeps ==
    ASSUME RowsInv, NEW p \in Clients, StatementFails(p)
    PROVE  RowsInv'
<1>1. RequestsInv' BY IdleOK, OneRequest DEF StatementFails, RowsInv
<1> QED BY <1>1, FaultyKeeps, RowsUnchanged DEF StatementFails, RowsInv

\* No request outlives its process.
LEMMA CrashKeeps ==
    ASSUME RowsInv, Crash
    PROVE  RowsInv'
<1>1. \A p \in Clients : Fresh(req[p])' BY DEF Crash, Fresh, Idle, Request
<1>2. \A p \in Clients : Suits(req[p])' BY IdleOK DEF Crash, Suits, InRange
<1>3. RequestsInv' BY <1>1, <1>2, IdleOK DEF Crash, RequestsInv
<1> QED BY <1>3, FaultyKeeps, RowsUnchanged DEF Crash, RowsInv

LEMMA SitesChangeKeeps ==
    ASSUME RowsInv, SitesChange
    PROVE  RowsInv'
<1>1. UsedInv' BY AlertConfigAssumption DEF AlertConfigAssumption, RowsInv, UsedInv, SitesChange
<1>2. sites' \subseteq SiteIds BY DEF SitesChange, RowsInv, TablesInv
<1>3. UNCHANGED <<channels, rules, asked, req>> BY DEF SitesChange
<1>4. RequestsInv' BY <1>3 DEF RowsInv, RequestsInv, Fresh, Table
<1> QED BY <1>1, <1>2, <1>3, <1>4 DEF RowsInv, TablesInv, AskedInv

LEMMA StutterKeeps ==
    ASSUME RowsInv, UNCHANGED <<sites, channels, rules, req, asked, used>>
    PROVE  RowsInv'
BY DEF RowsInv, TablesInv, AskedInv, RequestsInv, Fresh, Table, UsedInv

-----------------------------------------------------------------------------
\* A request that is overtaken says so, and is else as it was.
LEMMA Overtaken ==
    ASSUME NEW r \in RequestRecords, NEW s \in BOOLEAN, Suits(r)
    PROVE  LET n == [r EXCEPT !.stale = s] IN
           /\ n \in RequestRecords /\ Suits(n)
           /\ n.op = r.op /\ n.table = r.table /\ n.at = r.at /\ n.id = r.id
           /\ n.row = r.row /\ n.stale = s
<1> DEFINE n == [r EXCEPT !.stale = s]
<1>1. /\ n \in RequestRecords /\ n.at = r.at /\ n.op = r.op /\ n.table = r.table
      /\ n.id = r.id /\ n.in = r.in /\ n.row = r.row /\ n.stale = s
  BY DEF RequestRecords, Places
<1> HIDE DEF n
<1>2. Suits(n) BY <1>1 DEF Suits, RequestRecords, Places
<1>3. /\ n \in RequestRecords /\ Suits(n)
      /\ n.op = r.op /\ n.table = r.table /\ n.at = r.at /\ n.id = r.id
      /\ n.row = r.row /\ n.stale = s
  BY <1>1, <1>2
<1> QED BY <1>3 DEF n

\* A write keeps what the other requests know: whoever holds a row it wrote
\* is marked, and the other rows are as they were.
LEMMA WritesKeep ==
    ASSUME RequestsInv, NEW p \in Clients, NEW written, Writes(p, written),
           \A id \in DOMAIN channels : <<"channel", id>> \notin written =>
                id \in DOMAIN channels' /\ channels'[id] = channels[id],
           \A id \in DOMAIN rules : <<"rule", id>> \notin written =>
                id \in DOMAIN rules' /\ rules'[id] = rules[id]
    PROVE  RequestsInv'
<1>1. ASSUME NEW q \in Clients
      PROVE  req'[q] \in RequestRecords /\ Suits(req'[q]) /\ Fresh(req[q])'
  <2>1. CASE q = p
    <3>1. req'[q] = Idle BY <2>1 DEF Writes
    <3> QED BY <3>1, IdleOK DEF Fresh, Idle, Request
  <2>2. CASE q # p
    <3> DEFINE r == req[q]
               s == r.stale \/ <<r.table, r.id>> \in written
               n == [r EXCEPT !.stale = s]
    <3>1. r \in RequestRecords /\ Suits(r) /\ Fresh(r) BY DEF RequestsInv
    <3>2. req'[q] = n BY <2>2 DEF Writes
    <3>3. s \in BOOLEAN BY <3>1 DEF RequestRecords
    <3>4. /\ n \in RequestRecords /\ Suits(n)
          /\ n.op = r.op /\ n.table = r.table /\ n.at = r.at /\ n.id = r.id
          /\ n.row = r.row /\ n.stale = s
      <4> HIDE DEF r, s
      <4> QED BY <3>1, <3>3, Overtaken
    <3>5. ASSUME r.op = "update", r.at # "read", ~s
          PROVE  /\ r.table = "channel" => r.id \in DOMAIN channels' /\ r.row = channels'[r.id]
                 /\ r.table = "rule" => r.id \in DOMAIN rules' /\ r.row = rules'[r.id]
      <4>1. r.id \in DOMAIN Table(r.table) /\ r.row = Table(r.table)[r.id]
        BY <3>1, <3>5 DEF Fresh
      <4>2. <<r.table, r.id>> \notin written BY <3>5
      <4> HIDE DEF r, s
      <4> QED BY <4>1, <4>2 DEF Table
    <3>6. n.op = "update" => n.table \in {"channel", "rule"} BY <3>4 DEF Suits
    <3> HIDE DEF r, s, n
    <3>7. n.op = "update" /\ n.at # "read" /\ ~n.stale =>
            /\ n.table = "channel" => n.id \in DOMAIN channels' /\ n.row = channels'[n.id]
            /\ n.table = "rule" => n.id \in DOMAIN rules' /\ n.row = rules'[n.id]
      BY <3>4, <3>5
    <3>8. Fresh(req[q])' BY <3>2, <3>6, <3>7 DEF Fresh, Table
    <3> QED BY <3>2, <3>4, <3>8
  <2> QED BY <2>1, <2>2
<1>2. req' \in [Clients -> RequestRecords] BY <1>1 DEF Writes
<1>3. \A q \in Clients : Suits(req[q])' BY <1>1 DEF Suits, InRange
<1> QED BY <1>1, <1>2, <1>3 DEF RequestsInv

\* A write of the row a request describes, from settings that agree.
LEMMA PutKeeps ==
    ASSUME RowsInv, NEW p \in Clients, NEW id, NEW was, NEW before,
           Put(p, id, was, before),
           At(p, "write"), req[p].op \in {"create", "update"},
           was.enabled \in BOOLEAN,
           ~req[p].stale => before.enabled \subseteq {was.enabled},
           req[p].table = "rule" =>
                /\ was.confirm \in 1..100
                /\ ~req[p].stale => before.confirm \subseteq {was.confirm}
    PROVE  RowsInv'
<1> DEFINE r == req[p]
<1>1. r \in RequestRecords /\ Suits(r) /\ r.at = "write" /\ r.stale \in BOOLEAN
  BY DEF RowsInv, RequestsInv, At, RequestRecords
<1>2. asked = [channel |-> asked.channel, rule |-> asked.rule] BY DEF RowsInv, AskedInv
<1>3. UsedInv' /\ sites' = sites BY DEF Put, RowsInv, UsedInv
<1>4. Writes(p, {<<r.table, id>>}) BY DEF Put
<1>5. CASE r.table = "channel"
  <2> DEFINE row == ChannelRow(r.in, was)
             a == AskedOf(r, before)
  <2>1. /\ channels' = WithRow(channels, id, row) /\ rules' = rules
        /\ asked' = [asked EXCEPT !.channel = WithRow(@, id, a)]
    BY <1>5 DEF Put
  <2>2. asked'.channel = WithRow(asked.channel, id, a) /\ asked'.rule = asked.rule
        /\ asked' = [channel |-> asked'.channel, rule |-> asked'.rule]
    BY <1>2, <2>1
  <2>3. IsOptional(r.in.enabled, BOOLEAN) BY <1>1, <1>5, BodyType DEF Suits
  <2>4. row \in ChannelRows BY <2>3, GivenField DEF ChannelRow, ChannelRows
  <2>5. ChannelAgrees(a, row)
    <3>1. LastAsked(r.in.enabled, before.enabled, r.stale) \subseteq {Given(r.in.enabled, was.enabled)}
      BY <1>1, <2>3, FieldAgrees
    <3> QED BY <1>5, <3>1 DEF ChannelAgrees, AskedOf, ChannelRow
  <2> HIDE DEF row, a
  <2>6. TablesInv' BY <1>3, <2>1, <2>4 DEF WithRow, RowsInv, TablesInv
  <2>7. AskedInv' BY <2>1, <2>2, <2>5 DEF WithRow, RowsInv, AskedInv
  <2>8. RequestsInv'
    <3>1. \A x \in DOMAIN channels : <<"channel", x>> \notin {<<r.table, id>>} =>
            x \in DOMAIN channels' /\ channels'[x] = channels[x]
      BY <1>5, <2>1 DEF WithRow
    <3> QED BY <1>4, <2>1, <3>1, WritesKeep DEF RowsInv
  <2> QED BY <1>3, <2>6, <2>7, <2>8 DEF RowsInv
<1>6. CASE r.table = "rule"
  <2> DEFINE row == RuleRow(r.in, was)
             a == AskedOf(r, before)
  <2>1. /\ rules' = WithRow(rules, id, row) /\ channels' = channels
        /\ asked' = [asked EXCEPT !.rule = WithRow(@, id, a)]
        /\ References(row)
    BY <1>6 DEF Put
  <2>2. asked'.rule = WithRow(asked.rule, id, a) /\ asked'.channel = asked.channel
        /\ asked' = [channel |-> asked'.channel, rule |-> asked'.rule]
    BY <1>2, <2>1
  <2>3. /\ r.in \in RuleInputs /\ InRange(r.in.confirm) BY <1>1, <1>6 DEF Suits
  <2>4. /\ IsOptional(r.in.enabled, BOOLEAN) /\ IsOptional(r.in.confirm, 1..100)
        /\ r.in.site \in SiteIds \cup {AnySite} /\ r.in.channel \in Nat /\ r.in.kind \in Kinds
    BY <2>3, BodyType DEF InRange, IsOptional
  <2>5. Given(r.in.enabled, was.enabled) \in BOOLEAN /\ Given(r.in.confirm, was.confirm) \in 1..100
    BY <1>6, <2>4, GivenField
  <2>6. row \in RuleRows BY <2>4, <2>5 DEF RuleRow, RuleRows
  <2>7. RuleAgrees(a, row)
    <3>1. LastAsked(r.in.enabled, before.enabled, r.stale) \subseteq {Given(r.in.enabled, was.enabled)}
      BY <1>1, <2>4, FieldAgrees
    <3>2. LastAsked(r.in.confirm, before.confirm, r.stale) \subseteq {Given(r.in.confirm, was.confirm)}
      BY <1>1, <1>6, <2>4, FieldAgrees
    <3> QED BY <1>6, <3>1, <3>2 DEF RuleAgrees, AskedOf, RuleRow
  <2>8. row.channel \in DOMAIN channels BY <2>1 DEF References
  <2> HIDE DEF row, a
  <2>9. TablesInv' BY <1>3, <2>1, <2>6, <2>8 DEF WithRow, RowsInv, TablesInv
  <2>10. AskedInv' BY <2>1, <2>2, <2>7 DEF WithRow, RowsInv, AskedInv
  <2>11. RequestsInv'
    <3>1. \A x \in DOMAIN rules : <<"rule", x>> \notin {<<r.table, id>>} =>
            x \in DOMAIN rules' /\ rules'[x] = rules[x]
      BY <1>6, <2>1 DEF WithRow
    <3> QED BY <1>4, <2>1, <3>1, WritesKeep DEF RowsInv
  <2> QED BY <1>3, <2>9, <2>10, <2>11 DEF RowsInv
<1> QED BY <1>5, <1>6 DEF Put

LEMMA InsertKeeps ==
    ASSUME RowsInv, NEW p \in Clients, Insert(p)
    PROVE  RowsInv'
<1> DEFINE before == [enabled |-> {TRUE}, confirm |-> {2}]
           id == NextId(Table(req[p].table))
<1>1. Put(p, id, Default, before) /\ At(p, "write") /\ req[p].op = "create" BY DEF Insert
<1>2. /\ Default.enabled = TRUE /\ Default.confirm \in 1..100
      /\ before.enabled \subseteq {Default.enabled} /\ before.confirm \subseteq {Default.confirm}
  BY DEF Default
<1> HIDE DEF before, id
<1> QED BY <1>1, <1>2, PutKeeps

LEMMA UpdateKeeps ==
    ASSUME RowsInv, NEW p \in Clients, Update(p)
    PROVE  RowsInv'
<1> DEFINE r == req[p]
           before == (IF r.table = "channel" THEN asked.channel ELSE asked.rule)[r.id]
<1>1. /\ Put(p, r.id, r.row, before) /\ At(p, "write") /\ r.op = "update" /\ r.at = "write"
      /\ r.id \in DOMAIN Table(r.table)
  BY DEF Update, At, Matched
<1>2. Suits(r) /\ Fresh(r) BY DEF RowsInv, RequestsInv
<1>3. CASE r.table = "channel"
  <2>1. r.row \in ChannelRows BY <1>1, <1>2, <1>3 DEF Suits
  <2>2. ~r.stale => before.enabled \subseteq {r.row.enabled}
    BY <1>1, <1>2, <1>3 DEF Fresh, Table, RowsInv, AskedInv, ChannelAgrees
  <2> HIDE DEF before
  <2> QED BY <1>1, <1>3, <2>1, <2>2, PutKeeps DEF ChannelRows
<1>4. CASE r.table = "rule"
  <2>1. r.row \in RuleRows BY <1>1, <1>2, <1>4 DEF Suits
  <2>2. ~r.stale => /\ before.enabled \subseteq {r.row.enabled}
                    /\ before.confirm \subseteq {r.row.confirm}
    BY <1>1, <1>2, <1>4 DEF Fresh, Table, RowsInv, AskedInv, RuleAgrees
  <2> HIDE DEF before
  <2> QED BY <1>1, <1>4, <2>1, <2>2, PutKeeps DEF RuleRows
<1>5. r.table \in {"channel", "rule"} BY <1>1, <1>2 DEF Suits
<1> QED BY <1>3, <1>4, <1>5

\* The rules that go with a channel are all that named it.
LEMMA DeleteKeeps ==
    ASSUME RowsInv, NEW p \in Clients, Delete(p)
    PROVE  RowsInv'
<1> DEFINE r == req[p]
           gone == IF r.table = "channel" THEN Cascade(r.id) ELSE {r.id}
           written == {<<r.table, r.id>>} \cup {<<"rule", id>> : id \in gone}
<1>1. /\ rules' = Without(rules, gone) /\ asked'.rule = Without(asked.rule, gone)
      /\ r.table = "channel" =>
            /\ channels' = Without(channels, {r.id})
            /\ asked'.channel = Without(asked.channel, {r.id})
      /\ r.table # "channel" => channels' = channels /\ asked'.channel = asked.channel
      /\ asked' = [channel |-> asked'.channel, rule |-> asked'.rule]
      /\ Writes(p, written) /\ sites' = sites
  BY DEF Delete
<1>2. UsedInv' BY DEF Delete, RowsInv, UsedInv
<1>3. r.table = "channel" => \A id \in DOMAIN rules : id \notin gone => rules[id].channel # r.id
  BY DEF Cascade
<1>4. /\ \A id : <<"rule", id>> \notin written => id \notin gone
      /\ r.table = "channel" => \A id : <<"channel", id>> \notin written => id # r.id
  OBVIOUS
<1> HIDE DEF r, gone, written
<1>5. TablesInv' BY <1>1, <1>3 DEF Without, RowsInv, TablesInv
<1>6. AskedInv'
  <2>1. DOMAIN channels' = DOMAIN asked'.channel /\ DOMAIN rules' = DOMAIN asked'.rule
    BY <1>1 DEF Without, RowsInv, AskedInv
  <2>2. \A id \in DOMAIN channels' :
            id \in DOMAIN channels /\ channels'[id] = channels[id]
            /\ asked'.channel[id] = asked.channel[id]
    BY <1>1 DEF Without, RowsInv, AskedInv
  <2>3. \A id \in DOMAIN rules' :
            id \in DOMAIN rules /\ rules'[id] = rules[id]
            /\ asked'.rule[id] = asked.rule[id]
    BY <1>1 DEF Without, RowsInv, AskedInv
  <2> QED BY <1>1, <2>1, <2>2, <2>3 DEF RowsInv, AskedInv
<1>7. RequestsInv'
  <2>1. \A id \in DOMAIN channels : <<"channel", id>> \notin written =>
            id \in DOMAIN channels' /\ channels'[id] = channels[id]
    BY <1>1, <1>4 DEF Without
  <2>2. \A id \in DOMAIN rules : <<"rule", id>> \notin written =>
            id \in DOMAIN rules' /\ rules'[id] = rules[id]
    BY <1>1, <1>4 DEF Without
  <2> QED BY <1>1, <2>1, <2>2, WritesKeep DEF RowsInv
<1> QED BY <1>2, <1>5, <1>6, <1>7 DEF RowsInv

-----------------------------------------------------------------------------
(* The rows' invariant holds whatever the clients do.                      *)
THEOREM RowsTheorem == Spec => []RowsInv
<1>1. Init => RowsInv BY RowsInitially
<1>2. RowsInv /\ [Next]_vars => RowsInv'
  <2> SUFFICES ASSUME RowsInv, [Next]_vars PROVE RowsInv' OBVIOUS
  <2>1. CASE Boot \/ UNCHANGED vars BY <2>1, StutterKeeps DEF Boot, vars
  <2>2. CASE Crash BY <2>2, CrashKeeps
  <2>3. CASE SitesChange BY <2>3, SitesChangeKeeps
  <2>4. ASSUME NEW p \in Clients, Handler(p) PROVE RowsInv'
    BY <2>4, AcceptKeeps, ReadRowKeeps, DecodeKeeps, InsertKeeps, UpdateKeeps,
       DeleteKeeps, RefuseKeeps, StatementFailsKeeps DEF Handler
  <2> QED BY <2>1, <2>2, <2>3, <2>4 DEF Next
<1> QED BY <1>1, <1>2, PTL DEF Spec

(* A rule names a channel that exists, whatever is deleted between the     *)
(* lookup of the channel and the write of the rule.                        *)
THEOREM RulesHaveChannelsTheorem == Spec => []RulesHaveChannels
<1>1. RowsInv => RulesHaveChannels BY DEF RowsInv, TablesInv, RulesHaveChannels
<1> QED BY <1>1, RowsTheorem, PTL

(* A setting is what it was last asked to be, unless an overlapping request *)
(* wrote an older value back.                                              *)
THEOREM SettingsTheorem == Spec => []SettingsAreAsAsked
<1>1. RowsInv => SettingsAreAsAsked
  BY DEF RowsInv, AskedInv, ChannelAgrees, RuleAgrees, SettingsAreAsAsked
<1> QED BY <1>1, RowsTheorem, PTL

(* What the dispatcher looks up is what was asked for: silence included.   *)
THEOREM EventsTheorem == Spec => []EventsFindWhatWasAsked
<1>1. ASSUME RowsInv, NEW s \in SiteIds, NEW k \in Kinds, NEW id \in DOMAIN asked.rule
      PROVE  LET rule     == asked.rule[id]
                 applies  == rule.kind = k /\ rule.site \in {AnySite, s}
                 switches == {rule.enabled, asked.channel[rule.channel].enabled}
             IN  /\ applies /\ switches = {{TRUE}} => id \in RulesFor(s, k)
                 /\ id \in RulesFor(s, k) => applies /\ {FALSE} \notin switches
  <2> DEFINE a == asked.rule[id]
             row == rules[id]
             c == asked.channel[a.channel]
  <2>1. /\ id \in DOMAIN rules /\ row \in RuleRows /\ row.channel \in DOMAIN channels
        /\ a.site = row.site /\ a.channel = row.channel /\ a.kind = row.kind
        /\ a.enabled \subseteq {row.enabled}
    BY <1>1 DEF RowsInv, TablesInv, AskedInv, RuleAgrees
  <2>2. /\ channels[row.channel] \in ChannelRows
        /\ c.enabled \subseteq {channels[row.channel].enabled}
    BY <1>1, <2>1 DEF RowsInv, TablesInv, AskedInv, ChannelAgrees
  <2>3. row.enabled \in BOOLEAN /\ channels[row.channel].enabled \in BOOLEAN
    BY <2>1, <2>2 DEF RuleRows, ChannelRows
  <2>4. id \in RulesFor(s, k) <=> /\ row.kind = k /\ row.enabled
                                  /\ channels[row.channel].enabled
                                  /\ row.site \in {AnySite, s}
    BY <2>1 DEF RulesFor
  <2> HIDE DEF a, c, row
  <2>5. {a.enabled, c.enabled} = {{TRUE}} => row.enabled /\ channels[row.channel].enabled
    BY <2>1, <2>2, <2>3
  <2>6. row.enabled /\ channels[row.channel].enabled => {FALSE} \notin {a.enabled, c.enabled}
    BY <2>1, <2>2, <2>3
  <2>7. /\ (a.kind = k /\ a.site \in {AnySite, s}) /\ {a.enabled, c.enabled} = {{TRUE}}
            => id \in RulesFor(s, k)
        /\ id \in RulesFor(s, k) =>
            (a.kind = k /\ a.site \in {AnySite, s}) /\ {FALSE} \notin {a.enabled, c.enabled}
    BY <2>1, <2>4, <2>5, <2>6
  <2> QED BY <2>7 DEF a, c
<1>2. RowsInv => EventsFindWhatWasAsked BY <1>1 DEF EventsFindWhatWasAsked
<1> QED BY <1>2, RowsTheorem, PTL

(* Every variable has its type.                                            *)
THEOREM RegistryTypes == Spec => []TypeOK
<1>1. RowsInv /\ MigrationsInv => TypeOK
  BY DEF RowsInv, TablesInv, UsedInv, MigrationsInv, Boots, ChannelRows, RuleRows, TypeOK
<1> QED BY <1>1, RowsTheorem, MigrationsTheorem, PTL
=============================================================================

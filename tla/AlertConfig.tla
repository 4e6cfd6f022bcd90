----------------------------- MODULE AlertConfig -----------------------------
(***************************************************************************)
(* internal/api/alerts.go over internal/storage/alerts.go: the handlers    *)
(* that create, change and delete alert channels and rules, one statement  *)
(* on the registry at a time and nothing locked in between, and the join   *)
(* the dispatcher looks its rules up with.                                 *)
(*                                                                         *)
(* An optional field of a body (a pointer) is a set of at most one value.  *)
(* A channel is abstracted to its switch: name and address pass through.   *)
(***************************************************************************)
EXTENDS Migrations, FiniteSets

CONSTANTS
    Clients,          \* requests in flight at once
    SiteIds, Kinds,
    ChannelInputs,    \* bodies of a channel request that decodeChannel accepts
    RuleInputs,       \* bodies of a rule request
    TargetIds,        \* the {id} of a path
    MaxRequests,      \* bound on the requests accepted
    MaxSiteChanges    \* bound on sites created and deleted

AnySite == "*"        \* site_id NULL

\* A field that may be left out.
IsOptional(field, S) == field \subseteq S /\ \A x, y \in field : x = y

AlertConfigAssumption ==
    /\ AnySite \notin SiteIds
    /\ \A in \in ChannelInputs : IsOptional(in.enabled, BOOLEAN)
    /\ \A in \in RuleInputs :
        /\ in.site \in SiteIds \cup {AnySite}
        /\ in.channel \in Nat
        /\ in.kind \in Kinds
        /\ IsOptional(in.enabled, BOOLEAN)
        /\ IsOptional(in.confirm, Nat)
    /\ TargetIds \subseteq Nat
    /\ MaxRequests \in Nat /\ MaxSiteChanges \in Nat

ASSUME AlertConfigAssumption

VARIABLES
    sites,        \* ids of the table sites
    channels,     \* alert_channels, by id
    rules,        \* alert_rules, by id
    req,          \* req[p]: the request client p has in flight
    asked,        \* history: what the settings of each row were last asked to be
    used          \* how much of each bound is spent

vars == <<mvars, sites, channels, rules, req, asked, used>>

\* A request and its first statement.  `stale' is a history flag: the row was
\* written since the request read it.
Request(op, table, at, id, in) ==
    [op |-> op, table |-> table, at |-> at, id |-> id, in |-> in,
     row |-> <<>>, stale |-> FALSE]

Idle == Request("none", "none", "done", 0, <<>>)

Init ==
    /\ MigrationsInit
    /\ sites = SiteIds
    /\ channels = <<>>
    /\ rules = <<>>
    /\ req = [p \in Clients |-> Idle]
    /\ asked = [channel |-> <<>>, rule |-> <<>>]
    /\ used = [requests |-> 0, sites |-> 0, faults |-> 0]

-----------------------------------------------------------------------------
Requests ==
    {Request("create", "channel", "write", 0, i) : i \in ChannelInputs}
    \cup {Request("update", "channel", "read", id, i) : id \in TargetIds, i \in ChannelInputs}
    \cup {Request("create", "rule", "channel", 0, i) : i \in RuleInputs}
    \cup {Request("update", "rule", "read", id, i) : id \in TargetIds, i \in RuleInputs}
    \cup {Request("delete", t, "write", id, <<>>) : t \in {"channel", "rule"}, id \in TargetIds}

Accept(p) ==
    /\ boot = "serving"
    /\ req[p] = Idle
    /\ used.requests < MaxRequests
    /\ used' = [used EXCEPT !.requests = @ + 1]
    /\ \E r \in Requests : req' = [req EXCEPT ![p] = r]
    /\ UNCHANGED <<mvars, sites, channels, rules, asked>>

At(p, at) == req[p].at = at

\* A statement that only reads: the request goes on, or ends with an error.
Goes(p, ok, next) ==
    /\ req' = [req EXCEPT ![p] = IF ok THEN next ELSE Idle]
    /\ UNCHANGED <<mvars, sites, channels, rules, asked, used>>

Table(t) == IF t = "channel" THEN channels ELSE rules

Holding(r, row, next) == [r EXCEPT !.row = row, !.stale = FALSE, !.at = next]

\* GetAlertChannel, GetAlertRule: the row an update starts from.
ReadRow(p) ==
    LET r == req[p] IN
    /\ At(p, "read")
    /\ Goes(p, r.id \in DOMAIN Table(r.table),
            Holding(r, Table(r.table)[r.id],
                    IF r.table = "channel" THEN "write" ELSE "channel"))

\* The rest of decodeRule, once the channel is known to exist.
CheckChannel(p) ==
    /\ At(p, "channel")
    /\ Goes(p, req[p].in.channel \in DOMAIN channels,
            [req[p] EXCEPT !.at = IF req[p].in.site = AnySite THEN "range" ELSE "site"])

CheckSite(p) ==
    /\ At(p, "site")
    /\ Goes(p, req[p].in.site \in sites, [req[p] EXCEPT !.at = "range"])

InRange(confirm) == confirm \subseteq 1..100

CheckRange(p) ==
    /\ At(p, "range")
    /\ Goes(p, InRange(req[p].in.confirm), [req[p] EXCEPT !.at = "write"])

-----------------------------------------------------------------------------
WithRow(table, id, row) ==
    [x \in DOMAIN table \cup {id} |-> IF x = id THEN row ELSE table[x]]

Without(table, ids) == [x \in DOMAIN table \ ids |-> table[x]]

\* An INTEGER PRIMARY KEY: one more than the largest there is, so that the id
\* of the last row is given again once it is deleted.
NextId(table) ==
    IF DOMAIN table = {} THEN 1
    ELSE 1 + CHOOSE m \in DOMAIN table : \A x \in DOMAIN table : x <= m

\* A field left out keeps the default, or the value that was read.
Given(field, kept) == IF field = {} THEN kept ELSE CHOOSE v \in field : TRUE

ChannelRowOmittedOff(in, was) == [enabled |-> in.enabled = {TRUE}]

ChannelRow(in, was) == [enabled |-> Given(in.enabled, was.enabled)]

RuleRow(in, was) ==
    [site |-> in.site, channel |-> in.channel, kind |-> in.kind,
     enabled |-> Given(in.enabled, was.enabled),
     confirm |-> Given(in.confirm, was.confirm)]

Default == [enabled |-> TRUE, confirm |-> 2]

\* The foreign key of alert_rules, with PRAGMA foreign_keys = ON.
UncheckedReference(row) == TRUE

References(row) == row.channel \in DOMAIN channels

\* What the field of a row was last asked to be: {} when the request wrote
\* back a value that another had changed meanwhile.
LastAsked(field, before, stale) ==
    IF field # {} THEN field ELSE IF stale THEN {} ELSE before

AskedOf(r, before) ==
    LET enabled == LastAsked(r.in.enabled, before.enabled, r.stale) IN
    IF r.table = "channel" THEN [enabled |-> enabled]
    ELSE [site |-> r.in.site, channel |-> r.in.channel, kind |-> r.in.kind,
          enabled |-> enabled,
          confirm |-> LastAsked(r.in.confirm, before.confirm, r.stale)]

\* The request of p is done, and has written these rows, <<table, id>>.
Writes(p, written) ==
    req' = [q \in Clients |->
        IF q = p THEN Idle
        ELSE [req[q] EXCEPT !.stale = @ \/ <<req[q].table, req[q].id>> \in written]]

\* INSERT, or UPDATE ... WHERE id, of the row the request of p describes.
Put(p, id, was, before) ==
    LET r == req[p] IN
    /\ \/ /\ r.table = "channel"
          /\ channels' = WithRow(channels, id, ChannelRow(r.in, was))
          /\ asked' = [asked EXCEPT !.channel = WithRow(@, id, AskedOf(r, before))]
          /\ UNCHANGED rules
       \/ /\ r.table = "rule"
          /\ References(RuleRow(r.in, was))
          /\ rules' = WithRow(rules, id, RuleRow(r.in, was))
          /\ asked' = [asked EXCEPT !.rule = WithRow(@, id, AskedOf(r, before))]
          /\ UNCHANGED channels
    /\ Writes(p, {<<r.table, id>>})
    /\ UNCHANGED <<mvars, sites, used>>

Insert(p) ==
    /\ At(p, "write")
    /\ req[p].op = "create"
    /\ Put(p, NextId(Table(req[p].table)), Default, [enabled |-> {TRUE}, confirm |-> {2}])

Matched(p) == req[p].id \in DOMAIN Table(req[p].table)

Update(p) ==
    /\ At(p, "write")
    /\ req[p].op = "update"
    /\ Matched(p)
    /\ Put(p, req[p].id, req[p].row,
           (IF req[p].table = "channel" THEN asked.channel ELSE asked.rule)[req[p].id])

\* ON DELETE CASCADE.
Cascade(channel) == {id \in DOMAIN rules : rules[id].channel = channel}

Delete(p) ==
    LET r    == req[p]
        gone == IF r.table = "channel" THEN Cascade(r.id) ELSE {r.id}
    IN
    /\ At(p, "write")
    /\ r.op = "delete"
    /\ Matched(p)
    /\ rules' = Without(rules, gone)
    /\ channels' = IF r.table = "channel" THEN Without(channels, {r.id}) ELSE channels
    /\ asked' = [channel |-> IF r.table = "channel" THEN Without(asked.channel, {r.id})
                             ELSE asked.channel,
                 rule |-> Without(asked.rule, gone)]
    /\ Writes(p, {<<r.table, r.id>>} \cup {<<"rule", id>> : id \in gone})
    /\ UNCHANGED <<mvars, sites, used>>

\* No row has the id, or the foreign key refuses the row: 404, 500.
Refuse(p) ==
    /\ At(p, "write")
    /\ \/ req[p].op # "create" /\ ~Matched(p)
       \/ /\ req[p].table = "rule" /\ req[p].op # "delete"
          /\ ~References(req[p].in)
    /\ Goes(p, FALSE, Idle)

-----------------------------------------------------------------------------
\* What the dispatcher looks up for an event.
RulesForAnyChannel(site, kind) ==
    {id \in DOMAIN rules :
        rules[id].kind = kind /\ rules[id].enabled /\ rules[id].site \in {AnySite, site}}

RulesFor(site, kind) ==
    {id \in DOMAIN rules :
        /\ rules[id].kind = kind
        /\ rules[id].enabled
        /\ rules[id].channel \in DOMAIN channels
        /\ channels[rules[id].channel].enabled
        /\ rules[id].site \in {AnySite, site}}

-----------------------------------------------------------------------------
Faulty == used.faults < MaxFaults /\ used' = [used EXCEPT !.faults = @ + 1]

StatementFails(p) ==
    /\ req[p] # Idle
    /\ Faulty
    /\ req' = [req EXCEPT ![p] = Idle]
    /\ UNCHANGED <<mvars, sites, channels, rules, asked>>

\* Requests die with the process, the tables do not.
Crash ==
    /\ Faulty
    /\ BootEnds
    /\ req' = [p \in Clients |-> Idle]
    /\ UNCHANGED <<sites, channels, rules, asked>>

Boot == BootStep /\ UNCHANGED <<sites, channels, rules, req, asked, used>>

\* The site handlers, which know nothing of rules.
SitesChange ==
    /\ boot = "serving"
    /\ used.sites < MaxSiteChanges
    /\ used' = [used EXCEPT !.sites = @ + 1]
    /\ \E s \in SiteIds :
        sites' = IF s \in sites THEN sites \ {s} ELSE sites \cup {s}
    /\ UNCHANGED <<mvars, channels, rules, req, asked>>

Handler(p) ==
    \/ Accept(p) \/ ReadRow(p) \/ CheckChannel(p) \/ CheckSite(p) \/ CheckRange(p)
    \/ Insert(p) \/ Update(p) \/ Delete(p) \/ Refuse(p) \/ StatementFails(p)

Next == Boot \/ Crash \/ SitesChange \/ \E p \in Clients : Handler(p)

Spec == Init /\ [][Next]_vars

\* systemd restarts the process, and a started one goes on.
FairSpec == Spec /\ WF_vars(Boot)

-----------------------------------------------------------------------------
TypeOK ==
    /\ version \in 0..Latest
    /\ boot \in {"down", "open", "migrate", "stmt", "commit", "serving"}
    /\ todo \subseteq 1..Latest
    /\ sites \subseteq SiteIds
    /\ \A id \in DOMAIN channels : channels[id] \in [enabled : BOOLEAN]
    /\ \A id \in DOMAIN rules :
        rules[id] \in [site : SiteIds \cup {AnySite}, channel : Nat, kind : Kinds,
                       enabled : BOOLEAN, confirm : 1..100]
    /\ used.requests <= MaxRequests /\ used.sites <= MaxSiteChanges
    /\ used.faults <= MaxFaults

(* A rule names a channel that exists, although decodeRule looks the       *)
(* channel up in another statement than the one that writes the rule, and  *)
(* the channel may be deleted in between (migrate.go:139).                 *)
RulesHaveChannels == \A id \in DOMAIN rules : rules[id].channel \in DOMAIN channels

(* A row exists from its creation to its deletion, and each of its         *)
(* switches and thresholds is what a request last asked for: a body that   *)
(* leaves a field out changes nothing, unless it wrote back a value it had *)
(* read before another request changed it (alerts.go:33-34).               *)
SettingsAreAsAsked ==
    /\ DOMAIN channels = DOMAIN asked.channel
    /\ \A id \in DOMAIN channels :
        asked.channel[id].enabled \subseteq {channels[id].enabled}
    /\ DOMAIN rules = DOMAIN asked.rule
    /\ \A id \in DOMAIN rules :
        /\ asked.rule[id].enabled \subseteq {rules[id].enabled}
        /\ asked.rule[id].confirm \subseteq {rules[id].confirm}

(* An event finds every rule that was asked for, and none of a rule or a   *)
(* channel that was asked to be silent or is deleted (RulesFor:            *)
(* "disabling a channel silences it without editing every rule").          *)
EventsFindWhatWasAsked ==
    \A s \in SiteIds, k \in Kinds : \A id \in DOMAIN asked.rule :
        LET rule     == asked.rule[id]
            applies  == rule.kind = k /\ rule.site \in {AnySite, s}
            switches == {rule.enabled, asked.channel[rule.channel].enabled}
        IN  /\ applies /\ switches = {{TRUE}} => id \in RulesFor(s, k)
            /\ id \in RulesFor(s, k) => applies /\ {FALSE} \notin switches

(* The registry is opened and serves the latest schema again, whatever     *)
(* release wrote the file and however many starts were cut short.          *)
RegistryServes == []<>(boot = "serving" /\ schema = SchemaOf(Latest))
=============================================================================

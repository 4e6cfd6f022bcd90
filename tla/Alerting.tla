------------------------------ MODULE Alerting ------------------------------
(***************************************************************************)
(* From a check to a mail: the site databases, the scheduler's hook, the   *)
(* dispatcher and the process that holds them.                             *)
(*                                                                         *)
(* A tick commits to the site database and only then hands its Transition  *)
(* to the dispatcher, which re-derives everything else from the registry.  *)
(* The two databases and the queue between them have different lifetimes,  *)
(* and incident ids are the only thread from an outage to its messages.    *)
(***************************************************************************)
EXTENDS Dispatcher, FiniteSets

CONSTANTS
    Outcomes,     \* what a tick may find
    MaxRows,      \* bound on the ticks recorded for a site
    MaxRestarts,  \* bound on the times the process starts again
    Stops,        \* whether the process is ever told to stop
    Crashes       \* whether it may die instead

VARIABLES
    db,         \* db[s]: the database of site s
    hook,       \* hook[s]: <<event>> committed and not yet handed over, or <<>>
    restarts    \* processes started after the first

vars == <<dvars, db, hook, restarts>>

\* The site database, with its own names (Outcome is also an operator here).
S == INSTANCE SiteDB

ASSUME AlertingAssumption == Outcomes \subseteq S!Outcome

Init ==
    /\ DispatcherInit
    /\ db = [s \in Sites |-> S!NewDB]
    /\ hook = [s \in Sites |-> <<>>]
    /\ restarts = 0

\* The incident a tick belongs to: the one it resolves, or the one open after
\* it (0 when there is none).
OutageOf(d, o) ==
    IF S!Resolves(d.state, o) THEN d.state.current_incident_id
    ELSE IF S!IncidentAfter(d, o) = S!NULL THEN 0
    ELSE S!IncidentAfter(d, o)

TransitionOf(d, o) ==
    LET t == S!TransitionOf(d, o) IN [f \in DOMAIN t \ {"IncidentOpened"} |-> t[f]]

EventOf(s, d, o) == [site |-> s, tr |-> TransitionOf(d, o), outage |-> OutageOf(d, o)]

\* runSite's tick up to the commit.  Its number stands for its time.
Tick(s, o) ==
    /\ ~closed
    /\ hook[s] = <<>>
    /\ Len(db[s].results) < MaxRows
    /\ db' = [db EXCEPT ![s] = S!RecordTick(@, Len(@.results), o)]
    /\ hook' = [hook EXCEPT ![s] = <<EventOf(s, db[s], o)>>]
    /\ UNCHANGED <<dvars, restarts>>

\* The hook main registers: it only queues.
Hook(s) ==
    /\ hook[s] # <<>>
    /\ Enqueue(hook[s][1])
    /\ hook' = [hook EXCEPT ![s] = <<>>]
    /\ UNCHANGED <<db, restarts>>

\* On a signal, run() first waits for the loops, then shuts the dispatcher.
Stop ==
    /\ Stops
    /\ \A s \in Sites : hook[s] = <<>>
    /\ Shutdown
    /\ UNCHANGED <<db, hook, restarts>>

\* The process is replaced: after an orderly stop, or at any moment when it
\* crashes, losing the queue and whatever its loops and workers were at.
Restart ==
    /\ restarts < MaxRestarts
    /\ AllExited \/ Crashes
    /\ restarts' = restarts + 1
    /\ NewProcess
    /\ hook' = [s \in Sites |-> <<>>]
    /\ UNCHANGED db

DispatcherStep(w) == WorkerStep(w) /\ UNCHANGED <<db, hook, restarts>>

Next ==
    \/ \E s \in Sites : Hook(s) \/ \E o \in Outcomes : Tick(s, o)
    \/ \E w \in Workers : DispatcherStep(w)
    \/ Stop
    \/ Restart

Spec == Init /\ [][Next]_vars

\* Workers and hooks run on; ticks, stops and crashes need never happen.
FairSpec ==
    /\ Spec
    /\ \A s \in Sites : WF_vars(Hook(s))
    /\ \A w \in Workers : WF_vars(DispatcherStep(w))

-----------------------------------------------------------------------------
TypeOK ==
    /\ DispatcherTypeOK
    /\ \A s \in Sites : db[s] \in S!DB
    /\ \A s \in Sites : hook[s] = <<>> \/ hook[s][1] \in Event
    /\ restarts \in Nat

\* Nothing is under way between the site databases and the relay.
Quiet ==
    /\ queue = <<>>
    /\ \A s \in Sites : hook[s] = <<>>
    /\ \A w \in Workers : pc[w] \in {"idle", "exited"}

Claimed(kind, s, about, ch) ==
    \E k \in DOMAIN mail :
        k.kind = kind /\ k.site = s /\ k.channel = ch /\ mail[k].about = about

Told(kind, s, about, ch) ==
    \E k \in DOMAIN mail :
        /\ k.kind = kind /\ k.site = s /\ k.channel = ch
        /\ mail[k].about = about /\ mail[k].accepted > 0

Resolved(s, i) == db[s].incidents[i].resolved_at # S!NULL

\* The failing checks of incident i of site s.
FailuresIn(s, i) ==
    {r \in DOMAIN db[s].results :
        LET row == db[s].results[r]
            inc == db[s].incidents[i]
        IN  /\ ~row.up
            /\ row.ts >= inc.started_at
            /\ Resolved(s, i) => row.ts < inc.resolved_at}

(***************************************************************************)
(* "site_down: a site has failed confirm_after consecutive checks"         *)
(* (README).  Once everything has been handled, every outage that reached  *)
(* a rule's threshold has been taken up for that rule's channel.           *)
(***************************************************************************)
DownIsAnnounced ==
    Quiet =>
        \A s \in Sites : \A i \in DOMAIN db[s].incidents : \A r \in RulesFor(s, "down") :
            Cardinality(FailuresIn(s, i)) >= r.confirm => Claimed("down", s, i, r.channel)

\* "site_recovered: a site that was announced down comes back" (README).
RecoveryIsAnnounced ==
    Quiet =>
        \A s \in Sites : \A i \in DOMAIN db[s].incidents : \A r \in RulesFor(s, "up") :
            Resolved(s, i) /\ Told("down", s, i, r.channel) => Claimed("up", s, i, r.channel)

(***************************************************************************)
(* "a channel that was never told a site went down is never told it came   *)
(* back" (alerts.go): each recovery message a channel gets closes an       *)
(* outage that channel was told of.                                        *)
(***************************************************************************)
RecoveryOnlyIfTold ==
    \A s \in Sites : \A i \in DOMAIN db[s].incidents : \A ch \in Channels :
        Told("up", s, i, ch) => Told("down", s, i, ch)

\* "One mail per incident" (README): a channel is sent the down message of an
\* incident under one dedupe key only.
OneDownPerIncident ==
    \A j, k \in DOMAIN mail :
        /\ j.kind = "down" /\ k.kind = "down" /\ j.site = k.site /\ j.channel = k.channel
        /\ mail[j].about = mail[k].about
        => j = k

(***************************************************************************)
(* "Certificate alerts key on the expiry date" (README): once everything   *)
(* has been handled, the certificate a site presents, if near its expiry,  *)
(* has been taken up, however often it was checked and whatever it         *)
(* replaced.                                                               *)
(***************************************************************************)
CertificateIsAnnounced ==
    Quiet =>
        \A s \in Sites : \A r \in RulesFor(s, "ssl") :
            db[s].state.ssl_expires_at \in NearExpiry =>
                Claimed("ssl", s, db[s].state.ssl_expires_at, r.channel)

\* Delivery implements the abstract promise: one episode per key, for ever.
Promise == INSTANCE AtMostOnce
    WITH MaxTries <- Retries + 1,
         claimed <- DOMAIN ledger,
         tries   <- [k \in DOMAIN mail |-> mail[k].tries],
         settled <- {k \in DOMAIN ledger : ledger[k].status # "pending"}

DeliversAtMostOnce == Promise!Spec

\* An orderly stop ends: once Shutdown has closed the queue the workers drain
\* it, finish what they are sending and exit, unless the process dies first.
StopEnds == closed ~> (AllExited \/ ~closed)
=============================================================================

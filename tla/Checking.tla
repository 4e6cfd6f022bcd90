------------------------------ MODULE Checking ------------------------------
(***************************************************************************)
(* The check loop of one site in time: the ticker, the slow cadence, the   *)
(* steps of a tick and a site whose health changes, over the database of   *)
(* SiteStore.                                                              *)
(*                                                                         *)
(* Of the schedule two things are assumed: a loop that has a tick to do    *)
(* begins it at once, and a request is over within Timeout seconds of its  *)
(* start, its redirects and its body included (http.Client.Timeout).  A    *)
(* name lookup and a write to the database take the time they take: the    *)
(* context of a loop has no deadline.  What was seen of the site is as old *)
(* as the rest of the tick makes it when it reaches the database.          *)
(***************************************************************************)
EXTENDS SiteStore, SiteConfig, Checker

CONSTANTS
    Submitted,      \* what the operator may have asked to monitor
    Worlds,         \* what a check may meet
    BrokenWorlds,   \* of them, those that fail any tick of any such site
    HealthyWorlds,  \* of them, those that fail none
    MaxChanges,     \* bound on the changes of the world
    MaxFaults,      \* bound on lost ticks, panics, restarts and seconds held up
    Timeout         \* -request-timeout

ASSUME ScheduleAssumption ==
    /\ Loops # {} /\ MaxTime \in Nat /\ Timeout \in Nat
    /\ MinIntervalSeconds \in Nat \ {0}
    /\ \A s \in Accepted(Submitted) :
        s.interval_seconds \in Int /\ s.slow_interval_seconds \in Int

\* The response is of an instant t, its evaluation of a later one.
ASSUME WorldsAssumption ==
    /\ \A s \in Accepted(Submitted), w \in Worlds,
          slow, reused, named \in BOOLEAN, t, u \in 0..MaxTime :
        LET o == RunTick(s, named, Response(w, t, reused), slow, u) IN
        /\ o \in Outcomes
        /\ w \in BrokenWorlds => ~o.up
        /\ w \in HealthyWorlds /\ named => o.up
    /\ \A w \in Worlds : w.resolves \in BOOLEAN
    /\ \A w \in HealthyWorlds : w.resolves

VARIABLES
    site,           \* the configuration the loops run with
    due,            \* due[l]: a tick waits in the ticker's channel
    fires,          \* fires[l]: when the ticker fires next, NULL before it is made
    lastSlow,       \* lastSlow[l], NULL for the zero time
    step,           \* step[l]: what loop l does now
    runSlow,        \* runSlow[l] of the tick in flight
    resolved,       \* resolved[l]: no lookup of it has failed
    asked,          \* asked[l]: when its request was started, NULL before
    seen,           \* seen[l]: the response it got, NULL before and after use
    found,          \* found[l]: what RunTick has returned, NULL before and after use
    world,
    changed,        \* when the world was last another one
    quiet,          \* when the last tick was lost, or the process started
    stalled,        \* when a loop was last held up outside its request, or panicked
    changes, faults

timers == <<due, fires, lastSlow>>
tick   == <<step, runSlow, resolved, asked, seen, found>>
sites  == <<site, world, changed, changes>>
losses == <<quiet, stalled, faults>>

cvars == <<timers, tick, sites, losses>>

allvars == <<vars, cvars>>

\* RunTick's statements; of the record, RecordTick is waited for.
InRunTick == {"lookup", "named", "request", "answer"}

Steps == {"wait", "record"} \cup InRunTick

\* What has no bound on its time.
Unbounded == {"lookup", "named", "record"}

CheckingInit ==
    /\ Init
    /\ site \in Accepted(Submitted)
    /\ due = [l \in Loops |-> TRUE]
    /\ fires = [l \in Loops |-> NULL]
    /\ lastSlow = [l \in Loops |-> NULL]
    /\ step = [l \in Loops |-> "wait"]
    /\ runSlow = [l \in Loops |-> FALSE]
    /\ resolved = [l \in Loops |-> TRUE]
    /\ asked = [l \in Loops |-> NULL]
    /\ seen = [l \in Loops |-> NULL]
    /\ found = [l \in Loops |-> NULL]
    /\ world \in Worlds
    /\ changed = 0 /\ quiet = 0 /\ stalled = NULL
    /\ changes = 0 /\ faults = 0

-----------------------------------------------------------------------------
SlowIsDueAfter(l) ==
    lastSlow[l] = NULL \/ now - lastSlow[l] > site.slow_interval_seconds

\* time.Since(lastSlow) >= slow; the first tick of a loop is a slow one.
SlowIsDue(l) ==
    lastSlow[l] = NULL \/ now - lastSlow[l] >= site.slow_interval_seconds

Goes(l, next) == step' = [step EXCEPT ![l] = next]

RequestStarts(l) ==
    /\ Goes(l, "request")
    /\ asked' = [asked EXCEPT ![l] = now]

TickBegins(l) ==
    /\ due[l]
    /\ Begin(l)
    /\ due' = [due EXCEPT ![l] = FALSE]
    /\ runSlow' = [runSlow EXCEPT ![l] = SlowIsDue(l)]
    /\ resolved' = [resolved EXCEPT ![l] = TRUE]
    /\ IF LooksUp(site, SlowIsDue(l)) THEN Goes(l, "lookup") /\ UNCHANGED asked
       ELSE RequestStarts(l)
    /\ UNCHANGED <<fires, lastSlow, seen, found, sites, losses>>

\* The answer of the name server: LookupHost returns some time after it.
NameIsAnswered(l) ==
    /\ step[l] = "lookup"
    /\ Goes(l, "named")
    /\ resolved' = [resolved EXCEPT ![l] = world.resolves]
    /\ UNCHANGED <<vars, timers, runSlow, asked, seen, found, sites, losses>>

LookupReturns(l) ==
    /\ step[l] = "named"
    /\ RequestStarts(l)
    /\ UNCHANGED <<vars, timers, runSlow, resolved, seen, found, sites, losses>>

\* The site answers, or the instant at which the request is bound to fail:
\* client.Do and the reading of the body return some time after it.
SiteAnswers(l) ==
    /\ step[l] = "request"
    /\ Goes(l, "answer")
    /\ \E reused \in BOOLEAN : seen' = [seen EXCEPT ![l] = Response(world, now, reused)]
    /\ UNCHANGED <<vars, timers, runSlow, resolved, asked, found, sites, losses>>

\* The response is judged.  The slow checks are done, whatever becomes of them.
RunTickReturns(l) ==
    /\ step[l] = "answer"
    /\ Goes(l, "record")
    /\ found' = [found EXCEPT ![l] = RunTick(site, resolved[l], seen[l], runSlow[l], now)]
    /\ seen' = [seen EXCEPT ![l] = NULL]
    /\ lastSlow' = IF runSlow[l] THEN [lastSlow EXCEPT ![l] = now] ELSE lastSlow
    /\ UNCHANGED <<vars, due, fires, runSlow, resolved, asked, sites, losses>>

TickerOfSlow(l) ==
    fires' = IF fires[l] = NULL
             THEN [fires EXCEPT ![l] = now + site.slow_interval_seconds] ELSE fires

\* After its first tick the loop makes its ticker.
Ticker(l) ==
    fires' = IF fires[l] = NULL
             THEN [fires EXCEPT ![l] = now + site.interval_seconds] ELSE fires

\* The tick is over and its variables are gone.
TickEnds(l) ==
    /\ Goes(l, "wait")
    /\ Ticker(l)
    /\ asked' = [asked EXCEPT ![l] = NULL]
    /\ seen' = [seen EXCEPT ![l] = NULL]
    /\ found' = [found EXCEPT ![l] = NULL]
    /\ UNCHANGED <<due, lastSlow, runSlow, resolved, sites>>

TickRecorded(l) ==
    /\ step[l] = "record"
    /\ Record(l, found[l])
    /\ TickEnds(l)
    /\ UNCHANGED losses

Fault ==
    /\ faults < MaxFaults
    /\ faults' = faults + 1

TickIsLost == Fault /\ quiet' = now

\* RecordTick returns an error: a slow tick is not made again for that.
TickLost(l) ==
    /\ step[l] = "record"
    /\ RecordFails(l)
    /\ TickIsLost
    /\ TickEnds(l)
    /\ UNCHANGED stalled

\* RunTick panics and tick recovers: no row, and lastSlow is what it was.
TickPanics(l) ==
    /\ step[l] \in InRunTick
    /\ RecordFails(l)
    /\ TickIsLost
    /\ TickEnds(l)
    /\ stalled' = now

\* A new process: the loops are new ones.
ProcessRestarts ==
    /\ TickIsLost
    /\ begun' = [l \in Loops |-> NULL]
    /\ due' = [l \in Loops |-> TRUE]
    /\ fires' = [l \in Loops |-> NULL]
    /\ lastSlow' = [l \in Loops |-> NULL]
    /\ step' = [l \in Loops |-> "wait"]
    /\ asked' = [l \in Loops |-> NULL]
    /\ seen' = [l \in Loops |-> NULL]
    /\ found' = [l \in Loops |-> NULL]
    /\ UNCHANGED <<db, now, base, runSlow, resolved, sites, stalled>>

WorldChanges ==
    /\ changes < MaxChanges
    /\ changes' = changes + 1
    /\ world' \in Worlds \ {world}
    /\ changed' = now
    /\ UNCHANGED <<vars, timers, tick, site, losses>>

\* A second passes: no tick is left waiting, no request outlasts its timeout.
\* The ticker's channel holds one tick; one that finds it full is dropped.
Elapse ==
    /\ \A l \in Loops :
        /\ step[l] = "wait" => ~due[l]
        /\ step[l] \in {"request", "answer"} => now - asked[l] < Timeout
    /\ Pass
    /\ due' = [l \in Loops |-> due[l] \/ fires[l] = now']
    /\ fires' = [l \in Loops |-> IF fires[l] = now' THEN now' + site.interval_seconds
                                 ELSE fires[l]]
    /\ UNCHANGED <<lastSlow, tick, sites, quiet>>

SecondPasses ==
    /\ \A l \in Loops : step[l] \notin Unbounded
    /\ Elapse
    /\ UNCHANGED <<stalled, faults>>

SecondIsHeldUp ==
    /\ \E l \in Loops : step[l] \in Unbounded
    /\ Elapse
    /\ Fault
    /\ stalled' = now'

CheckingNext ==
    \/ \E l \in Loops :
        \/ TickBegins(l) \/ NameIsAnswered(l) \/ LookupReturns(l)
        \/ SiteAnswers(l) \/ RunTickReturns(l)
        \/ TickRecorded(l) \/ TickLost(l) \/ TickPanics(l)
    \/ ProcessRestarts
    \/ WorldChanges
    \/ SecondPasses
    \/ SecondIsHeldUp

CheckingSpec == CheckingInit /\ [][CheckingNext]_allvars

-----------------------------------------------------------------------------
(***************************************************************************)
(* The slow checks keep their cadence to within the time between two       *)
(* ticks, an interval or a request that lasts longer: the ticker and       *)
(* lastSlow are two clocks, and a slow tick that falls just short of its   *)
(* time waits for the next one.  lastSlow is never older than that, lost   *)
(* ticks or not, unless a lookup, a write or a panic held the loop up: it  *)
(* has caught up a tick and a request after the last time one did.         *)
(***************************************************************************)
BetweenTicks ==
    IF site.interval_seconds < Timeout THEN Timeout ELSE site.interval_seconds

CatchingUp == stalled # NULL /\ now - stalled <= BetweenTicks + Timeout

SlowChecksKeepUp ==
    \A l \in Loops :
        lastSlow[l] # NULL =>
            \/ now - lastSlow[l] < site.slow_interval_seconds + BetweenTicks + Timeout
            \/ CatchingUp

(***************************************************************************)
(* The time after which the database must know of a change: the request    *)
(* under way may have seen the site as it was before, and the next one     *)
(* comes an interval after it.  It starts again when a loop is held up,    *)
(* for what the loop has in hand is then older still.                      *)
(***************************************************************************)
Settled ==
    \A t \in {changed, quiet} \cup ({stalled} \ {NULL}) :
        now - t > site.interval_seconds + 2 * Timeout

(***************************************************************************)
(* An outage is seen: a site that has been broken for longer than an       *)
(* interval and two timeouts, with no tick lost or held up meanwhile, is   *)
(* recorded as down, with an incident open; a recovered one as up, with    *)
(* none.                                                                   *)
(***************************************************************************)
OutageIsSeen ==
    Settled /\ world \in BrokenWorlds =>
        db.state.current_up = 0 /\ db.state.current_incident_id # NULL

RecoveryIsSeen ==
    Settled /\ world \in HealthyWorlds =>
        db.state.current_up = 1 /\ db.state.current_incident_id = NULL

\* The database knows the health of the site within an interval and two timeouts.
HealthIsSeen == OutageIsSeen /\ RecoveryIsSeen
=============================================================================

----------------------------- MODULE SiteAdmin -----------------------------
(***************************************************************************)
(* Site administration: the API handlers that create, update, delete and   *)
(* read a site, over the registry, the scheduler and the data files, and   *)
(* the process they run in.                                                *)
(*                                                                         *)
(* A handler takes no lock across its calls.  Each registry statement,     *)
(* each scheduler call and each storage call is a step of its own, and     *)
(* other handlers, the check loops, a signal or a crash may come between   *)
(* any two.                                                                *)
(***************************************************************************)
EXTENDS Scheduler

CONSTANTS
    Handlers,       \* requests served at one time
    Keys,           \* the API keys a request may set
    Requests,       \* the requests that may arrive
    MaxRequests,    \* bound on the requests
    MaxRestarts,    \* bound on the times the process starts again
    DrainTimeouts   \* whether a handler may outlive the HTTP shutdown

NoKey == "none"     \* the row has no API key
Keep  == "keep"     \* the request does not mention the key

RequestType ==
    [op : {"none", "create", "update", "read", "delete"}, site : Sites, config : Configs,
     key : Keys \cup {Keep, NoKey}, purge : BOOLEAN]

ASSUME SiteAdminAssumption ==
    /\ MaxRequests \in Nat /\ MaxRestarts \in Nat /\ DrainTimeouts \in BOOLEAN
    /\ Requests \subseteq {req \in RequestType : req.op # "none"}

VARIABLES
    registry,   \* the table sites: [config, key] by site
    handler,    \* handler[h]: the request it serves, where it is, the key read
    stage,      \* where the process is, of Stages
    toStart,    \* the sites StartAll has still to start
    purged,     \* history: sites whose purge completed, not created since
    contested,  \* history: sites whose row was last changed while another request
                \* had yet to act on an earlier change of it
    rekeyed,    \* history: updates the key of whose row another request changed
                \* after they read it
    requests,   \* requests so far
    restarts    \* processes started after the first

histories == <<purged, contested, rekeyed>>

avars == <<registry, handler, stage, toStart, histories, requests, restarts>>
vars  == <<svars, avars>>

\* StartAll, serving, srv.Shutdown, wg.Wait; the deferred dispatcher.Shutdown,
\* after wg.Wait or after the listener has failed.
Stages == {"booting", "running", "draining", "waiting", "closing", "failed",
           "stopped"}

Request0 == [op |-> "none", site |-> CHOOSE s \in Sites : TRUE,
             config |-> CHOOSE c \in Configs : TRUE, key |-> Keep, purge |-> FALSE]

Idle == [pc |-> "idle", req |-> Request0, existing |-> NoKey]

Init ==
    /\ SchedulerInit
    /\ registry = <<>>
    /\ handler = [h \in Handlers |-> Idle]
    /\ stage = "running"
    /\ toStart = {}
    /\ purged = {} /\ contested = {} /\ rekeyed = {}
    /\ requests = 0
    /\ restarts = 0

-----------------------------------------------------------------------------
At(h, pc) == handler[h].pc = pc

\* Handler h goes on to pc, or is done with its request.
Goes(h, pc) == handler' = [handler EXCEPT ![h] = IF pc = "idle" THEN Idle
                                                 ELSE [@ EXCEPT !.pc = pc]]

\* What the steps of a handler on the registry and on the managers leave alone.
OnlyRegistry == UNCHANGED <<svars, stage, toStart, requests, restarts>>
OnlyManagers == UNCHANGED <<registry, stage, toStart, requests, restarts>>

FirstStep(req) ==
    CASE req.op = "create" -> "exists"
      [] req.op = "delete" -> "remove"
      [] OTHER             -> "get"

\* A connection that is kept alive outlives the listener.
Accept(h, req) ==
    /\ stage \in {"running", "failed"}
    /\ At(h, "idle")
    /\ requests < MaxRequests
    /\ handler' = [handler EXCEPT ![h] = [Idle EXCEPT !.pc = FirstStep(req), !.req = req]]
    /\ requests' = requests + 1
    /\ UNCHANGED <<svars, registry, stage, toStart, histories, restarts>>

\* An invalid body, or an error of the registry: 400 or 500, nothing done.
Refuse(h) ==
    /\ handler[h].pc \in {"exists", "insert", "get", "write", "remove"}
    /\ Goes(h, "idle")
    /\ OnlyRegistry /\ UNCHANGED <<registry, histories>>

\* resolveSiteKey.
KeyCleared(key, existing) == IF key = Keep THEN NoKey ELSE key

KeyResolved(key, existing) == IF key = Keep THEN existing ELSE key

Row(h) ==
    LET req == handler[h].req IN
    [config |-> req.config, key |-> KeyResolved(req.key, handler[h].existing)]

WithRow(s, row) ==
    [t \in DOMAIN registry \cup {s} |-> IF t = s THEN row ELSE registry[t]]

\* The calls by which a request acts on its change of the row.
Acting(k, s) ==
    /\ handler[k].req.site = s
    /\ handler[k].pc \in {"materialise", "start", "stop", "purge"}

Rekeyed(k, s) ==
    /\ At(k, "write") /\ handler[k].req.site = s
    /\ s \in DOMAIN registry' /\ registry'[s].key # handler[k].existing

\* The request stops or replaces whatever loop its site has.  The create of a
\* disabled site does not: it leaves a loop it finds alone.
Settles(req) == req.op = "create" => req.config.enabled

\* What the histories say of h's change of its row.
RowChanges(h) ==
    LET s      == handler[h].req.site
        others == Handlers \ {h}
    IN  /\ contested' = IF \E k \in others : Acting(k, s) THEN contested \cup {s}
                        ELSE IF Settles(handler[h].req) THEN contested \ {s}
                        ELSE contested
        /\ rekeyed' = rekeyed \cup {k \in others : Rekeyed(k, s)}

\* handleCreateSite: reg.Exists; a known id is a conflict.
CheckExists(h) ==
    /\ At(h, "exists")
    /\ Goes(h, IF handler[h].req.site \in DOMAIN registry THEN "idle" ELSE "insert")
    /\ OnlyRegistry /\ UNCHANGED <<registry, histories>>

\* reg.Create; the primary key refuses a second row.
Insert(h) ==
    LET s == handler[h].req.site IN
    /\ At(h, "insert")
    /\ IF s \in DOMAIN registry
       THEN Goes(h, "idle") /\ UNCHANGED <<registry, histories>>
       ELSE /\ registry' = WithRow(s, Row(h))
            /\ purged' = purged \ {s}
            /\ RowChanges(h)
            /\ Goes(h, "materialise")
    /\ OnlyRegistry

ToStart(h) == IF handler[h].req.config.enabled THEN "start" ELSE "idle"

\* stores.Get; an error is only logged.
Materialise(h) ==
    LET s == handler[h].req.site IN
    /\ At(h, "materialise")
    /\ \/ StoreGet(s)
       \/ StorageFails /\ cache[s] = 0 /\ UNCHANGED <<cache, files, opened>>
    /\ Goes(h, ToStart(h))
    /\ OnlyManagers /\ UNCHANGED <<loops, cancels, falseDowns, histories>>

\* sched.Start, of handleCreateSite or of Restart.
Start(h) ==
    /\ At(h, "start")
    /\ StartLoop(handler[h].req.site, handler[h].req.config)
    /\ Goes(h, "idle")
    /\ OnlyManagers /\ UNCHANGED <<cache, files, opened, falseDowns, histories>>

\* reg.Get, of handleUpdateSite and storeFor.  The update reads the rest of
\* its body after this.
GetRow(h) ==
    LET s == handler[h].req.site IN
    /\ At(h, "get")
    /\ IF s \notin DOMAIN registry THEN Goes(h, "idle")
       ELSE IF handler[h].req.op = "read" THEN Goes(h, "read")
       ELSE handler' = [handler EXCEPT ![h].pc = "write", ![h].existing = registry[s].key]
    /\ rekeyed' = rekeyed \ {h}
    /\ OnlyRegistry /\ UNCHANGED <<registry, purged, contested>>

\* reg.Update; no row to update is a 404.
Write(h) ==
    LET s == handler[h].req.site IN
    /\ At(h, "write")
    /\ IF s \notin DOMAIN registry
       THEN Goes(h, "idle") /\ UNCHANGED <<registry, contested, rekeyed>>
       ELSE registry' = WithRow(s, Row(h)) /\ RowChanges(h) /\ Goes(h, "stop")
    /\ OnlyRegistry /\ UNCHANGED purged

\* handleDeleteSite: reg.Delete.
Remove(h) ==
    LET s == handler[h].req.site IN
    /\ At(h, "remove")
    /\ IF s \notin DOMAIN registry
       THEN Goes(h, "idle") /\ UNCHANGED <<registry, contested, rekeyed>>
       ELSE /\ registry' = [t \in DOMAIN registry \ {s} |-> registry[t]]
            /\ RowChanges(h)
            /\ Goes(h, "stop")
    /\ OnlyRegistry /\ UNCHANGED purged

AfterStopAlwaysStart(h) ==
    IF handler[h].req.op = "update" THEN "start"
    ELSE IF handler[h].req.purge THEN "purge" ELSE "idle"

\* Restart starts an enabled site only; a delete purges when asked to.
AfterStop(h) ==
    IF handler[h].req.op = "update" THEN ToStart(h)
    ELSE IF handler[h].req.purge THEN "purge" ELSE "idle"

\* sched.Stop, of Restart or of handleDeleteSite.
Stop(h) ==
    /\ At(h, "stop")
    /\ StopLoop(handler[h].req.site)
    /\ Goes(h, AfterStop(h))
    /\ OnlyManagers /\ UNCHANGED <<cache, files, opened, falseDowns, histories>>

Purge(h) ==
    LET s == handler[h].req.site IN
    /\ At(h, "purge")
    /\ StoreDelete(s)
    /\ purged' = IF s \in DOMAIN registry THEN purged ELSE purged \cup {s}
    /\ Goes(h, "idle")
    /\ OnlyManagers /\ UNCHANGED <<loops, cancels, falseDowns, contested, rekeyed>>

\* storeFor's stores.Get, for any of the read endpoints.
Read(h) ==
    LET s == handler[h].req.site IN
    /\ At(h, "read")
    /\ \/ StoreGet(s)
       \/ StorageFails /\ cache[s] = 0 /\ UNCHANGED <<cache, files, opened>>
    /\ Goes(h, "idle")
    /\ OnlyManagers /\ UNCHANGED <<loops, cancels, falseDowns, histories>>

HandlerStep(h) ==
    \/ CheckExists(h) \/ Insert(h) \/ Materialise(h) \/ Start(h)
    \/ GetRow(h) \/ Write(h) \/ Remove(h) \/ Stop(h) \/ Purge(h) \/ Read(h)
    \/ Refuse(h)

-----------------------------------------------------------------------------
(* run.                                                                    *)

\* StartAll, one site after the other.
StartNext(s) ==
    /\ stage = "booting"
    /\ s \in toStart
    /\ StartLoop(s, registry[s].config)
    /\ toStart' = toStart \ {s}
    /\ UNCHANGED <<cache, files, opened, falseDowns, registry, handler, stage, histories,
                   requests, restarts>>

Moves(from, to) ==
    /\ stage = from
    /\ stage' = to
    /\ UNCHANGED <<registry, handler, toStart, histories, requests, restarts>>

Serve == toStart = {} /\ Moves("booting", "running") /\ UNCHANGED svars

\* A signal: srv.Shutdown accepts no more requests and waits for the others,
\* for ten seconds.
Signal == Moves("running", "draining") /\ UNCHANGED svars

\* Then sched.Shutdown cancels every loop ...
Drained ==
    /\ (\A h \in Handlers : At(h, "idle")) \/ DrainTimeouts
    /\ Moves("draining", "waiting")
    /\ CancelAll
    /\ UNCHANGED <<files, cache, opened, falseDowns>>

\* ... and waits for them.
Waited == AllDone /\ Moves("waiting", "closing") /\ UNCHANGED svars

\* ListenAndServe has failed: run returns, and stops neither loop nor request.
ListenerFails == Moves("running", "failed") /\ UNCHANGED svars

\* The dispatcher takes its time, in which a handler that is still there and
\* the loops go on; then reg.Close, stores.Close and the end of the process.
Exit ==
    /\ \E from \in {"failed", "closing"} : Moves(from, "stopped")
    /\ cache' = [s \in Sites |-> 0]
    /\ UNCHANGED <<loops, cancels, files, opened, falseDowns>>

\* A new process, after a stop or a crash: the registry and the files remain.
Restart ==
    /\ restarts < MaxRestarts
    /\ restarts' = restarts + 1
    /\ stage' = "booting"
    /\ toStart' = {s \in DOMAIN registry : registry[s].config.enabled}
    /\ loops' = <<>>
    /\ cancels' = [s \in Sites |-> 0]
    /\ cache' = [s \in Sites |-> 0]
    /\ opened' = 0
    /\ handler' = [h \in Handlers |-> Idle]
    /\ contested' = {} /\ rekeyed' = {}
    /\ UNCHANGED <<files, falseDowns, registry, purged, requests>>

SchedulerStep(i) == stage # "stopped" /\ LoopStep(i) /\ UNCHANGED avars

AdminStep(h) == stage # "stopped" /\ HandlerStep(h)

ProcessStep ==
    \/ \E s \in Sites : StartNext(s)
    \/ Serve \/ Drained \/ Waited
    \/ Exit

Next ==
    \/ \E i \in DOMAIN loops : SchedulerStep(i)
    \/ \E h \in Handlers : AdminStep(h) \/ \E req \in Requests : Accept(h, req)
    \/ ProcessStep
    \/ Signal
    \/ ListenerFails
    \/ Restart

Spec == Init /\ [][Next]_vars

\* Goroutines run on; requests, signals and crashes need never happen.  Of the
\* handlers it is enough that one of them does.  Go's select chooses evenly
\* between ready cases, so a context that is done is not passed over for ever.
FairSpec ==
    /\ Spec
    /\ \A i \in 1..MaxLoops :
        /\ WF_loops(i \in DOMAIN loops /\ SchedulerStep(i))
        /\ SF_loops(i \in DOMAIN loops /\ stage # "stopped" /\ Done(i) /\ UNCHANGED avars)
    /\ WF_vars(\E h \in Handlers : AdminStep(h))
    /\ WF_vars(ProcessStep)

-----------------------------------------------------------------------------
TypeOK ==
    /\ SchedulerTypeOK
    /\ DOMAIN registry \subseteq Sites
    /\ \A s \in DOMAIN registry :
        registry[s] \in [config : Configs, key : Keys \cup {NoKey}]
    /\ \A h \in Handlers :
        /\ handler[h].req \in RequestType
        /\ handler[h].existing \in Keys \cup {NoKey}
    /\ stage \in Stages
    /\ toStart \subseteq DOMAIN registry
    /\ stage = "booting" => \A h \in Handlers : At(h, "idle")
    /\ stage # "booting" => toStart = {}
    /\ purged \subseteq Sites /\ contested \subseteq Sites /\ rekeyed \subseteq Handlers

\* The process serves and no request is half done.
Quiet == stage = "running" /\ \A h \in Handlers : At(h, "idle")

Enabled(s) == s \in DOMAIN registry /\ registry[s].config.enabled

\* The loop goes on; it has returned only if it could not open its database.
Runs(i) == loops[i].pc = "done" => StorageFails /\ loops[i].store = 0

(***************************************************************************)
(* "Apply the new schedule/config immediately" (api.go): between requests  *)
(* exactly the enabled sites of the registry have a loop, which has the    *)
(* configuration of its row and runs on, after crashes and restarts too.   *)
(* Two things may come between.  A loop whose stores.Get failed has        *)
(* returned, and its entry in cancels hides it until the next update.  And *)
(* of two requests that change one site while the other has not acted on   *)
(* its change yet, the loop may follow the one and the row the other: the  *)
(* site is contested, until a request changes it alone.                    *)
(***************************************************************************)
InSync ==
    Quiet => \A s \in Sites \ contested :
        /\ Enabled(s) <=> (cancels[s] # 0)
        /\ Enabled(s) => /\ loops[cancels[s]].config = registry[s].config
                         /\ Runs(cancels[s])

(***************************************************************************)
(* "... persisting each result" (scheduler.go): between requests the loop  *)
(* of a site that is not contested holds the database the other endpoints  *)
(* read, not one that a purge has closed under it.                         *)
(***************************************************************************)
StoreIsLive ==
    Quiet => \A i \in DOMAIN loops :
        /\ loops[i].site \notin contested
        /\ ~loops[i].cancelled /\ loops[i].pc \notin {"open", "done"}
        => loops[i].store = cache[loops[i].site]

(***************************************************************************)
(* "Key is preserved unless the body sets/clears/regenerates it" (api.go): *)
(* a row's key changes only in a step of a request that mentions the key,  *)
(* or of one that writes back the key it read although another request     *)
(* has changed it since.                                                   *)
(***************************************************************************)
KeyIsPreserved ==
    [][\A s \in DOMAIN registry :
        s \in DOMAIN registry' /\ registry'[s].key # registry[s].key =>
            \E h \in Handlers :
                /\ At(h, "write") /\ handler'[h].pc = "stop"
                /\ handler[h].req.site = s
                /\ handler[h].req.key # Keep \/ h \in rekeyed]_vars

\* "?purge=true also deletes its data file" (README).
PurgedIsGone == purged \cap files = {}

\* "Incident is a contiguous downtime period" (query.go): a site that is never
\* down is never recorded down.
NoFalseIncident == falseDowns = {}

\* A cancelled loop ends, whatever replaced it, unless the process ends first.
CancelledLoopEnds ==
    \A i \in 1..MaxLoops :
        (i \in DOMAIN loops /\ loops[i].cancelled)
            ~> (stage = "stopped" \/ (i \in DOMAIN loops => loops[i].pc = "done"))

\* A process that was signalled, or that has lost its listener, stops, unless
\* it crashes first.
ProcessStops == (stage \in {"draining", "failed"}) ~> (stage \in {"stopped", "booting"})
=============================================================================

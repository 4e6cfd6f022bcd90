----------------------------- MODULE Scheduler -----------------------------
(***************************************************************************)
(* The scheduler's Manager and the storage Manager its loops open their    *)
(* databases through.                                                      *)
(*                                                                         *)
(* One goroutine per enabled site runs checks until its context is         *)
(* cancelled.  Cancelling is all Stop does: the goroutine goes on until it *)
(* next looks at its context, with the configuration and the open database *)
(* it captured.  The operations are written as the changes they make under *)
(* the managers' mutexes; SiteAdmin composes them into requests and into   *)
(* the life of the process.                                                *)
(***************************************************************************)
EXTENDS Integers, Sequences

CONSTANTS
    Sites,
    Configs,        \* site configurations: records with a field `enabled'
    MaxLoops,       \* bound on the loops one process starts
    StorageFails    \* whether opening or removing a site database may fail

ASSUME SchedulerAssumption ==
    /\ \A c \in Configs : c.enabled \in BOOLEAN
    /\ MaxLoops \in Nat
    /\ StorageFails \in BOOLEAN
    /\ Sites # {} /\ Configs # {}

VARIABLES
    loops,      \* the goroutines this process started, a sequence of Loop
    cancels,    \* cancels[s]: the loop that m.cancels[s] cancels, or 0
    files,      \* the sites that have a data file
    cache,      \* cache[s]: the open database of s, a handle, or 0
    opened,     \* the last handle opened
    falseDowns  \* history: the sites a failing check was recorded for

svars == <<loops, cancels, files, cache, opened, falseDowns>>

\* runSite: before stores.Get, before and inside RunTick, before RecordTick,
\* in the select between ticks, returned.
PCs == {"open", "tick", "request", "record", "select", "done"}

Loop == [site : Sites, config : Configs, cancelled : BOOLEAN, pc : PCs,
         store : Nat, up : BOOLEAN]

SchedulerInit ==
    /\ loops = <<>>
    /\ cancels = [s \in Sites |-> 0]
    /\ files = {}
    /\ cache = [s \in Sites |-> 0]
    /\ opened = 0
    /\ falseDowns = {}

-----------------------------------------------------------------------------
(* storage.Manager.                                                        *)

\* The handle Get returns: the cached one, or that of a database it opens.
HandleOf(s) == IF cache[s] # 0 THEN cache[s] ELSE opened + 1

\* Opening creates the file when there is none.
StoreGet(s) ==
    /\ cache' = [cache EXCEPT ![s] = HandleOf(s)]
    /\ files' = files \cup {s}
    /\ opened' = IF cache[s] # 0 THEN opened ELSE opened + 1

\* Close the handle, forget it, remove the file (an error is only logged).
StoreDelete(s) ==
    /\ cache' = [cache EXCEPT ![s] = 0]
    /\ \/ files' = files \ {s}
       \/ StorageFails /\ UNCHANGED files
    /\ UNCHANGED opened

-----------------------------------------------------------------------------
(* scheduler.Manager.                                                      *)

NewLoop(s, c) ==
    [site |-> s, config |-> c, cancelled |-> FALSE, pc |-> "open", store |-> 0, up |-> TRUE]

LoopsNotStopped(s) == loops

\* stopLocked.
Cancelled(s) ==
    IF cancels[s] = 0 THEN loops ELSE [loops EXCEPT ![cancels[s]].cancelled = TRUE]

StopLoop(s) ==
    /\ loops' = Cancelled(s)
    /\ cancels' = [cancels EXCEPT ![s] = 0]

\* Start stops the site's loop, if it has one, before it launches another.
LoopsBeforeStart(s) == Cancelled(s)

StartLoop(s, c) ==
    /\ Len(loops) < MaxLoops
    /\ loops' = Append(LoopsBeforeStart(s), NewLoop(s, c))
    /\ cancels' = [cancels EXCEPT ![s] = Len(loops) + 1]

LoopsNotCancelled == loops

LoopsAtShutdown ==
    [i \in DOMAIN loops |->
        IF cancels[loops[i].site] = i THEN [loops[i] EXCEPT !.cancelled = TRUE] ELSE loops[i]]

CancelAll ==
    /\ loops' = LoopsAtShutdown
    /\ cancels' = [s \in Sites |-> 0]

\* What Shutdown's wg.Wait waits for.
AllDone == \A i \in DOMAIN loops : loops[i].pc = "done"

-----------------------------------------------------------------------------
(* runSite.                                                                *)

Goto(i, pc) == loops' = [loops EXCEPT ![i].pc = pc]

\* stores.Get; if it fails the goroutine returns, and nobody is told.
Open(i) ==
    /\ loops[i].pc = "open"
    /\ \/ /\ StoreGet(loops[i].site)
          /\ loops' = [loops EXCEPT ![i].pc = "tick", ![i].store = HandleOf(loops[i].site)]
       \/ /\ StorageFails /\ cache[loops[i].site] = 0
          /\ Goto(i, "done")
          /\ UNCHANGED <<cache, files, opened>>
    /\ UNCHANGED <<cancels, falseDowns>>

\* RunTick makes its request.  The sites of this model are always healthy,
\* and a request under a cancelled context always fails.
Request(i) ==
    /\ loops[i].pc = "tick"
    /\ loops' = [loops EXCEPT ![i].pc = "request", ![i].up = ~loops[i].cancelled]
    /\ UNCHANGED <<cancels, files, cache, opened, falseDowns>>

\* RunTick returns.  A context cancelled meanwhile may have failed it.
Answer(i) ==
    /\ loops[i].pc = "request"
    /\ \E up \in {loops[i].up, loops[i].up /\ ~loops[i].cancelled} :
        loops' = [loops EXCEPT ![i].pc = "record", ![i].up = up]
    /\ UNCHANGED <<cancels, files, cache, opened, falseDowns>>

\* RecordTick, which never asks about the context.  On a closed database it
\* fails, and the loop logs that and goes on.
RecordResult(i) ==
    LET s == loops[i].site IN
    /\ loops[i].pc = "record"
    /\ falseDowns' = IF loops[i].store = cache[s] /\ ~loops[i].up
                     THEN falseDowns \cup {s} ELSE falseDowns
    /\ Goto(i, "select")
    /\ UNCHANGED <<cancels, files, cache, opened>>

\* The ticker fires.  When the context is done too, select picks either.
Ticks(i) ==
    /\ loops[i].pc = "select"
    /\ Goto(i, "tick")
    /\ UNCHANGED <<cancels, files, cache, opened, falseDowns>>

StoppedBySite(i) == cancels[loops[i].site] = 0

StoppedByContext(i) == loops[i].cancelled

Done(i) ==
    /\ loops[i].pc = "select"
    /\ StoppedByContext(i)
    /\ Goto(i, "done")
    /\ UNCHANGED <<cancels, files, cache, opened, falseDowns>>

LoopStep(i) ==
    Open(i) \/ Request(i) \/ Answer(i) \/ RecordResult(i) \/ Ticks(i) \/ Done(i)

-----------------------------------------------------------------------------
\* A loop past stores.Get holds a handle that was opened.
SchedulerTypeOK ==
    /\ loops \in Seq(Loop)
    /\ cancels \in [Sites -> 0..Len(loops)]
    /\ files \subseteq Sites
    /\ cache \in [Sites -> 0..opened]
    /\ opened \in Nat
    /\ falseDowns \subseteq Sites
    /\ \A i \in DOMAIN loops :
        loops[i].pc \notin {"open", "done"} => loops[i].store \in 1..opened

(***************************************************************************)
(* At most one loop of a site has a context that is still live, and it is  *)
(* the one the scheduler can stop.  A second one could never be stopped    *)
(* and would write the site's history twice.                               *)
(***************************************************************************)
OneLiveLoop ==
    /\ \A i \in DOMAIN loops : ~loops[i].cancelled => cancels[loops[i].site] = i
    /\ \A s \in Sites : cancels[s] # 0 =>
        loops[cancels[s]].site = s /\ ~loops[cancels[s]].cancelled
=============================================================================

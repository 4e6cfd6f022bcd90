-------------------------- MODULE SiteAdminProofs --------------------------
(***************************************************************************)
(* A site never has two live loops; and at a site that is not contested    *)
(* the loops follow the registry and write the databases the API reads:    *)
(* for any number of sites, concurrent handlers, requests, loops and       *)
(* restarts.                                                               *)
(*                                                                         *)
(* Every change to the loops or to the cancel functions is one critical    *)
(* section of the scheduler's Manager, so the first argument is per        *)
(* operation and does not depend on the order handlers call them in; what  *)
(* the handlers contribute is that a site and a configuration they pass    *)
(* come from a request or from the registry.  The second one needs the     *)
(* order: what a request has done so far has to hold still when it does    *)
(* the rest.  It does as long as no other request acts on the same site;   *)
(* when one does the site is contested, and the argument takes it up again *)
(* at the next change that a request makes alone.                          *)
(***************************************************************************)
EXTENDS SiteAdmin, TLAPS

SchedOK == SchedulerTypeOK /\ OneLiveLoop

LEMMA InitSched == SchedulerInit => SchedOK
BY DEF SchedulerInit, SchedOK, SchedulerTypeOK, OneLiveLoop

LEMMA LoopFields ==
    ASSUME NEW l \in Loop
    PROVE  /\ l.site \in Sites /\ l.config \in Configs /\ l.cancelled \in BOOLEAN
           /\ l.pc \in PCs /\ l.store \in Nat /\ l.up \in BOOLEAN
BY DEF Loop

LEMMA LoopReplaced ==
    ASSUME NEW ls \in Seq(Loop), NEW i \in DOMAIN ls, NEW l \in Loop
    PROVE  /\ [ls EXCEPT ![i] = l] \in Seq(Loop)
           /\ Len([ls EXCEPT ![i] = l]) = Len(ls)
           /\ DOMAIN [ls EXCEPT ![i] = l] = DOMAIN ls
OBVIOUS

\* A loop moves on: its site and its context stay, its handle was opened.
LEMMA LoopMoves ==
    ASSUME SchedOK, NEW i \in DOMAIN loops, NEW l \in Loop,
           l.site = loops[i].site, l.cancelled = loops[i].cancelled,
           l.pc \notin {"open", "done"} => l.store \in 1..opened',
           loops' = [loops EXCEPT ![i] = l], cancels' = cancels,
           opened' \in Nat, opened <= opened',
           files' \subseteq Sites, cache' \in [Sites -> 0..opened'],
           falseDowns' \subseteq Sites
    PROVE  SchedOK'
<1>1. /\ loops \in Seq(Loop) /\ cancels \in [Sites -> 0..Len(loops)] /\ opened \in Nat
  BY DEF SchedOK, SchedulerTypeOK
<1>2. /\ loops' \in Seq(Loop) /\ Len(loops') = Len(loops) /\ DOMAIN loops' = DOMAIN loops
      /\ loops'[i] = l /\ \A j \in DOMAIN loops : j # i => loops'[j] = loops[j]
  BY <1>1, LoopReplaced
<1>3. SchedulerTypeOK'
  <2>1. \A j \in DOMAIN loops' :
            loops'[j].pc \notin {"open", "done"} => loops'[j].store \in 1..opened'
    BY <1>1, <1>2 DEF SchedOK, SchedulerTypeOK
  <2> QED BY <1>1, <1>2, <2>1 DEF SchedulerTypeOK
<1>4. \A j \in DOMAIN loops :
        loops'[j].site = loops[j].site /\ loops'[j].cancelled = loops[j].cancelled
  BY <1>2
<1>5. \A s \in Sites : cancels[s] # 0 => cancels[s] \in DOMAIN loops BY <1>1
<1>6. OneLiveLoop' BY <1>2, <1>4, <1>5 DEF SchedOK, OneLiveLoop
<1> QED BY <1>3, <1>6 DEF SchedOK

\* stores.Get and stores.Delete leave the loops and the cancel functions alone.
LEMMA StoreGetKeeps ==
    ASSUME SchedOK, NEW s \in Sites, StoreGet(s), UNCHANGED <<loops, cancels, falseDowns>>
    PROVE  SchedOK'
<1>1. /\ opened' \in Nat /\ opened <= opened' /\ files' \subseteq Sites
      /\ cache' \in [Sites -> 0..opened']
  BY DEF SchedOK, SchedulerTypeOK, StoreGet, HandleOf
<1>2. SchedulerTypeOK' BY <1>1 DEF SchedOK, SchedulerTypeOK
<1> QED BY <1>2 DEF SchedOK, OneLiveLoop

LEMMA StoreDeleteKeeps ==
    ASSUME SchedOK, NEW s \in Sites, StoreDelete(s), UNCHANGED <<loops, cancels, falseDowns>>
    PROVE  SchedOK'
<1>1. SchedulerTypeOK' BY DEF SchedOK, SchedulerTypeOK, StoreDelete
<1> QED BY <1>1 DEF SchedOK, OneLiveLoop

LEMMA StutterKeeps == SchedOK /\ UNCHANGED svars => SchedOK'
BY DEF SchedOK, SchedulerTypeOK, OneLiveLoop, svars

-----------------------------------------------------------------------------
\* stopLocked leaves no live loop of the site: the only one there can be is the
\* one its cancel function stands for.
LEMMA CancelledLoops ==
    ASSUME SchedOK, NEW s \in Sites
    PROVE  /\ Cancelled(s) \in Seq(Loop) /\ Len(Cancelled(s)) = Len(loops)
           /\ DOMAIN Cancelled(s) = DOMAIN loops
           /\ \A i \in DOMAIN loops :
                /\ Cancelled(s)[i].site = loops[i].site
                /\ Cancelled(s)[i].pc = loops[i].pc
                /\ Cancelled(s)[i].store = loops[i].store
                /\ loops[i].site # s => Cancelled(s)[i] = loops[i]
                /\ loops[i].site = s => Cancelled(s)[i].cancelled
<1>1. loops \in Seq(Loop) /\ cancels \in [Sites -> 0..Len(loops)]
  BY DEF SchedOK, SchedulerTypeOK
<1>2. \A i \in DOMAIN loops : loops[i] \in Loop BY <1>1
<1>3. CASE cancels[s] = 0
  <2>1. \A i \in DOMAIN loops : loops[i].site = s => loops[i].cancelled
    BY <1>1, <1>3 DEF SchedOK, OneLiveLoop
  <2> QED BY <1>1, <1>3, <2>1 DEF Cancelled
<1>4. CASE cancels[s] # 0
  <2> DEFINE c == cancels[s]
             l == [loops[c] EXCEPT !.cancelled = TRUE]
  <2>1. c \in DOMAIN loops /\ loops[c].site = s BY <1>1, <1>4 DEF SchedOK, OneLiveLoop
  <2>2. /\ l \in Loop /\ l.site = s /\ l.cancelled /\ l.pc = loops[c].pc
        /\ l.store = loops[c].store
    BY <1>2, <2>1 DEF Loop
  <2>3. Cancelled(s) = [loops EXCEPT ![c] = l] BY <1>4, <2>1 DEF Cancelled
  <2>4. \A i \in DOMAIN loops : i # c /\ loops[i].site = s => loops[i].cancelled
    BY DEF SchedOK, OneLiveLoop
  <2>5. /\ Cancelled(s)[c] = l
        /\ \A i \in DOMAIN loops : i # c => Cancelled(s)[i] = loops[i]
    BY <2>1, <2>3
  <2>6. /\ Cancelled(s) \in Seq(Loop) /\ Len(Cancelled(s)) = Len(loops)
        /\ DOMAIN Cancelled(s) = DOMAIN loops
    BY <1>1, <2>1, <2>2, <2>3, LoopReplaced
  <2> HIDE DEF l
  <2> QED BY <2>1, <2>2, <2>4, <2>5, <2>6
<1> QED BY <1>3, <1>4

LEMMA StopKeeps ==
    ASSUME SchedOK, NEW s \in Sites, StopLoop(s),
           UNCHANGED <<files, cache, opened, falseDowns>>
    PROVE  SchedOK'
<1>1. loops' = Cancelled(s) /\ cancels' = [cancels EXCEPT ![s] = 0] BY DEF StopLoop
<1>2. cancels \in [Sites -> 0..Len(loops)] /\ loops \in Seq(Loop)
  BY DEF SchedOK, SchedulerTypeOK
<1>3. SchedulerTypeOK'
  <2>1. loops' \in Seq(Loop) /\ cancels' \in [Sites -> 0..Len(loops')]
    BY <1>1, <1>2, CancelledLoops
  <2>2. \A i \in DOMAIN loops' :
            loops'[i].pc \notin {"open", "done"} => loops'[i].store \in 1..opened'
    BY <1>1, CancelledLoops DEF SchedOK, SchedulerTypeOK
  <2> QED BY <2>1, <2>2 DEF SchedOK, SchedulerTypeOK
<1>4. OneLiveLoop'
  <2>1. ASSUME NEW i \in DOMAIN loops', ~loops'[i].cancelled
        PROVE  cancels'[loops'[i].site] = i
    <3>1. i \in DOMAIN loops /\ loops[i].site # s /\ loops'[i] = loops[i]
      BY <1>1, <2>1, CancelledLoops
    <3>2. loops[i].site \in Sites BY <1>2, <3>1, LoopFields
    <3> QED BY <1>1, <1>2, <2>1, <3>1, <3>2 DEF SchedOK, OneLiveLoop
  <2>2. ASSUME NEW t \in Sites, cancels'[t] # 0
        PROVE  loops'[cancels'[t]].site = t /\ ~loops'[cancels'[t]].cancelled
    <3>1. t # s /\ cancels'[t] = cancels[t] BY <1>1, <1>2, <2>2
    <3>2. cancels[t] \in DOMAIN loops BY <1>2, <2>2, <3>1
    <3> QED BY <1>1, <2>2, <3>1, <3>2, CancelledLoops DEF SchedOK, OneLiveLoop
  <2> QED BY <2>1, <2>2 DEF OneLiveLoop
<1> QED BY <1>3, <1>4 DEF SchedOK

\* Start stops the site's loop first, so the one it launches is the only live one.
LEMMA StartKeeps ==
    ASSUME SchedOK, NEW s \in Sites, NEW c \in Configs, StartLoop(s, c),
           UNCHANGED <<files, cache, opened, falseDowns>>
    PROVE  SchedOK'
<1> DEFINE n == Len(loops) + 1
<1>1. cancels \in [Sites -> 0..Len(loops)] /\ loops \in Seq(Loop) /\ n \in Nat
  BY DEF SchedOK, SchedulerTypeOK
<1>2. NewLoop(s, c) \in Loop BY DEF NewLoop, Loop, PCs
<1>3. /\ loops' = Append(Cancelled(s), NewLoop(s, c))
      /\ cancels' = [cancels EXCEPT ![s] = n]
  BY DEF StartLoop, LoopsBeforeStart
<1>4. /\ loops' \in Seq(Loop) /\ Len(loops') = n /\ loops'[n] = NewLoop(s, c)
      /\ DOMAIN loops' = DOMAIN loops \cup {n}
      /\ \A i \in DOMAIN loops : i # n /\ loops'[i] = Cancelled(s)[i]
  BY <1>1, <1>2, <1>3, CancelledLoops
<1>5. SchedulerTypeOK'
  <2>1. cancels' \in [Sites -> 0..Len(loops')] BY <1>1, <1>3, <1>4
  <2>2. ASSUME NEW i \in DOMAIN loops', loops'[i].pc \notin {"open", "done"}
        PROVE  loops'[i].store \in 1..opened'
    <3>1. i \in DOMAIN loops BY <1>4, <2>2 DEF NewLoop
    <3> QED BY <1>4, <2>2, <3>1, CancelledLoops DEF SchedOK, SchedulerTypeOK
  <2> QED BY <1>4, <2>1, <2>2 DEF SchedOK, SchedulerTypeOK
<1>6. OneLiveLoop'
  <2>1. ASSUME NEW i \in DOMAIN loops', ~loops'[i].cancelled
        PROVE  cancels'[loops'[i].site] = i
    <3>1. CASE i = n BY <1>1, <1>3, <1>4, <3>1 DEF NewLoop
    <3>2. CASE i # n
      <4>1. i \in DOMAIN loops /\ loops[i].site # s /\ loops'[i] = loops[i]
        BY <1>4, <2>1, <3>2, CancelledLoops
      <4>2. loops[i].site \in Sites BY <1>1, <4>1, LoopFields
      <4> QED BY <1>1, <1>3, <2>1, <4>1, <4>2 DEF SchedOK, OneLiveLoop
    <3> QED BY <3>1, <3>2
  <2>2. ASSUME NEW t \in Sites, cancels'[t] # 0
        PROVE  loops'[cancels'[t]].site = t /\ ~loops'[cancels'[t]].cancelled
    <3>1. CASE t = s BY <1>1, <1>3, <1>4, <3>1 DEF NewLoop
    <3>2. CASE t # s
      <4>1. cancels'[t] = cancels[t] /\ cancels[t] \in DOMAIN loops
        BY <1>1, <1>3, <2>2, <3>2
      <4> QED BY <1>4, <2>2, <3>2, <4>1, CancelledLoops DEF SchedOK, OneLiveLoop
    <3> QED BY <3>1, <3>2
  <2> QED BY <2>1, <2>2 DEF OneLiveLoop
<1> QED BY <1>5, <1>6 DEF SchedOK

\* Shutdown cancels every loop that is still live.
LEMMA CancelAllKeeps ==
    ASSUME SchedOK, CancelAll, UNCHANGED <<files, cache, opened, falseDowns>>
    PROVE  SchedOK'
<1>1. /\ loops \in Seq(Loop)
      /\ loops' = LoopsAtShutdown /\ cancels' = [s \in Sites |-> 0]
  BY DEF SchedOK, SchedulerTypeOK, CancelAll
<1>2. \A i \in DOMAIN loops : loops[i] \in Loop BY <1>1
<1>3. ASSUME NEW i \in DOMAIN loops
      PROVE  /\ loops'[i] \in Loop /\ loops'[i].cancelled
             /\ loops'[i].pc = loops[i].pc /\ loops'[i].store = loops[i].store
  <2>1. CASE cancels[loops[i].site] = i
    <3>1. loops'[i] = [loops[i] EXCEPT !.cancelled = TRUE]
      BY <1>1, <2>1 DEF LoopsAtShutdown
    <3> QED BY <1>2, <3>1 DEF Loop
  <2>2. CASE cancels[loops[i].site] # i
    <3>1. loops'[i] = loops[i] BY <1>1, <2>2 DEF LoopsAtShutdown
    <3>2. loops[i].cancelled BY <2>2 DEF SchedOK, OneLiveLoop
    <3> QED BY <1>2, <3>1, <3>2
  <2> QED BY <2>1, <2>2
<1>4. DOMAIN loops' = DOMAIN loops BY <1>1 DEF LoopsAtShutdown
<1>5. loops' \in Seq(Loop) /\ Len(loops') = Len(loops)
  <2>1. loops' = [i \in 1..Len(loops) |-> loops'[i]] BY <1>1 DEF LoopsAtShutdown
  <2>2. Len(loops) \in Nat /\ \A i \in 1..Len(loops) : loops'[i] \in Loop BY <1>1, <1>3
  <2> QED BY <2>1, <2>2
<1>6. SchedulerTypeOK'
  <2>1. cancels' \in [Sites -> 0..Len(loops')] BY <1>1, <1>5
  <2>2. \A i \in DOMAIN loops' :
            loops'[i].pc \notin {"open", "done"} => loops'[i].store \in 1..opened'
    BY <1>3, <1>4 DEF SchedOK, SchedulerTypeOK
  <2> QED BY <1>5, <2>1, <2>2 DEF SchedOK, SchedulerTypeOK
<1>7. OneLiveLoop' BY <1>1, <1>3, <1>4 DEF OneLiveLoop
<1> QED BY <1>6, <1>7 DEF SchedOK

LEMMA LoopStepKeeps ==
    ASSUME SchedOK, NEW i \in DOMAIN loops, LoopStep(i)
    PROVE  SchedOK'
<1>1. /\ loops \in Seq(Loop) /\ opened \in Nat /\ files \subseteq Sites
      /\ cache \in [Sites -> 0..opened] /\ falseDowns \subseteq Sites
      /\ loops[i].pc \notin {"open", "done"} => loops[i].store \in 1..opened
  BY DEF SchedOK, SchedulerTypeOK
<1>2. loops[i] \in Loop BY <1>1
<1>3. loops[i].site \in Sites /\ loops[i].up \in BOOLEAN /\ loops[i].cancelled \in BOOLEAN
  BY <1>2, LoopFields
<1>4. ASSUME NEW l \in Loop,
             l.site = loops[i].site, l.cancelled = loops[i].cancelled,
             l.store = loops[i].store, loops[i].pc # "open",
             loops[i].pc # "done",
             loops' = [loops EXCEPT ![i] = l],
             UNCHANGED <<cancels, files, cache, opened>>, falseDowns' \subseteq Sites
      PROVE  SchedOK'
  <2>1. /\ opened' \in Nat /\ opened <= opened' /\ files' \subseteq Sites
        /\ cache' \in [Sites -> 0..opened'] /\ cancels' = cancels
    BY <1>1, <1>4
  <2>2. l.store \in 1..opened' BY <1>1, <1>4
  <2> QED BY <1>4, <2>1, <2>2, LoopMoves
<1>5. CASE Open(i)
  <2>1. CASE Goto(i, "done") /\ UNCHANGED <<cache, files, opened>>
    <3> DEFINE l == [loops[i] EXCEPT !.pc = "done"]
    <3>1. l \in Loop /\ l.site = loops[i].site /\ l.cancelled = loops[i].cancelled
          /\ l.pc = "done"
      BY <1>2 DEF Loop, PCs
    <3>2. /\ loops' = [loops EXCEPT ![i] = l]
          /\ UNCHANGED <<cancels, files, cache, opened, falseDowns>>
      BY <1>5, <2>1 DEF Open, Goto
    <3>3. /\ opened' \in Nat /\ opened <= opened' /\ files' \subseteq Sites
          /\ cache' \in [Sites -> 0..opened'] /\ falseDowns' \subseteq Sites
      BY <1>1, <3>2
    <3> HIDE DEF l
    <3> QED BY <3>1, <3>2, <3>3, LoopMoves
  <2>2. CASE StoreGet(loops[i].site)
             /\ loops' = [loops EXCEPT ![i].pc = "tick",
                                       ![i].store = HandleOf(loops[i].site)]
    <3> DEFINE l == [loops[i] EXCEPT !.pc = "tick", !.store = HandleOf(loops[i].site)]
    <3>1. /\ opened' \in Nat /\ opened <= opened' /\ files' \subseteq Sites
          /\ cache' \in [Sites -> 0..opened'] /\ HandleOf(loops[i].site) \in 1..opened'
      BY <1>1, <1>3, <2>2 DEF StoreGet, HandleOf
    <3>2. l \in Loop /\ l.site = loops[i].site /\ l.cancelled = loops[i].cancelled
          /\ l.store \in 1..opened'
      <4>1. ASSUME NEW n \in Nat
            PROVE  LET m == [loops[i] EXCEPT !.pc = "tick", !.store = n]
                   IN  /\ m \in Loop /\ m.site = loops[i].site
                       /\ m.cancelled = loops[i].cancelled /\ m.store = n
        BY <1>2 DEF Loop, PCs
      <4>2. HandleOf(loops[i].site) \in Nat BY <3>1
      <4> QED BY <3>1, <4>1, <4>2
    <3>3. loops' = [loops EXCEPT ![i] = l] BY <2>2
    <3>4. UNCHANGED <<cancels, falseDowns>> BY <1>5 DEF Open
    <3> HIDE DEF l
    <3> QED BY <1>1, <3>1, <3>2, <3>3, <3>4, LoopMoves
  <2> QED BY <1>5, <2>1, <2>2 DEF Open
<1>6. CASE Request(i)
  <2> DEFINE l == [loops[i] EXCEPT !.pc = "request", !.up = ~loops[i].cancelled]
  <2>1. l \in Loop /\ l.site = loops[i].site /\ l.cancelled = loops[i].cancelled
        /\ l.store = loops[i].store
    BY <1>2, <1>3 DEF Loop, PCs
  <2>2. loops[i].pc = "tick" /\ loops' = [loops EXCEPT ![i] = l]
        /\ UNCHANGED <<cancels, files, cache, opened, falseDowns>>
    BY <1>6 DEF Request
  <2> HIDE DEF l
  <2> QED BY <1>1, <1>4, <2>1, <2>2
<1>7. CASE Answer(i)
  <2>1. PICK up \in BOOLEAN :
            loops' = [loops EXCEPT ![i].pc = "record", ![i].up = up]
    BY <1>3, <1>7 DEF Answer
  <2> DEFINE l == [loops[i] EXCEPT !.pc = "record", !.up = up]
  <2>2. l \in Loop /\ l.site = loops[i].site /\ l.cancelled = loops[i].cancelled
        /\ l.store = loops[i].store
    BY <1>2 DEF Loop, PCs
  <2>3. loops[i].pc = "request" /\ loops' = [loops EXCEPT ![i] = l]
        /\ UNCHANGED <<cancels, files, cache, opened, falseDowns>>
    BY <1>7, <2>1 DEF Answer
  <2> HIDE DEF l
  <2> QED BY <1>1, <1>4, <2>2, <2>3
<1>8. ASSUME NEW from \in PCs \ {"open", "done"}, loops[i].pc = from,
             NEW to \in PCs, Goto(i, to),
             UNCHANGED <<cancels, files, cache, opened>>, falseDowns' \subseteq Sites
      PROVE  SchedOK'
  <2> DEFINE l == [loops[i] EXCEPT !.pc = to]
  <2>1. l \in Loop /\ l.site = loops[i].site /\ l.cancelled = loops[i].cancelled
        /\ l.store = loops[i].store
    BY <1>2 DEF Loop
  <2>2. loops' = [loops EXCEPT ![i] = l] BY <1>8 DEF Goto
  <2> HIDE DEF l
  <2> QED BY <1>4, <1>8, <2>1, <2>2
<1>9. CASE RecordResult(i) BY <1>1, <1>3, <1>8, <1>9 DEF RecordResult, PCs
<1>10. CASE Ticks(i) BY <1>1, <1>8, <1>10 DEF Ticks, PCs
<1>11. CASE Done(i) BY <1>1, <1>8, <1>11 DEF Done, PCs
<1> QED BY <1>5, <1>6, <1>7, <1>9, <1>10, <1>11 DEF LoopStep

-----------------------------------------------------------------------------
(* The handlers and the process.                                           *)

Shaped(r) == r = [pc |-> r.pc, req |-> r.req, existing |-> r.existing]

HandlersOK ==
    /\ DOMAIN handler = Handlers
    /\ \A h \in Handlers :
        /\ Shaped(handler[h])
        /\ handler[h].req \in RequestType
        /\ handler[h].existing \in Keys \cup {NoKey}

RegistryOK ==
    /\ DOMAIN registry \subseteq Sites
    /\ \A s \in DOMAIN registry :
        registry[s] \in [config : Configs, key : Keys \cup {NoKey}]

\* While the process boots nothing but StartAll runs.
StageOK ==
    /\ stage \in Stages
    /\ toStart \subseteq DOMAIN registry
    /\ stage = "booting" => \A h \in Handlers : At(h, "idle")
    /\ stage # "booting" => toStart = {}
    /\ purged \subseteq Sites /\ contested \subseteq Sites /\ rekeyed \subseteq Handlers

Inv == SchedOK /\ HandlersOK /\ RegistryOK /\ StageOK

LEMMA InvTypes == Inv => TypeOK
BY DEF Inv, SchedOK, HandlersOK, RegistryOK, StageOK, TypeOK

LEMMA IdleRequest ==
    /\ Request0 \in RequestType
    /\ Shaped(Idle)
    /\ Idle.req = Request0 /\ Idle.existing = NoKey /\ Idle.pc = "idle"
BY SchedulerAssumption DEF Request0, RequestType, Idle, Keep, NoKey, Shaped

LEMMA InitInv == Init => Inv
<1> SUFFICES ASSUME Init PROVE Inv OBVIOUS
<1>1. SchedOK BY InitSched DEF Init
<1>2. HandlersOK BY IdleRequest DEF Init, HandlersOK
<1>3. RegistryOK BY DEF Init, RegistryOK
<1>4. StageOK BY DEF Init, StageOK, Stages
<1> QED BY <1>1, <1>2, <1>3, <1>4 DEF Inv

\* A handler that moves on serves the same request, or none.
LEMMA GoesKeeps ==
    ASSUME HandlersOK, NEW h \in Handlers, NEW pc, Goes(h, pc)
    PROVE  HandlersOK'
<1> DEFINE new == IF pc = "idle" THEN Idle ELSE [handler[h] EXCEPT !.pc = pc]
<1>1. handler' = [handler EXCEPT ![h] = new] BY DEF Goes
<1>2. Shaped(new) /\ new.req \in RequestType /\ new.existing \in Keys \cup {NoKey}
  BY IdleRequest DEF HandlersOK, Shaped
<1> HIDE DEF new
<1> QED BY <1>1, <1>2 DEF HandlersOK

\* A step of a handler changes neither the stage nor what is left to start, and
\* happens only after booting.
LEMMA ServingStage ==
    ASSUME StageOK, NEW h \in Handlers, ~At(h, "idle"),
           UNCHANGED <<stage, toStart>>, purged' \subseteq Sites,
           contested' \subseteq Sites, rekeyed' \subseteq Handlers
    PROVE  StageOK'
BY DEF StageOK

LEMMA RowTyped ==
    ASSUME HandlersOK, NEW h \in Handlers
    PROVE  /\ Row(h) \in [config : Configs, key : Keys \cup {NoKey}]
           /\ handler[h].req.site \in Sites /\ handler[h].req.config \in Configs
BY DEF HandlersOK, RequestType, Row, KeyResolved

LEMMA WithRowTyped ==
    ASSUME RegistryOK, NEW s \in Sites,
           NEW row \in [config : Configs, key : Keys \cup {NoKey}],
           registry' = WithRow(s, row)
    PROVE  RegistryOK'
BY DEF RegistryOK, WithRow

LEMMA HandlerStepKeeps ==
    ASSUME Inv, NEW h \in Handlers, HandlerStep(h)
    PROVE  Inv'
<1> DEFINE s == handler[h].req.site
<1>1. SchedOK /\ HandlersOK /\ RegistryOK /\ StageOK BY DEF Inv
<1>2. s \in Sites /\ handler[h].req.config \in Configs
      /\ Row(h) \in [config : Configs, key : Keys \cup {NoKey}]
  BY <1>1, RowTyped
<1>3. /\ ~At(h, "idle") /\ UNCHANGED <<stage, toStart>>
  BY DEF HandlerStep, CheckExists, Insert, Materialise, Start, GetRow, Write, Remove, Stop,
         Purge, Read, Refuse, At, OnlyRegistry, OnlyManagers
<1>4. purged' \subseteq Sites
  BY <1>1, <1>2
  DEF StageOK, HandlerStep, CheckExists, Insert, Materialise, Start, GetRow, Write, Remove,
      Stop, Purge, Read, Refuse, histories
<1>4a. contested' \subseteq Sites /\ rekeyed' \subseteq Handlers
  <2>1. contested \subseteq Sites /\ rekeyed \subseteq Handlers BY <1>1 DEF StageOK
  <2>2. CASE RowChanges(h) BY <1>2, <2>1, <2>2 DEF RowChanges
  <2>3. CASE contested' = contested /\ rekeyed' \in {rekeyed, rekeyed \ {h}} BY <2>1, <2>3
  <2> QED
    BY <2>2, <2>3
    DEF HandlerStep, CheckExists, Insert, Materialise, Start, GetRow, Write, Remove, Stop,
        Purge, Read, Refuse, histories
<1>5. StageOK' BY <1>1, <1>3, <1>4, <1>4a, ServingStage
<1>6. HandlersOK'
  <2>1. CASE GetRow(h) /\ handler' = [handler EXCEPT ![h].pc = "write",
                                                     ![h].existing = registry[s].key]
             /\ s \in DOMAIN registry
    <3>1. registry[s].key \in Keys \cup {NoKey} BY <1>1, <2>1 DEF RegistryOK
    <3> DEFINE moved == [handler[h] EXCEPT !.pc = "write"]
               new   == [moved EXCEPT !.existing = registry[s].key]
    <3>2. handler' = [handler EXCEPT ![h] = new] BY <1>1, <2>1 DEF HandlersOK, Shaped
    <3>3. Shaped(moved) /\ moved.req = handler[h].req BY <1>1 DEF HandlersOK, Shaped
    <3> HIDE DEF moved
    <3>4. Shaped(new) /\ new.req = handler[h].req /\ new.existing = registry[s].key
      BY <3>3 DEF Shaped
    <3> HIDE DEF new
    <3> QED BY <1>1, <3>1, <3>2, <3>4 DEF HandlersOK
  <2>2. CASE \E pc \in {"idle", "insert", "materialise", "start", "read", "stop", "purge"} :
                Goes(h, pc)
    BY <1>1, <2>2, GoesKeeps
  <2>3. ToStart(h) \in {"start", "idle"} /\ AfterStop(h) \in {"start", "idle", "purge"}
    BY DEF ToStart, AfterStop
  <2> QED
    BY <2>1, <2>2, <2>3
    DEF HandlerStep, CheckExists, Insert, Materialise, Start, GetRow, Write, Remove, Stop,
        Purge, Read, Refuse
<1>7. RegistryOK'
  <2>1. CASE UNCHANGED registry BY <1>1, <2>1 DEF RegistryOK
  <2>2. CASE registry' = WithRow(s, Row(h)) BY <1>1, <1>2, <2>2, WithRowTyped
  <2>3. CASE registry' = [t \in DOMAIN registry \ {s} |-> registry[t]]
    BY <1>1, <2>3 DEF RegistryOK
  <2> QED
    BY <2>1, <2>2, <2>3
    DEF HandlerStep, CheckExists, Insert, Materialise, Start, GetRow, Write, Remove, Stop,
        Purge, Read, Refuse, OnlyManagers
<1>8. SchedOK'
  <2>1. CASE CheckExists(h) \/ Insert(h) \/ GetRow(h) \/ Write(h) \/ Remove(h) \/ Refuse(h)
    BY <1>1, <2>1, StutterKeeps
    DEF CheckExists, Insert, GetRow, Write, Remove, Refuse, OnlyRegistry
  <2>2. CASE Materialise(h) \/ Read(h)
    <3>1. UNCHANGED <<loops, cancels, falseDowns>> BY <2>2 DEF Materialise, Read
    <3>2. StoreGet(s) \/ UNCHANGED <<cache, files, opened>> BY <2>2 DEF Materialise, Read
    <3> QED BY <1>1, <1>2, <3>1, <3>2, StoreGetKeeps, StutterKeeps DEF svars
  <2>3. CASE Start(h) BY <1>1, <1>2, <2>3, StartKeeps DEF Start
  <2>4. CASE Stop(h) BY <1>1, <1>2, <2>4, StopKeeps DEF Stop
  <2>5. CASE Purge(h) BY <1>1, <1>2, <2>5, StoreDeleteKeeps DEF Purge
  <2> QED BY <2>1, <2>2, <2>3, <2>4, <2>5 DEF HandlerStep
<1> QED BY <1>5, <1>6, <1>7, <1>8 DEF Inv

-----------------------------------------------------------------------------
LEMMA AcceptKeeps ==
    ASSUME Inv, NEW h \in Handlers, NEW req \in Requests, Accept(h, req)
    PROVE  Inv'
<1>1. SchedOK' BY StutterKeeps DEF Accept, Inv
<1>2. req \in RequestType BY SiteAdminAssumption
<1>3. HandlersOK'
  <2> DEFINE moved == [Idle EXCEPT !.pc = FirstStep(req)]
             new   == [moved EXCEPT !.req = req]
  <2>1. handler' = [handler EXCEPT ![h] = new] BY IdleRequest DEF Accept, Shaped
  <2>2. Shaped(moved) /\ moved.existing = NoKey BY IdleRequest DEF Shaped
  <2> HIDE DEF moved
  <2>3. Shaped(new) /\ new.req = req /\ new.existing = NoKey BY <2>2 DEF Shaped
  <2> HIDE DEF new
  <2> QED BY <1>2, <2>1, <2>3 DEF Inv, HandlersOK
<1>4. RegistryOK' BY DEF Accept, Inv, RegistryOK
<1>5. StageOK' BY DEF Accept, Inv, StageOK, histories
<1> QED BY <1>1, <1>3, <1>4, <1>5 DEF Inv

\* What run itself does, boots aside.
Runner == ProcessStep \/ Signal \/ ListenerFails

LEMMA ProcessStepKeeps ==
    ASSUME Inv, Runner
    PROVE  Inv'
<1>1. HandlersOK' /\ RegistryOK'
  <2>1. UNCHANGED <<handler, registry>>
    BY DEF Runner, ProcessStep, StartNext, Serve, Drained, Waited, Exit, Signal,
           ListenerFails, Moves
  <2> QED BY <2>1 DEF Inv, HandlersOK, RegistryOK
<1>2. StageOK'
  BY DEF Inv, StageOK, Stages, Runner, ProcessStep, StartNext, Serve, Drained, Waited, Exit,
         Signal, ListenerFails, Moves, At, histories
<1>3. SchedOK'
  <2>1. ASSUME NEW s \in Sites, StartNext(s) PROVE SchedOK'
    <3>1. registry[s].config \in Configs
      BY <2>1 DEF StartNext, Inv, StageOK, RegistryOK
    <3> QED BY <2>1, <3>1, StartKeeps DEF StartNext, Inv
  <2>2. CASE Serve \/ Waited \/ Signal \/ ListenerFails
    BY <2>2, StutterKeeps DEF Serve, Waited, Signal, ListenerFails, Inv
  <2>3. CASE Drained BY <2>3, CancelAllKeeps DEF Drained, Inv
  <2>4. CASE Exit
    <3>1. /\ UNCHANGED <<loops, cancels, files, opened, falseDowns>>
          /\ cache' = [s \in Sites |-> 0]
      BY <2>4 DEF Exit
    <3>2. SchedulerTypeOK' BY <3>1 DEF Inv, SchedOK, SchedulerTypeOK
    <3>3. OneLiveLoop' BY <3>1 DEF Inv, SchedOK, OneLiveLoop
    <3> QED BY <3>2, <3>3 DEF SchedOK
  <2> QED BY <2>1, <2>2, <2>3, <2>4 DEF Runner, ProcessStep
<1> QED BY <1>1, <1>2, <1>3 DEF Inv

LEMMA RestartKeeps ==
    ASSUME Inv, Restart
    PROVE  Inv'
<1>1. SchedOK'
  <2>1. loops' \in Seq(Loop) /\ Len(loops') = 0 /\ DOMAIN loops' = {} BY DEF Restart
  <2>2. SchedulerTypeOK' BY <2>1 DEF Restart, Inv, SchedOK, SchedulerTypeOK
  <2>3. OneLiveLoop' BY <2>1 DEF Restart, OneLiveLoop
  <2> QED BY <2>2, <2>3 DEF SchedOK
<1>2. HandlersOK' BY IdleRequest DEF Restart, HandlersOK
<1>3. RegistryOK' BY DEF Restart, Inv, RegistryOK
<1>4. StageOK' BY <1>2, IdleRequest DEF Restart, Inv, StageOK, Stages, At
<1> QED BY <1>1, <1>2, <1>3, <1>4 DEF Inv

LEMMA StepKeeps == Inv /\ [Next]_vars => Inv'
<1> SUFFICES ASSUME Inv, [Next]_vars PROVE Inv' OBVIOUS
<1>1. ASSUME NEW i \in DOMAIN loops, SchedulerStep(i) PROVE Inv'
  <2>1. SchedOK' BY <1>1, LoopStepKeeps DEF SchedulerStep, Inv
  <2>2. HandlersOK' /\ RegistryOK' /\ StageOK'
    BY <1>1 DEF SchedulerStep, avars, histories, Inv, HandlersOK, RegistryOK, StageOK, At
  <2> QED BY <2>1, <2>2 DEF Inv
<1>2. ASSUME NEW h \in Handlers, AdminStep(h) PROVE Inv'
  BY <1>2, HandlerStepKeeps DEF AdminStep
<1>3. ASSUME NEW h \in Handlers, NEW req \in Requests, Accept(h, req) PROVE Inv'
  BY <1>3, AcceptKeeps
<1>4. CASE Runner BY <1>4, ProcessStepKeeps
<1>5. CASE Restart BY <1>5, RestartKeeps
<1>6. CASE UNCHANGED vars
  <2>1. SchedOK' BY <1>6, StutterKeeps DEF vars, Inv
  <2>2. HandlersOK' /\ RegistryOK' /\ StageOK'
    BY <1>6 DEF vars, avars, histories, Inv, HandlersOK, RegistryOK, StageOK, At
  <2> QED BY <2>1, <2>2 DEF Inv
<1> QED BY <1>1, <1>2, <1>3, <1>4, <1>5, <1>6 DEF Next, Runner

LEMMA AlwaysInv == Spec => []Inv
<1> QED BY InitInv, StepKeeps, PTL DEF Spec

\* Every variable keeps its type: a handle in use was opened, a site to start at
\* boot has a row, and nothing but StartAll runs while the process boots.
THEOREM TypesAreKept == Spec => []TypeOK
<1> QED BY AlwaysInv, InvTypes, PTL

(***************************************************************************)
(* However requests interleave, and across crashes and restarts, a site    *)
(* has at most one live loop, the one Stop would cancel: Start and Stop    *)
(* cancel before they replace or forget, under the Manager's mutex.        *)
(***************************************************************************)
THEOREM AtMostOneLiveLoop == Spec => []OneLiveLoop
<1>1. Inv => OneLiveLoop BY DEF Inv, SchedOK
<1> QED BY <1>1, AlwaysInv, PTL

-----------------------------------------------------------------------------
(***************************************************************************)
(* The scheduler follows the registry at every site that is not contested. *)
(* Of such a site one request at most has changed the row and has still to *)
(* act on it; what it has done so far holds still, and when there is none, *)
(* the loop of the site is the one its row asks for.                       *)
(***************************************************************************)

\* The scheduler runs site s as its row says.
Synced(s) ==
    /\ Enabled(s) <=> (cancels[s] # 0)
    /\ Enabled(s) => loops[cancels[s]].config = registry[s].config

\* The live loop of s holds the database that is open.
LivesAt(s) ==
    \A i \in DOMAIN loops :
        loops[i].site = s /\ ~loops[i].cancelled /\ loops[i].pc \notin {"open", "done"}
            => loops[i].store = cache[s]

Good(s) == Synced(s) /\ LivesAt(s)

\* Handler h has changed the row of s and not told the scheduler yet.
Changing(h, s) == handler[h].req.site = s /\ handler[h].pc \in {"materialise", "start", "stop"}

RowIs(s, c) == s \in DOMAIN registry /\ registry[s].config = c

\* What handler h has done of a change to s still holds.
HasDone(h, s) ==
    LET req == handler[h].req IN
    req.site = s =>
        /\ At(h, "materialise") =>
            RowIs(s, req.config) /\ (~req.config.enabled => cancels[s] = 0)
        /\ At(h, "start") => RowIs(s, req.config) /\ req.config.enabled
        /\ At(h, "stop") => IF req.op = "update" THEN RowIs(s, req.config)
                            ELSE s \notin DOMAIN registry
        /\ At(h, "purge") => s \notin DOMAIN registry

Tracked(s) ==
    /\ \A g, h \in Handlers : Acting(g, s) /\ Acting(h, s) => g = h
    /\ \A h \in Handlers : HasDone(h, s)
    /\ s \in toStart => Enabled(s) /\ cancels[s] = 0
    /\ s \notin toStart /\ (\A h \in Handlers : ~Changing(h, s)) => Good(s)

Up == {"booting", "running", "draining"}

Follows == stage \in Up => \A s \in Sites : s \notin contested => Tracked(s)

Asked(h) ==
    /\ At(h, "write") => handler[h].req.op = "update"
    /\ At(h, "remove") => handler[h].req.op = "delete"
    /\ At(h, "get") => handler[h].req.op \in {"update", "read"}
    /\ At(h, "insert") \/ At(h, "exists") => handler[h].req.op = "create"

Steps == \A h \in Handlers : Asked(h)

\* Site t is as it was, for its row, its loop and the requests that act on it.
Kept(t) ==
    /\ t \in DOMAIN registry' <=> t \in DOMAIN registry
    /\ t \in DOMAIN registry => registry'[t] = registry[t]
    /\ cancels'[t] = cancels[t]
    /\ cancels[t] # 0 => loops'[cancels[t]].config = loops[cancels[t]].config
    /\ t \in toStart' <=> t \in toStart
    /\ LivesAt(t) => LivesAt(t)'
    /\ \A g \in Handlers :
        /\ Acting(g, t)' <=> Acting(g, t)
        /\ Acting(g, t) => handler'[g] = handler[g]

LEMMA KeptTracked ==
    ASSUME NEW t, Kept(t), Tracked(t)
    PROVE  Tracked(t)'
<1>1. Enabled(t)' = Enabled(t) /\ (Good(t) => Good(t)')
  BY DEF Kept, Good, Synced, Enabled
<1>2. ASSUME NEW g \in Handlers PROVE HasDone(g, t)' /\ (Changing(g, t)' <=> Changing(g, t))
  <2>1. CASE Acting(g, t)
    <3>1. handler'[g] = handler[g] BY <2>1 DEF Kept
    <3>2. \A c : RowIs(t, c)' = RowIs(t, c) BY DEF Kept, RowIs
    <3>3. HasDone(g, t) BY DEF Tracked
    <3> QED BY <3>1, <3>2, <3>3 DEF HasDone, At, Changing, Kept
  <2>2. CASE ~Acting(g, t)
    <3>1. ~Acting(g, t)' BY <2>2 DEF Kept
    <3> QED BY <2>2, <3>1 DEF Acting, Changing, HasDone, At
  <2> QED BY <2>1, <2>2
<1>3. \A g, h \in Handlers : Acting(g, t)' /\ Acting(h, t)' => g = h BY DEF Kept, Tracked
<1>4. t \in toStart' => Enabled(t)' /\ cancels'[t] = 0 BY <1>1 DEF Kept, Tracked
<1>5. t \notin toStart' /\ (\A h \in Handlers : ~Changing(h, t)') => Good(t)'
  BY <1>1, <1>2 DEF Kept, Tracked
<1> HIDE DEF Kept
<1> QED BY <1>2, <1>3, <1>4, <1>5 DEF Tracked

\* One request acts on s, or none does.
LEMMA OnlyActs ==
    ASSUME NEW s, NEW h \in Handlers, \A g \in Handlers : g # h => ~Acting(g, s)',
           HasDone(h, s)', s \notin toStart', Changing(h, s)' \/ Good(s)'
    PROVE  Tracked(s)'
<1>1. \A g \in Handlers : g # h => HasDone(g, s)' BY DEF Acting, HasDone, At
<1> QED BY <1>1 DEF Tracked

-----------------------------------------------------------------------------
(* The operations of the managers, site by site.                            *)

LEMMA LoopIndex ==
    ASSUME Inv, NEW s \in Sites, cancels[s] # 0
    PROVE  cancels[s] \in DOMAIN loops /\ loops[cancels[s]].site = s
<1>1. cancels \in [Sites -> 0..Len(loops)] /\ loops \in Seq(Loop)
  BY DEF Inv, SchedOK, SchedulerTypeOK
<1> QED BY <1>1 DEF Inv, SchedOK, OneLiveLoop

\* No loop opens a database or comes back to life.
LoopsStay ==
    \A i \in DOMAIN loops' :
        \/ loops'[i].pc = "open" /\ loops'[i].store = 0
        \/ /\ i \in DOMAIN loops
           /\ loops'[i].site = loops[i].site /\ loops'[i].pc = loops[i].pc
           /\ loops'[i].store = loops[i].store
           /\ ~loops'[i].cancelled => ~loops[i].cancelled

OthersStay(s) ==
    \A t \in Sites : t # s =>
        /\ cancels'[t] = cancels[t]
        /\ cancels[t] # 0 => loops'[cancels[t]].config = loops[cancels[t]].config

LEMMA StopEffect ==
    ASSUME Inv, NEW s \in Sites, StopLoop(s)
    PROVE  cancels'[s] = 0 /\ OthersStay(s) /\ LoopsStay
<1>1. SchedOK /\ loops' = Cancelled(s) /\ cancels' = [cancels EXCEPT ![s] = 0]
      /\ DOMAIN cancels = Sites
  BY DEF Inv, StopLoop, SchedOK, SchedulerTypeOK
<1>2. /\ DOMAIN loops' = DOMAIN loops
      /\ \A i \in DOMAIN loops :
            /\ loops'[i].site = loops[i].site /\ loops'[i].pc = loops[i].pc
            /\ loops'[i].store = loops[i].store
            /\ loops[i].site # s => loops'[i] = loops[i]
            /\ loops[i].site = s => loops'[i].cancelled
  BY <1>1, CancelledLoops
<1>3. \A t \in Sites : t # s => cancels'[t] = cancels[t] BY <1>1
<1>4. \A t \in Sites : t # s /\ cancels[t] # 0 => loops'[cancels[t]] = loops[cancels[t]]
  BY <1>2, LoopIndex
<1> QED BY <1>1, <1>2, <1>3, <1>4 DEF OthersStay, LoopsStay

LEMMA StartEffect ==
    ASSUME Inv, NEW s \in Sites, NEW c \in Configs, StartLoop(s, c)
    PROVE  /\ cancels'[s] # 0
           /\ loops'[cancels'[s]].config = c /\ loops'[cancels'[s]].pc = "open"
           /\ OthersStay(s) /\ LoopsStay
<1> DEFINE n == Len(loops) + 1
           l == NewLoop(s, c)
           ls == Cancelled(s)
<1>1. /\ SchedOK /\ loops' = Append(ls, l) /\ cancels' = [cancels EXCEPT ![s] = n]
      /\ DOMAIN cancels = Sites /\ n \in Nat /\ n # 0
  BY DEF Inv, StartLoop, LoopsBeforeStart, SchedOK, SchedulerTypeOK
<1>2. /\ ls \in Seq(Loop) /\ Len(ls) = Len(loops) /\ DOMAIN ls = DOMAIN loops
      /\ \A i \in DOMAIN loops :
            /\ ls[i].site = loops[i].site /\ ls[i].pc = loops[i].pc
            /\ ls[i].store = loops[i].store
            /\ loops[i].site # s => ls[i] = loops[i]
            /\ loops[i].site = s => ls[i].cancelled
  BY <1>1, CancelledLoops
<1>3. l \in Loop /\ l.pc = "open" /\ l.config = c /\ l.store = 0 BY DEF NewLoop, Loop, PCs
<1> HIDE DEF l, ls
<1>4. /\ DOMAIN loops' = DOMAIN loops \cup {n} /\ loops'[n] = l
      /\ \A i \in DOMAIN loops : loops'[i] = ls[i]
  BY <1>1, <1>2, <1>3
<1> HIDE DEF n
<1>5. cancels'[s] = n /\ \A t \in Sites : t # s => cancels'[t] = cancels[t] BY <1>1
<1>6. \A t \in Sites : t # s /\ cancels[t] # 0 => loops'[cancels[t]] = loops[cancels[t]]
  BY <1>2, <1>4, LoopIndex
<1>7. cancels'[s] # 0 /\ loops'[cancels'[s]].config = c /\ loops'[cancels'[s]].pc = "open"
  BY <1>1, <1>3, <1>4, <1>5
<1>8. OthersStay(s) BY <1>5, <1>6 DEF OthersStay
<1>9. LoopsStay
  <2> SUFFICES ASSUME NEW i \in DOMAIN loops'
               PROVE  \/ loops'[i].pc = "open" /\ loops'[i].store = 0
                      \/ /\ i \in DOMAIN loops
                         /\ loops'[i].site = loops[i].site /\ loops'[i].pc = loops[i].pc
                         /\ loops'[i].store = loops[i].store
                         /\ ~loops'[i].cancelled => ~loops[i].cancelled
    BY DEF LoopsStay
  <2>1. CASE i = n BY <1>3, <1>4, <2>1
  <2>2. CASE i \in DOMAIN loops BY <1>2, <1>4, <2>2
  <2> QED BY <1>4, <2>1, <2>2
<1> QED BY <1>7, <1>8, <1>9

\* A live loop past its open holds the cached handle, and that is not 0, so
\* stores.Get does not replace it.
LEMMA LiveHandle ==
    ASSUME Inv, NEW i \in DOMAIN loops, ~loops[i].cancelled,
           loops[i].pc \notin {"open", "done"}, LivesAt(loops[i].site)
    PROVE  /\ loops[i].site \in Sites /\ cancels[loops[i].site] = i /\ i # 0
           /\ loops[i].store = cache[loops[i].site] /\ cache[loops[i].site] # 0
<1>1. loops[i] \in Loop /\ i # 0 /\ opened \in Nat
  BY DEF Inv, SchedOK, SchedulerTypeOK
<1>2. loops[i].store \in 1..opened BY DEF Inv, SchedOK, SchedulerTypeOK
<1>3. loops[i].site \in Sites BY <1>1, LoopFields
<1>4. cancels[loops[i].site] = i BY DEF Inv, SchedOK, OneLiveLoop
<1> QED BY <1>1, <1>2, <1>3, <1>4 DEF LivesAt

\* The handle stays that the scheduled loop of t uses.
LEMMA LivesStay ==
    ASSUME Inv, NEW t \in Sites, LoopsStay, LivesAt(t),
           cancels[t] # 0 /\ cache[t] # 0 => cache'[t] = cache[t]
    PROVE  LivesAt(t)'
<1> SUFFICES ASSUME NEW i \in DOMAIN loops', loops'[i].site = t,
                    ~loops'[i].cancelled, loops'[i].pc \notin {"open", "done"}
             PROVE  loops'[i].store = cache'[t]
  BY DEF LivesAt
<1>1. /\ i \in DOMAIN loops
      /\ loops'[i].site = loops[i].site /\ loops'[i].pc = loops[i].pc
      /\ loops'[i].store = loops[i].store /\ ~loops[i].cancelled
  BY DEF LoopsStay
<1>2. cancels[t] # 0 /\ loops[i].store = cache[t] /\ cache[t] # 0
  BY <1>1, LiveHandle
<1> QED BY <1>1, <1>2

\* A site without a cancel function, or whose loop has still to open its
\* database, has no live loop that holds one.
LEMMA NoLive ==
    ASSUME Inv, NEW t, cancels[t] = 0 \/ loops[cancels[t]].pc = "open"
    PROVE  LivesAt(t)
<1> SUFFICES ASSUME NEW i \in DOMAIN loops, loops[i].site = t,
                    ~loops[i].cancelled, loops[i].pc \notin {"open", "done"}
             PROVE  FALSE
  BY DEF LivesAt
<1>1. cancels[t] = i BY DEF Inv, SchedOK, OneLiveLoop
<1>2. i # 0 BY DEF Inv, SchedOK, SchedulerTypeOK
<1> QED BY <1>1, <1>2

LEMMA NoLiveNext ==
    ASSUME Inv', NEW t, cancels'[t] = 0 \/ loops'[cancels'[t]].pc = "open"
    PROVE  LivesAt(t)'
<1> SUFFICES ASSUME NEW i \in DOMAIN loops', loops'[i].site = t,
                    ~loops'[i].cancelled, loops'[i].pc \notin {"open", "done"}
             PROVE  FALSE
  BY DEF LivesAt
<1>1. cancels'[t] = i BY DEF Inv, SchedOK, OneLiveLoop
<1>2. i # 0 BY DEF Inv, SchedOK, SchedulerTypeOK
<1> QED BY <1>1, <1>2
\* One loop moves on: what the scheduler knows of the loops stays, and a handle
\* it gets is the cached one.
GoesOn ==
    /\ UNCHANGED cancels /\ DOMAIN loops' = DOMAIN loops
    /\ \A j \in DOMAIN loops :
        /\ loops'[j].site = loops[j].site /\ loops'[j].config = loops[j].config
        /\ loops'[j].cancelled = loops[j].cancelled
        /\ \/ loops'[j].pc \in {"open", "done"}
           \/ loops'[j].store = cache'[loops[j].site]
           \/ loops'[j].store = loops[j].store /\ loops[j].pc \notin {"open", "done"}
    /\ \A t \in Sites : cache[t] # 0 => cache'[t] = cache[t]

LEMMA LoopEffect ==
    ASSUME Inv, NEW i \in DOMAIN loops, LoopStep(i)
    PROVE  GoesOn
<1>1. /\ loops \in Seq(Loop) /\ cache \in [Sites -> 0..opened]
  BY DEF Inv, SchedOK, SchedulerTypeOK
<1>2. loops[i] \in Loop /\ loops[i].site \in Sites BY <1>1, LoopFields
<1>3. ASSUME NEW m, loops' = [loops EXCEPT ![i] = m]
      PROVE  /\ DOMAIN loops' = DOMAIN loops /\ loops'[i] = m
             /\ \A j \in DOMAIN loops : j # i => loops'[j] = loops[j]
  BY <1>1, <1>3
<1>4. ASSUME NEW m,
             m.site = loops[i].site, m.config = loops[i].config,
             m.cancelled = loops[i].cancelled,
             \/ m.pc \in {"open", "done"}
             \/ m.store = cache'[loops[i].site]
             \/ m.store = loops[i].store /\ loops[i].pc \notin {"open", "done"},
             loops' = [loops EXCEPT ![i] = m], UNCHANGED cancels,
             \A t \in Sites : cache[t] # 0 => cache'[t] = cache[t]
      PROVE  GoesOn
  <2>1. /\ DOMAIN loops' = DOMAIN loops /\ loops'[i] = m
        /\ \A j \in DOMAIN loops : j # i => loops'[j] = loops[j]
    BY <1>3, <1>4
  <2> QED BY <1>4, <2>1 DEF GoesOn
<1>5. ASSUME NEW pc, NEW up
      PROVE  LET m == [loops[i] EXCEPT !.pc = pc, !.up = up] IN
             /\ m.site = loops[i].site /\ m.config = loops[i].config
             /\ m.cancelled = loops[i].cancelled /\ m.store = loops[i].store
  BY <1>2 DEF Loop
<1>6. ASSUME NEW pc
      PROVE  LET m == [loops[i] EXCEPT !.pc = pc] IN
             /\ m.site = loops[i].site /\ m.config = loops[i].config
             /\ m.cancelled = loops[i].cancelled /\ m.store = loops[i].store /\ m.pc = pc
  BY <1>2 DEF Loop
<1>7. CASE Open(i)
  <2>1. CASE Goto(i, "done") /\ UNCHANGED <<cache, files, opened>>
    <3> DEFINE m == [loops[i] EXCEPT !.pc = "done"]
    <3>1. loops' = [loops EXCEPT ![i] = m] /\ UNCHANGED <<cancels, cache>>
      BY <1>7, <2>1 DEF Open, Goto
    <3>2. /\ m.site = loops[i].site /\ m.config = loops[i].config
          /\ m.cancelled = loops[i].cancelled /\ m.pc = "done"
      BY <1>6
    <3> HIDE DEF m
    <3> QED BY <1>4, <3>1, <3>2
  <2>2. CASE StoreGet(loops[i].site)
             /\ loops' = [loops EXCEPT ![i].pc = "tick",
                                       ![i].store = HandleOf(loops[i].site)]
    <3> DEFINE m == [loops[i] EXCEPT !.pc = "tick", !.store = HandleOf(loops[i].site)]
    <3>1. loops' = [loops EXCEPT ![i] = m] /\ UNCHANGED cancels
      BY <1>7, <2>2 DEF Open
    <3>2. /\ m.site = loops[i].site /\ m.config = loops[i].config
          /\ m.cancelled = loops[i].cancelled /\ m.store = HandleOf(loops[i].site)
      BY <1>2 DEF Loop
    <3>3. /\ cache'[loops[i].site] = HandleOf(loops[i].site)
          /\ \A t \in Sites : cache[t] # 0 => cache'[t] = cache[t]
      BY <1>1, <1>2, <2>2 DEF StoreGet, HandleOf
    <3> HIDE DEF m
    <3> QED BY <1>4, <3>1, <3>2, <3>3
  <2> QED BY <1>7, <2>1, <2>2 DEF Open
<1>8. ASSUME NEW pc, NEW up, loops' = [loops EXCEPT ![i].pc = pc, ![i].up = up],
             loops[i].pc \notin {"open", "done"}, UNCHANGED <<cancels, cache>>
      PROVE  GoesOn
  <2> DEFINE m == [loops[i] EXCEPT !.pc = pc, !.up = up]
  <2>1. loops' = [loops EXCEPT ![i] = m] BY <1>8
  <2>2. /\ m.site = loops[i].site /\ m.config = loops[i].config
        /\ m.cancelled = loops[i].cancelled /\ m.store = loops[i].store
    BY <1>5
  <2> HIDE DEF m
  <2> QED BY <1>4, <1>8, <2>1, <2>2
<1>9. ASSUME NEW pc, Goto(i, pc), loops[i].pc \notin {"open", "done"}, UNCHANGED <<cancels, cache>>
      PROVE  GoesOn
  <2> DEFINE m == [loops[i] EXCEPT !.pc = pc]
  <2>1. loops' = [loops EXCEPT ![i] = m] BY <1>9 DEF Goto
  <2>2. /\ m.site = loops[i].site /\ m.config = loops[i].config
        /\ m.cancelled = loops[i].cancelled /\ m.store = loops[i].store
    BY <1>6
  <2> HIDE DEF m
  <2> QED BY <1>4, <1>9, <2>1, <2>2
<1>10. CASE Request(i) BY <1>8, <1>10 DEF Request
<1>11. CASE Answer(i)
  <2>1. PICK up : loops' = [loops EXCEPT ![i].pc = "record", ![i].up = up]
    BY <1>11 DEF Answer
  <2> QED BY <1>8, <1>11, <2>1 DEF Answer
<1>12. CASE RecordResult(i) BY <1>9, <1>12 DEF RecordResult
<1>13. CASE Ticks(i) BY <1>9, <1>13 DEF Ticks
<1>14. CASE Done(i) BY <1>9, <1>14 DEF Done
<1> QED BY <1>7, <1>10, <1>11, <1>12, <1>13, <1>14 DEF LoopStep
-----------------------------------------------------------------------------
(* The steps of a handler.                                                  *)

LEMMA GoesEffect ==
    ASSUME Inv, NEW h \in Handlers, NEW pc, Goes(h, pc)
    PROVE  /\ handler'[h].pc = pc
           /\ pc # "idle" => /\ handler'[h].req = handler[h].req
                             /\ handler'[h].existing = handler[h].existing
           /\ \A g \in Handlers : g # h => handler'[g] = handler[g]
<1> DEFINE new == IF pc = "idle" THEN Idle ELSE [handler[h] EXCEPT !.pc = pc]
<1>1. handler' = [handler EXCEPT ![h] = new] /\ DOMAIN handler = Handlers
  BY DEF Goes, Inv, HandlersOK
<1>2. /\ new.pc = pc
      /\ pc # "idle" => new.req = handler[h].req /\ new.existing = handler[h].existing
  BY IdleRequest DEF Inv, HandlersOK, Shaped
<1> HIDE DEF new
<1> QED BY <1>1, <1>2

LEMMA GoesOnLives ==
    ASSUME Inv, GoesOn, NEW t \in Sites, LivesAt(t)
    PROVE  LivesAt(t)'
<1> SUFFICES ASSUME NEW i \in DOMAIN loops', loops'[i].site = t,
                    ~loops'[i].cancelled, loops'[i].pc \notin {"open", "done"}
             PROVE  loops'[i].store = cache'[t]
  BY DEF LivesAt
<1>1. /\ i \in DOMAIN loops /\ loops[i].site = t /\ ~loops[i].cancelled
      /\ \/ loops'[i].store = cache'[t]
         \/ loops'[i].store = loops[i].store /\ loops[i].pc \notin {"open", "done"}
  BY DEF GoesOn
<1>2. CASE loops'[i].store = loops[i].store /\ loops[i].pc \notin {"open", "done"}
  <2>1. loops[i].store = cache[t] /\ cache[t] # 0 BY <1>1, <1>2, LiveHandle
  <2>2. cache'[t] = cache[t] BY <2>1 DEF GoesOn
  <2> QED BY <1>2, <2>1, <2>2
<1> QED BY <1>1, <1>2

\* h serves site s and moves on, or is done; the others stand still.
Moved(h, s) ==
    /\ \A g \in Handlers : g # h => handler'[g] = handler[g]
    /\ handler'[h].pc = "idle" \/ handler'[h].req = handler[h].req

Served(h, s) == handler[h].req.site = s /\ Moved(h, s) /\ UNCHANGED <<stage, toStart>>

\* A handler that neither was nor is acting leaves every site as it was.
LEMMA IdlyKept ==
    ASSUME Inv, NEW h \in Handlers, NEW t \in Sites,
           \A g \in Handlers : g # h => handler'[g] = handler[g],
           ~Acting(h, t), ~Acting(h, t)',
           UNCHANGED <<registry, loops, cancels, toStart>>,
           LivesAt(t) => LivesAt(t)'
    PROVE  Kept(t)
BY DEF Kept, Acting

\* The sites of the others.
LEMMA OthersKept ==
    ASSUME Inv, NEW h \in Handlers, NEW s \in Sites, Served(h, s), NEW t \in Sites, t # s,
           t \in DOMAIN registry' <=> t \in DOMAIN registry,
           t \in DOMAIN registry => registry'[t] = registry[t],
           cancels'[t] = cancels[t],
           cancels[t] # 0 => loops'[cancels[t]].config = loops[cancels[t]].config,
           LivesAt(t) => LivesAt(t)'
    PROVE  Kept(t)
<1>1. ~Acting(h, t) BY DEF Served, Acting
<1>2. ~Acting(h, t)' BY DEF Served, Moved, Acting
<1> QED BY <1>1, <1>2 DEF Kept, Served, Moved, Acting

\* A request that acts on a site that is not contested is the only one.
LEMMA OthersRest ==
    ASSUME NEW s, Tracked(s), NEW h \in Handlers, Served(h, s), Acting(h, s)
    PROVE  \A g \in Handlers : g # h => ~Acting(g, s)'
BY DEF Tracked, Served, Moved, Acting

LEMMA ServedFollows ==
    ASSUME Inv, Steps, Follows, NEW h \in Handlers, NEW s \in Sites, Served(h, s),
           Asked(h)',
           \A t \in Sites : t # s => Kept(t) /\ (t \in contested' <=> t \in contested),
           stage \in Up /\ s \notin contested' => Tracked(s)'
    PROVE  Steps' /\ Follows'
<1>1. ASSUME NEW g \in Handlers PROVE Asked(g)'
  <2>1. CASE g = h BY <2>1
  <2>2. CASE g # h BY <2>2 DEF Served, Moved, Steps, Asked, At
  <2> QED BY <2>1, <2>2
<1>2. Steps' BY <1>1 DEF Steps
<1>3. ASSUME stage \in Up, NEW t \in Sites, t \notin contested' PROVE Tracked(t)'
  <2>1. CASE t = s BY <1>3, <2>1
  <2>2. CASE t # s BY <1>3, <2>2, KeptTracked DEF Follows
  <2> QED BY <2>1, <2>2
<1>4. Follows' BY <1>3 DEF Follows, Served
<1> QED BY <1>2, <1>4

-----------------------------------------------------------------------------
(* A handler's steps that change no row and act on none.                    *)

Looks(h) ==
    \/ CheckExists(h) \/ Refuse(h) \/ GetRow(h) \/ Read(h)
    \/ (Insert(h) \/ Write(h) \/ Remove(h)) /\ UNCHANGED registry /\ Goes(h, "idle")
                                           /\ UNCHANGED contested

LEMMA RowRead ==
    ASSUME Inv, NEW h \in Handlers, NEW key,
           handler' = [handler EXCEPT ![h].pc = "write", ![h].existing = key]
    PROVE  /\ handler'[h].pc = "write" /\ handler'[h].req = handler[h].req
           /\ \A g \in Handlers : g # h => handler'[g] = handler[g]
<1>1. DOMAIN handler = Handlers /\ Shaped(handler[h]) BY DEF Inv, HandlersOK
<1> DEFINE x == [handler[h] EXCEPT !.pc = "write", !.existing = key]
<1>2. handler' = [handler EXCEPT ![h] = x] BY <1>1
<1>3. x.pc = "write" /\ x.req = handler[h].req BY <1>1 DEF Shaped
<1> HIDE DEF x
<1> QED BY <1>1, <1>2, <1>3

LEMMA LooksFollows ==
    ASSUME Inv, Steps, Follows, NEW h \in Handlers, Looks(h),
           NEW s \in Sites, handler[h].req.site = s
    PROVE  Steps' /\ Follows'
<1>1. /\ UNCHANGED <<registry, loops, cancels, stage, toStart, contested>>
      /\ handler[h].pc \in {"exists", "insert", "get", "write", "remove", "read"}
      /\ UNCHANGED cache \/ StoreGet(s)
  BY DEF Looks, CheckExists, Refuse, GetRow, Read, Insert, Write, Remove, OnlyRegistry,
         OnlyManagers, svars, histories, At
<1>2. \/ \E pc \in {"idle", "insert", "read"} : Goes(h, pc) /\ (pc = "insert" => At(h, "exists"))
      \/ At(h, "get") /\ handler[h].req.op # "read"
         /\ handler' = [handler EXCEPT ![h].pc = "write", ![h].existing = registry[s].key]
  BY DEF Looks, CheckExists, Refuse, GetRow, Read
<1>3. /\ handler'[h].pc \in {"idle", "insert", "read", "write"}
      /\ Moved(h, s) /\ Asked(h)'
  <2>1. ASSUME NEW pc \in {"idle", "insert", "read"}, Goes(h, pc), pc = "insert" => At(h, "exists")
        PROVE  handler'[h].pc = pc /\ Moved(h, s) /\ Asked(h)'
    <3>1. handler'[h].pc = pc /\ Moved(h, s) /\ (pc = "insert" => handler'[h].req = handler[h].req)
      BY <2>1, GoesEffect DEF Moved
    <3> QED BY <2>1, <3>1 DEF Asked, At, Steps
  <2>2. CASE /\ At(h, "get") /\ handler[h].req.op # "read"
             /\ handler' = [handler EXCEPT ![h].pc = "write", ![h].existing = registry[s].key]
    <3>1. /\ handler'[h].pc = "write" /\ handler'[h].req = handler[h].req /\ Moved(h, s)
      BY <2>2, RowRead DEF Moved
    <3>2. handler[h].req.op = "update" BY <2>2 DEF Steps, Asked
    <3> QED BY <3>1, <3>2 DEF Asked, At
  <2> QED BY <1>2, <2>1, <2>2
<1>4. cache \in [Sites -> 0..opened] BY DEF Inv, SchedOK, SchedulerTypeOK
<1>5. ASSUME NEW t \in Sites PROVE Kept(t)
  <2>1. cache[t] # 0 => cache'[t] = cache[t] BY <1>1, <1>4 DEF StoreGet, HandleOf
  <2>2. LoopsStay BY <1>1 DEF LoopsStay
  <2>3. LivesAt(t) => LivesAt(t)' BY <2>1, <2>2, LivesStay
  <2>4. ~Acting(h, t) /\ ~Acting(h, t)' BY <1>1, <1>3 DEF Acting
  <2> QED BY <1>1, <1>3, <2>3, <2>4, IdlyKept DEF Moved
<1>6. Served(h, s) BY <1>1, <1>3 DEF Served
<1>7. stage \in Up /\ s \notin contested' => Tracked(s)'
  BY <1>1, <1>5, KeptTracked DEF Follows
<1> QED BY <1>1, <1>3, <1>5, <1>6, <1>7, ServedFollows


-----------------------------------------------------------------------------
(* A handler's change of a row.  If another request has still to act on its *)
(* own the site is contested; else this one is alone with it.               *)

LEMMA ChangeFollows ==
    ASSUME Inv, Steps, Follows, NEW h \in Handlers, NEW s \in Sites, handler[h].req.site = s,
           RowChanges(h), UNCHANGED <<svars, stage, toStart>>,
           handler[h].pc \in {"insert", "write", "remove"},
           NEW pc \in {"materialise", "stop"}, Goes(h, pc),
           \A t \in Sites : t # s => /\ t \in DOMAIN registry' <=> t \in DOMAIN registry
                                     /\ t \in DOMAIN registry => registry'[t] = registry[t],
           ~Settles(handler[h].req) => s \notin DOMAIN registry,
           Settles(handler[h].req) \/ cancels[s] = 0 => HasDone(h, s)'
    PROVE  Steps' /\ Follows'
<1>1. /\ handler'[h].pc = pc /\ handler'[h].req = handler[h].req
      /\ \A g \in Handlers : g # h => handler'[g] = handler[g]
  BY GoesEffect
<1>2. Served(h, s) BY <1>1 DEF Served, Moved
<1>3. Asked(h)' BY <1>1 DEF Asked, At
<1>4. toStart = {} BY DEF Inv, StageOK, At
<1>5. /\ ~Acting(h, s) /\ Changing(h, s)'
      /\ \A g \in Handlers : g # h => (Acting(g, s)' <=> Acting(g, s))
  BY <1>1 DEF Acting, Changing
<1>6. ASSUME NEW t \in Sites, t # s
      PROVE  Kept(t) /\ (t \in contested' <=> t \in contested)
  <2>1. LivesAt(t) => LivesAt(t)' BY DEF LivesAt, svars
  <2>2. Kept(t) BY <1>2, <1>6, <2>1, OthersKept DEF svars
  <2>3. t \in contested' <=> t \in contested BY <1>6 DEF RowChanges
  <2> QED BY <2>2, <2>3
<1>7. ASSUME stage \in Up, s \notin contested' PROVE Tracked(s)'
  <2>1. /\ \A g \in Handlers : g # h => ~Acting(g, s)
        /\ Settles(handler[h].req) \/ s \notin contested
    BY <1>7 DEF RowChanges
  <2>2. CASE Settles(handler[h].req) BY <1>4, <1>5, <2>1, <2>2, OnlyActs
  <2>3. CASE ~Settles(handler[h].req)
    <3>1. Tracked(s) BY <1>7, <2>1, <2>3 DEF Follows
    <3>2. \A g \in Handlers : ~Changing(g, s)
      BY <1>5, <2>1 DEF Changing, Acting
    <3>3. cancels[s] = 0
      BY <1>4, <2>3, <3>1, <3>2 DEF Tracked, Good, Synced, Enabled
    <3> QED BY <1>4, <1>5, <2>1, <3>3, OnlyActs
  <2> QED BY <2>2, <2>3
<1> QED BY <1>2, <1>3, <1>6, <1>7, ServedFollows

LEMMA WithRowRow ==
    ASSUME NEW s, NEW row, registry' = WithRow(s, row)
    PROVE  /\ s \in DOMAIN registry' /\ registry'[s] = row
           /\ \A t : t # s => /\ t \in DOMAIN registry' <=> t \in DOMAIN registry
                              /\ t \in DOMAIN registry => registry'[t] = registry[t]
BY DEF WithRow

LEMMA InsertFollows ==
    ASSUME Inv, Steps, Follows, NEW h \in Handlers, Insert(h),
           NEW s \in Sites, handler[h].req.site = s
    PROVE  Steps' /\ Follows'
<1>1. CASE s \in DOMAIN registry
  <2>1. Looks(h) BY <1>1 DEF Insert, Looks, histories
  <2> QED BY <2>1, LooksFollows
<1>2. CASE s \notin DOMAIN registry
  <2>1. /\ registry' = WithRow(s, Row(h)) /\ RowChanges(h) /\ Goes(h, "materialise")
        /\ UNCHANGED <<svars, stage, toStart>> /\ handler[h].pc = "insert"
    BY <1>2 DEF Insert, OnlyRegistry, At
  <2>2. /\ s \in DOMAIN registry' /\ registry'[s] = Row(h)
        /\ \A t : t # s => /\ t \in DOMAIN registry' <=> t \in DOMAIN registry
                           /\ t \in DOMAIN registry => registry'[t] = registry[t]
    BY <2>1, WithRowRow
  <2>3. handler[h].req.op = "create" BY <2>1 DEF Steps, Asked, At
  <2>4. /\ handler'[h].pc = "materialise" /\ handler'[h].req = handler[h].req
    BY <2>1, GoesEffect
  <2>5. Row(h).config = handler[h].req.config BY DEF Row
  <2>6. RowIs(s, handler[h].req.config)' BY <2>2, <2>4, <2>5 DEF RowIs
  <2>7. cancels' = cancels BY <2>1 DEF svars
  <2>8. Settles(handler[h].req) \/ cancels[s] = 0 => HasDone(h, s)'
    BY <2>3, <2>4, <2>6, <2>7 DEF HasDone, At, Settles
  <2> QED BY <1>2, <2>1, <2>2, <2>8, ChangeFollows
<1> QED BY <1>1, <1>2

LEMMA WriteFollows ==
    ASSUME Inv, Steps, Follows, NEW h \in Handlers, Write(h),
           NEW s \in Sites, handler[h].req.site = s
    PROVE  Steps' /\ Follows'
<1>1. CASE s \notin DOMAIN registry
  <2>1. Looks(h) BY <1>1 DEF Write, Looks, histories
  <2> QED BY <2>1, LooksFollows
<1>2. CASE s \in DOMAIN registry
  <2>1. /\ registry' = WithRow(s, Row(h)) /\ RowChanges(h) /\ Goes(h, "stop")
        /\ UNCHANGED <<svars, stage, toStart>> /\ handler[h].pc = "write"
    BY <1>2 DEF Write, OnlyRegistry, At
  <2>2. /\ s \in DOMAIN registry' /\ registry'[s] = Row(h)
        /\ \A t : t # s => /\ t \in DOMAIN registry' <=> t \in DOMAIN registry
                           /\ t \in DOMAIN registry => registry'[t] = registry[t]
    BY <2>1, WithRowRow
  <2>3. handler[h].req.op = "update" BY <2>1 DEF Steps, Asked, At
  <2>4. /\ handler'[h].pc = "stop" /\ handler'[h].req = handler[h].req
    BY <2>1, GoesEffect
  <2>5. Row(h).config = handler[h].req.config BY DEF Row
  <2>6. RowIs(s, handler[h].req.config)' BY <2>2, <2>4, <2>5 DEF RowIs
  <2>7. HasDone(h, s)' /\ Settles(handler[h].req)
    BY <2>3, <2>4, <2>6 DEF HasDone, At, Settles
  <2> QED BY <2>1, <2>2, <2>7, ChangeFollows
<1> QED BY <1>1, <1>2

LEMMA RemoveFollows ==
    ASSUME Inv, Steps, Follows, NEW h \in Handlers, Remove(h),
           NEW s \in Sites, handler[h].req.site = s
    PROVE  Steps' /\ Follows'
<1>1. CASE s \notin DOMAIN registry
  <2>1. Looks(h) BY <1>1 DEF Remove, Looks, histories
  <2> QED BY <2>1, LooksFollows
<1>2. CASE s \in DOMAIN registry
  <2>1. /\ registry' = [t \in DOMAIN registry \ {s} |-> registry[t]]
        /\ RowChanges(h) /\ Goes(h, "stop")
        /\ UNCHANGED <<svars, stage, toStart>> /\ handler[h].pc = "remove"
    BY <1>2 DEF Remove, OnlyRegistry, At
  <2>2. /\ s \notin DOMAIN registry'
        /\ \A t \in Sites : t # s => /\ t \in DOMAIN registry' <=> t \in DOMAIN registry
                                     /\ t \in DOMAIN registry => registry'[t] = registry[t]
    BY <2>1
  <2>3. handler[h].req.op = "delete" BY <2>1 DEF Steps, Asked, At
  <2>4. /\ handler'[h].pc = "stop" /\ handler'[h].req = handler[h].req
    BY <2>1, GoesEffect
  <2>5. HasDone(h, s)' /\ Settles(handler[h].req)
    BY <2>2, <2>3, <2>4 DEF HasDone, At, Settles
  <2> QED BY <2>1, <2>2, <2>5, ChangeFollows
<1> QED BY <1>1, <1>2

-----------------------------------------------------------------------------
(* A handler acts on its change: the loop follows, and the database.        *)

LEMMA ActFollows ==
    ASSUME Inv, Steps, Follows, NEW h \in Handlers, NEW s \in Sites, Acting(h, s),
           UNCHANGED <<registry, stage, toStart, contested>>,
           NEW pc \in {"start", "purge", "idle"}, Goes(h, pc),
           OthersStay(s), LoopsStay,
           \A t \in Sites : t # s /\ cache[t] # 0 => cache'[t] = cache[t],
           Tracked(s) => HasDone(h, s)' /\ (Changing(h, s)' \/ Good(s)')
    PROVE  Steps' /\ Follows'
<1>1. /\ handler'[h].pc = pc /\ (pc # "idle" => handler'[h].req = handler[h].req)
      /\ \A g \in Handlers : g # h => handler'[g] = handler[g]
  BY GoesEffect
<1>2. Served(h, s) BY <1>1 DEF Served, Moved, Acting
<1>3. Asked(h)' BY <1>1 DEF Asked, At
<1>4. toStart = {} BY DEF Inv, StageOK, At, Acting
<1>5. ASSUME NEW t \in Sites, t # s PROVE Kept(t)
  <2>1. LivesAt(t) => LivesAt(t)' BY <1>5, LivesStay
  <2>2. /\ cancels'[t] = cancels[t]
        /\ cancels[t] # 0 => loops'[cancels[t]].config = loops[cancels[t]].config
    BY <1>5 DEF OthersStay
  <2> QED BY <1>2, <1>5, <2>1, <2>2, OthersKept
<1>6. ASSUME stage \in Up, s \notin contested' PROVE Tracked(s)'
  <2>1. Tracked(s) BY <1>6 DEF Follows
  <2>2. \A g \in Handlers : g # h => ~Acting(g, s)' BY <1>2, <2>1, OthersRest
  <2> QED BY <1>4, <2>1, <2>2, OnlyActs
<1> QED BY <1>2, <1>3, <1>5, <1>6, ServedFollows

LEMMA MaterialiseFollows ==
    ASSUME Inv, Steps, Follows, NEW h \in Handlers, Materialise(h),
           NEW s \in Sites, handler[h].req.site = s
    PROVE  Steps' /\ Follows'
<1>1. /\ UNCHANGED <<registry, stage, toStart, contested, loops, cancels>>
      /\ Goes(h, ToStart(h)) /\ At(h, "materialise") /\ Acting(h, s)
      /\ StoreGet(s) \/ UNCHANGED cache
  BY DEF Materialise, OnlyManagers, histories, At, Acting
<1>2. ToStart(h) \in {"start", "purge", "idle"} BY DEF ToStart
<1>3. /\ handler'[h].pc = ToStart(h)
      /\ ToStart(h) # "idle" => handler'[h].req = handler[h].req
  BY <1>1, GoesEffect
<1>4. cache \in [Sites -> 0..opened] BY DEF Inv, SchedOK, SchedulerTypeOK
<1>5. \A t \in Sites : t # s /\ cache[t] # 0 => cache'[t] = cache[t]
  BY <1>1, <1>4 DEF StoreGet
<1>6. OthersStay(s) /\ LoopsStay BY <1>1 DEF OthersStay, LoopsStay
<1>7. ASSUME Tracked(s) PROVE HasDone(h, s)' /\ (Changing(h, s)' \/ Good(s)')
  <2>1. /\ RowIs(s, handler[h].req.config)
        /\ ~handler[h].req.config.enabled => cancels[s] = 0
    BY <1>1, <1>7 DEF Tracked, HasDone
  <2>2. CASE handler[h].req.config.enabled
    <3>1. handler'[h].pc = "start" /\ handler'[h].req = handler[h].req
      BY <1>3, <2>2 DEF ToStart
    <3>2. RowIs(s, handler[h].req.config)' BY <1>1, <2>1, <3>1 DEF RowIs
    <3> QED BY <2>2, <3>1, <3>2 DEF HasDone, At, Changing
  <2>3. CASE ~handler[h].req.config.enabled
    <3>1. handler'[h].pc = "idle" BY <1>3, <2>3 DEF ToStart
    <3>2. cancels[s] = 0 /\ cancels' = cancels /\ loops' = loops BY <1>1, <2>1, <2>3
    <3>3. ~Enabled(s)' BY <1>1, <2>1, <2>3 DEF Enabled, RowIs
    <3>4. LivesAt(s) BY <3>2, NoLive
    <3>5. LivesAt(s)'
      <4>1. LoopsStay /\ cancels[s] = 0 BY <1>6, <3>2
      <4> QED BY <3>4, <4>1, LivesStay
    <3>6. Synced(s)' BY <3>2, <3>3 DEF Synced
    <3> QED BY <3>1, <3>5, <3>6 DEF HasDone, At, Good
  <2> QED BY <2>2, <2>3
<1> QED BY <1>1, <1>2, <1>5, <1>6, <1>7, ActFollows

LEMMA StartFollows ==
    ASSUME Inv, Inv', Steps, Follows, NEW h \in Handlers, Start(h),
           NEW s \in Sites, handler[h].req.site = s
    PROVE  Steps' /\ Follows'
<1> DEFINE c == handler[h].req.config
<1>1. /\ UNCHANGED <<registry, stage, toStart, contested, cache>>
      /\ Goes(h, "idle") /\ At(h, "start") /\ Acting(h, s)
      /\ StartLoop(s, c) /\ c \in Configs
  BY RowTyped DEF Start, OnlyManagers, histories, At, Acting, Inv
<1>2. handler'[h].pc = "idle" BY <1>1, GoesEffect
<1>3. /\ cancels'[s] # 0
      /\ loops'[cancels'[s]].config = c /\ loops'[cancels'[s]].pc = "open"
      /\ OthersStay(s) /\ LoopsStay
  BY <1>1, StartEffect
<1>4. LivesAt(s)' BY <1>3, NoLiveNext
<1>5. ASSUME Tracked(s) PROVE HasDone(h, s)' /\ (Changing(h, s)' \/ Good(s)')
  <2>1. RowIs(s, c) /\ c.enabled BY <1>1, <1>5 DEF Tracked, HasDone
  <2>2. Enabled(s)' /\ registry'[s].config = c BY <1>1, <2>1 DEF RowIs, Enabled
  <2>3. Synced(s)' BY <1>3, <2>2 DEF Synced
  <2> QED BY <1>2, <1>4, <2>3 DEF HasDone, At, Good
<1> QED BY <1>1, <1>3, <1>5, ActFollows

LEMMA StopFollows ==
    ASSUME Inv, Inv', Steps, Follows, NEW h \in Handlers, Stop(h),
           NEW s \in Sites, handler[h].req.site = s
    PROVE  Steps' /\ Follows'
<1>1. /\ UNCHANGED <<registry, stage, toStart, contested, cache>>
      /\ Goes(h, AfterStop(h)) /\ At(h, "stop") /\ Acting(h, s)
      /\ StopLoop(s)
  BY DEF Stop, OnlyManagers, histories, At, Acting
<1>2. AfterStop(h) \in {"start", "purge", "idle"} BY DEF AfterStop, ToStart
<1>3. /\ handler'[h].pc = AfterStop(h)
      /\ AfterStop(h) # "idle" => handler'[h].req = handler[h].req
  BY <1>1, GoesEffect
<1>4. cancels'[s] = 0 /\ OthersStay(s) /\ LoopsStay BY <1>1, StopEffect
<1>5. LivesAt(s)' BY <1>4, NoLiveNext
<1>6. ASSUME Tracked(s) PROVE HasDone(h, s)' /\ (Changing(h, s)' \/ Good(s)')
  <2>1. IF handler[h].req.op = "update" THEN RowIs(s, handler[h].req.config)
        ELSE s \notin DOMAIN registry
    BY <1>1, <1>6 DEF Tracked, HasDone
  <2>2. CASE handler[h].req.op = "update" /\ handler[h].req.config.enabled
    <3>1. handler'[h].pc = "start" /\ handler'[h].req = handler[h].req
      BY <1>3, <2>2 DEF AfterStop, ToStart
    <3>2. RowIs(s, handler[h].req.config)' BY <1>1, <2>1, <2>2, <3>1 DEF RowIs
    <3> QED BY <2>2, <3>1, <3>2 DEF HasDone, At, Changing
  <2>3. CASE handler[h].req.op = "update" /\ ~handler[h].req.config.enabled
    <3>1. handler'[h].pc = "idle" BY <1>3, <2>3 DEF AfterStop, ToStart
    <3>2. ~Enabled(s)' BY <1>1, <2>1, <2>3 DEF Enabled, RowIs
    <3>3. Synced(s)' BY <1>4, <3>2 DEF Synced
    <3> QED BY <1>5, <3>1, <3>3 DEF HasDone, At, Good
  <2>4. CASE handler[h].req.op # "update"
    <3>1. handler'[h].pc \in {"idle", "purge"} BY <1>3, <2>4 DEF AfterStop
    <3>2. s \notin DOMAIN registry' BY <1>1, <2>1, <2>4
    <3>3. Synced(s)' BY <1>4, <3>2 DEF Synced, Enabled
    <3> QED BY <1>5, <3>1, <3>2, <3>3 DEF HasDone, At, Good
  <2> QED BY <2>2, <2>3, <2>4
<1> QED BY <1>1, <1>2, <1>4, <1>6, ActFollows

LEMMA PurgeFollows ==
    ASSUME Inv, Inv', Steps, Follows, NEW h \in Handlers, Purge(h),
           NEW s \in Sites, handler[h].req.site = s
    PROVE  Steps' /\ Follows'
<1>1. /\ UNCHANGED <<registry, stage, toStart, contested, loops, cancels>>
      /\ Goes(h, "idle") /\ At(h, "purge") /\ Acting(h, s)
      /\ StoreDelete(s)
  BY DEF Purge, OnlyManagers, At, Acting
<1>2. handler'[h].pc = "idle" BY <1>1, GoesEffect
<1>3. cache \in [Sites -> 0..opened] BY DEF Inv, SchedOK, SchedulerTypeOK
<1>4. \A t \in Sites : t # s /\ cache[t] # 0 => cache'[t] = cache[t]
  BY <1>1, <1>3 DEF StoreDelete
<1>5. OthersStay(s) /\ LoopsStay BY <1>1 DEF OthersStay, LoopsStay
<1>6. ASSUME Tracked(s) PROVE HasDone(h, s)' /\ (Changing(h, s)' \/ Good(s)')
  <2>1. s \notin DOMAIN registry BY <1>1, <1>6 DEF Tracked, HasDone
  <2>2. \A g \in Handlers : ~Changing(g, s)
    <3>1. \A g \in Handlers : Acting(g, s) => g = h BY <1>1, <1>6 DEF Tracked
    <3>2. ~Changing(h, s) BY <1>1 DEF Changing, At
    <3> QED BY <3>1, <3>2 DEF Changing, Acting
  <2>3. s \notin toStart BY <1>6, <2>1 DEF Tracked, Enabled
  <2>4. cancels[s] = 0
    BY <1>6, <2>1, <2>2, <2>3 DEF Tracked, Good, Synced, Enabled
  <2>5. cancels'[s] = 0 /\ ~Enabled(s)' BY <1>1, <2>1, <2>4 DEF Enabled
  <2>6. LivesAt(s)' BY <2>5, NoLiveNext
  <2>7. Synced(s)' BY <2>5 DEF Synced
  <2> QED BY <1>2, <2>6, <2>7 DEF HasDone, At, Good
<1> QED BY <1>1, <1>4, <1>5, <1>6, ActFollows

-----------------------------------------------------------------------------
(* The steps of the process, of the loops, and a new request.               *)

LEMMA AllKept ==
    ASSUME Follows, \A t \in Sites : Kept(t), stage' \in Up => stage \in Up,
           contested' = contested
    PROVE  Follows'
<1> SUFFICES ASSUME stage' \in Up, NEW t \in Sites, t \notin contested' PROVE Tracked(t)'
  BY DEF Follows
<1>1. Tracked(t) /\ Kept(t) BY DEF Follows
<1> QED BY <1>1, KeptTracked

LEMMA SameHandlers ==
    ASSUME Steps, handler' = handler
    PROVE  Steps'
BY DEF Steps, Asked, At

LEMMA HandlerFollows ==
    ASSUME Inv, Inv', Steps, Follows, NEW h \in Handlers, HandlerStep(h)
    PROVE  Steps' /\ Follows'
<1> DEFINE s == handler[h].req.site
<1>1. s \in Sites BY RowTyped DEF Inv
<1>2. CASE CheckExists(h) \/ GetRow(h) \/ Read(h) \/ Refuse(h)
  BY <1>1, <1>2, LooksFollows DEF Looks
<1>3. CASE Insert(h) BY <1>1, <1>3, InsertFollows
<1>4. CASE Write(h) BY <1>1, <1>4, WriteFollows
<1>5. CASE Remove(h) BY <1>1, <1>5, RemoveFollows
<1>6. CASE Materialise(h) BY <1>1, <1>6, MaterialiseFollows
<1>7. CASE Start(h) BY <1>1, <1>7, StartFollows
<1>8. CASE Stop(h) BY <1>1, <1>8, StopFollows
<1>9. CASE Purge(h) BY <1>1, <1>9, PurgeFollows
<1> QED BY <1>2, <1>3, <1>4, <1>5, <1>6, <1>7, <1>8, <1>9 DEF HandlerStep

LEMMA AcceptFollows ==
    ASSUME Inv, Steps, Follows, NEW h \in Handlers, NEW req \in Requests, Accept(h, req)
    PROVE  Steps' /\ Follows'
<1>1. req.op \in {"create", "update", "read", "delete"}
  BY SiteAdminAssumption DEF RequestType
<1>2. /\ handler'[h].pc = FirstStep(req) /\ handler'[h].req = req
      /\ \A g \in Handlers : g # h => handler'[g] = handler[g]
  <2> DEFINE moved == [Idle EXCEPT !.pc = FirstStep(req)]
             new   == [moved EXCEPT !.req = req]
  <2>1. handler' = [handler EXCEPT ![h] = new] /\ DOMAIN handler = Handlers
    BY IdleRequest DEF Accept, Shaped, Inv, HandlersOK
  <2>2. Shaped(moved) /\ moved.pc = FirstStep(req) BY IdleRequest DEF Shaped
  <2> HIDE DEF moved
  <2>3. new.pc = FirstStep(req) /\ new.req = req BY <2>2 DEF Shaped
  <2> HIDE DEF new
  <2> QED BY <2>1, <2>3
<1>3. Asked(h)' BY <1>1, <1>2 DEF Asked, At, FirstStep
<1>4. Steps' BY <1>2, <1>3 DEF Steps, Asked, At
<1>5. /\ UNCHANGED <<registry, loops, cancels, cache, stage, toStart, contested>>
      /\ At(h, "idle")
  BY DEF Accept, svars, histories
<1>6. ASSUME NEW t \in Sites PROVE Kept(t)
  <2>1. LivesAt(t) => LivesAt(t)' BY <1>5 DEF LivesAt
  <2>2. ~Acting(h, t) BY <1>5 DEF Acting, At
  <2>3. ~Acting(h, t)' BY <1>2 DEF Acting, FirstStep
  <2> QED BY <1>2, <1>5, <2>1, <2>2, <2>3, IdlyKept
<1> QED BY <1>4, <1>5, <1>6, AllKept

\* A step that leaves requests and rows alone.
LEMMA RowsKept ==
    ASSUME NEW t, UNCHANGED <<registry, handler, toStart>>, cancels'[t] = cancels[t],
           cancels[t] # 0 => loops'[cancels[t]].config = loops[cancels[t]].config,
           LivesAt(t) => LivesAt(t)'
    PROVE  Kept(t)
BY DEF Kept, Acting

LEMMA LoopFollows ==
    ASSUME Inv, Steps, Follows, NEW i \in DOMAIN loops, SchedulerStep(i)
    PROVE  Steps' /\ Follows'
<1>1. UNCHANGED <<registry, handler, stage, toStart, contested>>
  BY DEF SchedulerStep, avars, histories
<1>2. GoesOn BY LoopEffect DEF SchedulerStep
<1>3. ASSUME NEW t \in Sites PROVE Kept(t)
  <2>1. LivesAt(t) => LivesAt(t)' BY <1>2, GoesOnLives
  <2>2. /\ cancels'[t] = cancels[t]
        /\ cancels[t] # 0 => loops'[cancels[t]].config = loops[cancels[t]].config
    BY <1>2, LoopIndex DEF GoesOn
  <2> QED BY <1>1, <2>1, <2>2, RowsKept
<1> QED BY <1>1, <1>3, AllKept, SameHandlers

LEMMA StartNextFollows ==
    ASSUME Inv, Inv', Steps, Follows, NEW s \in Sites, StartNext(s)
    PROVE  Steps' /\ Follows'
<1>1. /\ UNCHANGED <<registry, handler, stage, contested, cache>>
      /\ stage = "booting" /\ s \in toStart /\ toStart' = toStart \ {s}
      /\ StartLoop(s, registry[s].config)
  BY DEF StartNext, histories
<1>2. s \in DOMAIN registry /\ registry[s].config \in Configs
  BY <1>1 DEF Inv, StageOK, RegistryOK
<1>3. \A g \in Handlers : At(g, "idle") BY <1>1 DEF Inv, StageOK
<1>4. /\ cancels'[s] # 0
      /\ loops'[cancels'[s]].config = registry[s].config /\ loops'[cancels'[s]].pc = "open"
      /\ OthersStay(s) /\ LoopsStay
  BY <1>1, <1>2, StartEffect
<1>5. LivesAt(s)' BY <1>4, NoLiveNext
<1>6. \A g \in Handlers : /\ At(g, "idle")' /\ \A t \in Sites : ~Acting(g, t)'
  BY <1>1, <1>3 DEF At, Acting
<1>7. ASSUME s \notin contested PROVE Tracked(s)'
  <2>1. Enabled(s) BY <1>1, <1>7 DEF Follows, Up, Tracked
  <2>2. Good(s)' BY <1>1, <1>4, <1>5, <2>1 DEF Good, Synced, Enabled
  <2>3. \A g \in Handlers : HasDone(g, s)' BY <1>6 DEF HasDone, At
  <2> QED BY <1>1, <1>6, <2>2, <2>3 DEF Tracked
<1>8. ASSUME NEW t \in Sites, t # s PROVE Kept(t)
  <2>1. LivesAt(t) => LivesAt(t)' BY <1>1, <1>4, LivesStay
  <2>2. /\ cancels'[t] = cancels[t]
        /\ cancels[t] # 0 => loops'[cancels[t]].config = loops[cancels[t]].config
        /\ t \in toStart' <=> t \in toStart
    BY <1>1, <1>4, <1>8 DEF OthersStay
  <2> QED BY <1>1, <2>1, <2>2 DEF Kept, Acting
<1>9. ASSUME NEW t \in Sites, t \notin contested' PROVE Tracked(t)'
  <2>1. CASE t = s BY <1>1, <1>7, <1>9, <2>1
  <2>2. CASE t # s
    <3>1. Tracked(t) BY <1>1, <1>9 DEF Follows, Up
    <3> QED BY <1>8, <2>2, <3>1, KeptTracked
  <2> QED BY <2>1, <2>2
<1> QED BY <1>1, <1>9, SameHandlers DEF Follows

LEMMA RunnerFollows ==
    ASSUME Inv, Inv', Steps, Follows, Runner
    PROVE  Steps' /\ Follows'
<1>1. ASSUME NEW s \in Sites, StartNext(s) PROVE Steps' /\ Follows'
  BY <1>1, StartNextFollows
<1>2. CASE Serve \/ Signal
  <2>1. UNCHANGED <<svars, registry, handler, toStart, contested>> /\ stage \in Up
    BY <1>2 DEF Serve, Signal, Moves, histories, Up
  <2>2. ASSUME NEW t \in Sites PROVE Kept(t)
    <3>1. LivesAt(t) => LivesAt(t)' BY <2>1 DEF LivesAt, svars
    <3> QED BY <2>1, <3>1, RowsKept DEF svars
  <2> QED BY <2>1, <2>2, AllKept, SameHandlers
<1>3. CASE Drained \/ Waited \/ Exit \/ ListenerFails
  <2>1. stage' \notin Up /\ handler' = handler
    BY <1>3 DEF Drained, Waited, Exit, ListenerFails, Moves, Up
  <2> QED BY <2>1, SameHandlers DEF Follows
<1> QED BY <1>1, <1>2, <1>3 DEF Runner, ProcessStep

LEMMA RestartFollows ==
    ASSUME Inv, Inv', Restart
    PROVE  Steps' /\ Follows'
<1>1. /\ toStart' = {s \in DOMAIN registry : registry[s].config.enabled}
      /\ registry' = registry /\ DOMAIN loops' = {}
      /\ \A s \in Sites : cancels'[s] = 0
      /\ \A h \in Handlers : handler'[h].pc = "idle"
  BY IdleRequest DEF Restart
<1>2. Steps' BY <1>1 DEF Steps, Asked, At
<1>3. ASSUME NEW t \in Sites PROVE Tracked(t)'
  <2>1. \A h \in Handlers : HasDone(h, t)' /\ ~Acting(h, t)'
    BY <1>1 DEF HasDone, At, Acting
  <2>2. t \in toStart' <=> Enabled(t)' BY <1>1 DEF Enabled
  <2>3. LivesAt(t)' BY <1>1 DEF LivesAt
  <2>4. t \notin toStart' => Good(t)' BY <1>1, <2>2, <2>3 DEF Good, Synced
  <2> QED BY <1>1, <2>1, <2>2, <2>4 DEF Tracked
<1> QED BY <1>2, <1>3 DEF Follows

LEMMA InitFollows == Init => Steps /\ Follows
<1> SUFFICES ASSUME Init PROVE Steps /\ Follows OBVIOUS
<1>1. /\ registry = <<>> /\ DOMAIN loops = {} /\ toStart = {}
      /\ \A s \in Sites : cancels[s] = 0
      /\ \A h \in Handlers : handler[h].pc = "idle"
  BY IdleRequest DEF Init, SchedulerInit
<1>2. Steps BY <1>1 DEF Steps, Asked, At
<1>3. ASSUME NEW t \in Sites PROVE Tracked(t)
  <2>1. \A h \in Handlers : HasDone(h, t) /\ ~Acting(h, t)
    BY <1>1 DEF HasDone, At, Acting
  <2>2. ~Enabled(t) BY <1>1 DEF Enabled
  <2>3. LivesAt(t) BY <1>1 DEF LivesAt
  <2> QED BY <1>1, <2>1, <2>2, <2>3 DEF Tracked, Good, Synced
<1> QED BY <1>2, <1>3 DEF Follows

LEMMA StepFollows == Inv /\ Inv' /\ Steps /\ Follows /\ [Next]_vars => Steps' /\ Follows'
<1> SUFFICES ASSUME Inv, Inv', Steps, Follows, [Next]_vars PROVE Steps' /\ Follows'
  OBVIOUS
<1>1. ASSUME NEW i \in DOMAIN loops, SchedulerStep(i) PROVE Steps' /\ Follows'
  BY <1>1, LoopFollows
<1>2. ASSUME NEW h \in Handlers, AdminStep(h) PROVE Steps' /\ Follows'
  BY <1>2, HandlerFollows DEF AdminStep
<1>3. ASSUME NEW h \in Handlers, NEW req \in Requests, Accept(h, req)
      PROVE  Steps' /\ Follows'
  BY <1>3, AcceptFollows
<1>4. CASE Runner BY <1>4, RunnerFollows
<1>5. CASE Restart BY <1>5, RestartFollows
<1>6. CASE UNCHANGED vars
  <2>1. UNCHANGED <<svars, registry, handler, stage, toStart, contested>>
    BY <1>6 DEF vars, avars, histories
  <2>2. ASSUME NEW t \in Sites PROVE Kept(t)
    <3>1. LivesAt(t) => LivesAt(t)' BY <2>1 DEF LivesAt, svars
    <3> QED BY <2>1, <3>1, RowsKept DEF svars
  <2> QED BY <2>1, <2>2, AllKept, SameHandlers
<1> QED BY <1>1, <1>2, <1>3, <1>4, <1>5, <1>6 DEF Next, Runner

-----------------------------------------------------------------------------
(* A loop returns because it was stopped, or because its database could not *)
(* be opened.                                                               *)

Returned(l) ==
    /\ l.pc = "open" => l.store = 0
    /\ l.pc = "done" /\ ~l.cancelled => StorageFails /\ l.store = 0

Ended == \A i \in DOMAIN loops : Returned(loops[i])

LEMMA StayEnded ==
    ASSUME Ended, LoopsStay
    PROVE  Ended'
<1> SUFFICES ASSUME NEW i \in DOMAIN loops' PROVE Returned(loops'[i]) BY DEF Ended
<1>1. CASE loops'[i].pc = "open" /\ loops'[i].store = 0 BY <1>1 DEF Returned
<1>2. CASE /\ i \in DOMAIN loops
           /\ loops'[i].site = loops[i].site /\ loops'[i].pc = loops[i].pc
           /\ loops'[i].store = loops[i].store
           /\ ~loops'[i].cancelled => ~loops[i].cancelled
  BY <1>2 DEF Ended, Returned
<1> QED BY <1>1, <1>2 DEF LoopsStay

LEMMA CancelAllStays ==
    ASSUME Inv, CancelAll
    PROVE  LoopsStay
<1>1. loops \in Seq(Loop) /\ loops' = LoopsAtShutdown
  BY DEF Inv, SchedOK, SchedulerTypeOK, CancelAll
<1>2. DOMAIN loops' = DOMAIN loops BY <1>1 DEF LoopsAtShutdown
<1>3. ASSUME NEW i \in DOMAIN loops
      PROVE  /\ loops'[i].site = loops[i].site /\ loops'[i].pc = loops[i].pc
             /\ loops'[i].store = loops[i].store
             /\ ~loops'[i].cancelled => ~loops[i].cancelled
  <2>1. loops[i] \in Loop BY <1>1
  <2>2. CASE cancels[loops[i].site] = i
    <3>1. loops'[i] = [loops[i] EXCEPT !.cancelled = TRUE]
      BY <1>1, <2>2 DEF LoopsAtShutdown
    <3> QED BY <2>1, <3>1 DEF Loop
  <2>3. CASE cancels[loops[i].site] # i
    <3>1. loops'[i] = loops[i] BY <1>1, <2>3 DEF LoopsAtShutdown
    <3> QED BY <3>1
  <2> QED BY <2>2, <2>3
<1> QED BY <1>2, <1>3 DEF LoopsStay

LEMMA LoopEnds ==
    ASSUME Inv, Ended, NEW i \in DOMAIN loops, LoopStep(i)
    PROVE  Ended'
<1>1. loops \in Seq(Loop) /\ loops[i] \in Loop BY DEF Inv, SchedOK, SchedulerTypeOK
<1>2. loops[i] = [site |-> loops[i].site, config |-> loops[i].config,
                  cancelled |-> loops[i].cancelled, pc |-> loops[i].pc,
                  store |-> loops[i].store, up |-> loops[i].up]
  BY <1>1 DEF Loop
<1>3. ASSUME NEW m, loops' = [loops EXCEPT ![i] = m], Returned(m)
      PROVE  Ended'
  <2>1. /\ DOMAIN loops' = DOMAIN loops /\ loops'[i] = m
        /\ \A j \in DOMAIN loops : j # i => loops'[j] = loops[j]
    BY <1>1, <1>3
  <2> HIDE DEF Returned
  <2> QED BY <1>3, <2>1 DEF Ended
<1>4. ASSUME NEW pc \in {"tick", "request", "record", "select"}, NEW st, NEW up
      PROVE  /\ Returned([loops[i] EXCEPT !.pc = pc])
             /\ Returned([loops[i] EXCEPT !.pc = pc, !.up = up])
             /\ Returned([loops[i] EXCEPT !.pc = pc, !.store = st])
  BY <1>2 DEF Returned
<1>5. ASSUME NEW pc \in {"tick", "request", "record", "select"}, Goto(i, pc) PROVE Ended'
  BY <1>3, <1>4, <1>5 DEF Goto
<1>6. CASE Open(i)
  <2>1. CASE loops' = [loops EXCEPT ![i].pc = "tick",
                                    ![i].store = HandleOf(loops[i].site)]
    BY <1>3, <1>4, <2>1
  <2>2. CASE Goto(i, "done") /\ StorageFails
    <3>1. loops[i].store = 0 BY <1>6 DEF Open, Ended, Returned
    <3> DEFINE m == [loops[i] EXCEPT !.pc = "done"]
    <3>2. Returned(m) BY <1>2, <2>2, <3>1 DEF Returned
    <3>3. loops' = [loops EXCEPT ![i] = m] BY <2>2 DEF Goto
    <3> HIDE DEF m
    <3> QED BY <1>3, <3>2, <3>3
  <2> QED BY <1>6, <2>1, <2>2 DEF Open
<1>7. CASE Request(i)
  <2> DEFINE m == [loops[i] EXCEPT !.pc = "request", !.up = ~loops[i].cancelled]
  <2>1. Returned(m) BY <1>4
  <2>2. loops' = [loops EXCEPT ![i] = m] BY <1>7 DEF Request
  <2> HIDE DEF m
  <2> QED BY <1>3, <2>1, <2>2
<1>8. CASE Answer(i)
  <2>1. PICK up : loops' = [loops EXCEPT ![i].pc = "record", ![i].up = up]
    BY <1>8 DEF Answer
  <2> DEFINE m == [loops[i] EXCEPT !.pc = "record", !.up = up]
  <2>2. Returned(m) BY <1>4
  <2>3. loops' = [loops EXCEPT ![i] = m] BY <2>1
  <2> HIDE DEF m
  <2> QED BY <1>3, <2>2, <2>3
<1>9. CASE RecordResult(i) BY <1>5, <1>9 DEF RecordResult
<1>10. CASE Ticks(i) BY <1>5, <1>10 DEF Ticks
<1>11. CASE Done(i)
  <2> DEFINE m == [loops[i] EXCEPT !.pc = "done"]
  <2>1. loops[i].cancelled BY <1>11 DEF Done, StoppedByContext
  <2>2. Returned(m) BY <1>2, <2>1 DEF Returned
  <2>3. loops' = [loops EXCEPT ![i] = m] BY <1>11 DEF Done, Goto
  <2> HIDE DEF m
  <2> QED BY <1>3, <2>2, <2>3
<1> QED BY <1>6, <1>7, <1>8, <1>9, <1>10, <1>11 DEF LoopStep

LEMMA StepEnds == Inv /\ Ended /\ [Next]_vars => Ended'
<1> SUFFICES ASSUME Inv, Ended, [Next]_vars PROVE Ended' OBVIOUS
<1>1. CASE UNCHANGED loops BY <1>1 DEF Ended
<1>2. ASSUME NEW i \in DOMAIN loops, SchedulerStep(i) PROVE Ended'
  BY <1>2, LoopEnds DEF SchedulerStep
<1>3. ASSUME NEW h \in Handlers, HandlerStep(h) PROVE Ended'
  <2> DEFINE s == handler[h].req.site
  <2>1. s \in Sites /\ handler[h].req.config \in Configs BY RowTyped DEF Inv
  <2>2. CASE Start(h) BY <2>1, <2>2, StartEffect, StayEnded DEF Start
  <2>3. CASE Stop(h) BY <2>1, <2>3, StopEffect, StayEnded DEF Stop
  <2>4. CASE UNCHANGED loops BY <1>1, <2>4
  <2> QED
    BY <1>3, <2>2, <2>3, <2>4
    DEF HandlerStep, CheckExists, Insert, Materialise, GetRow, Write, Remove, Purge, Read,
        Refuse, OnlyRegistry, svars
<1>4. CASE Runner
  <2>1. ASSUME NEW s \in Sites, StartNext(s) PROVE Ended'
    <3>1. registry[s].config \in Configs BY <2>1 DEF StartNext, Inv, StageOK, RegistryOK
    <3> QED BY <2>1, <3>1, StartEffect, StayEnded DEF StartNext
  <2>2. CASE Drained BY <2>2, CancelAllStays, StayEnded DEF Drained
  <2>3. CASE Serve \/ Signal \/ Waited \/ ListenerFails \/ Exit
    BY <1>1, <2>3 DEF Serve, Signal, Waited, ListenerFails, Exit, svars
  <2> QED BY <1>4, <2>1, <2>2, <2>3 DEF Runner, ProcessStep
<1>5. CASE Restart BY <1>5 DEF Restart, Ended
<1>6. ASSUME NEW h \in Handlers, NEW req \in Requests, Accept(h, req) PROVE Ended'
  BY <1>1, <1>6 DEF Accept, svars
<1>7. CASE UNCHANGED vars BY <1>1, <1>7 DEF vars, svars
<1> QED BY <1>2, <1>3, <1>4, <1>5, <1>6, <1>7 DEF Next, Runner, AdminStep

LEMMA InitEnded == Init => Ended
BY DEF Init, SchedulerInit, Ended

LEMMA AlwaysFollows == Spec => [](Inv /\ Steps /\ Follows /\ Ended)
<1> QED
  BY InitInv, StepKeeps, InitFollows, StepFollows, InitEnded, StepEnds, PTL DEF Spec

LEMMA QuietGood ==
    ASSUME Inv, Follows, Quiet, NEW s \in Sites, s \notin contested
    PROVE  Good(s)
<1>1. stage \in Up /\ toStart = {} BY DEF Quiet, Up, Inv, StageOK
<1>2. \A h \in Handlers : ~Changing(h, s) BY DEF Quiet, Changing, At
<1> QED BY <1>1, <1>2 DEF Follows, Tracked

(***************************************************************************)
(* Whatever requests, crashes and restarts came before, while no request   *)
(* is half done a site that is not contested has a loop exactly when its   *)
(* row is enabled; the loop has the row's configuration, and it runs on    *)
(* unless its stores.Get failed.                                           *)
(***************************************************************************)
THEOREM RegistryIsScheduled == Spec => []InSync
<1>1. Inv /\ Follows /\ Ended => InSync
  <2> SUFFICES ASSUME Inv, Follows, Ended, Quiet, NEW s \in Sites, s \notin contested
               PROVE  /\ Enabled(s) <=> (cancels[s] # 0)
                      /\ Enabled(s) => /\ loops[cancels[s]].config = registry[s].config
                                       /\ Runs(cancels[s])
    BY DEF InSync
  <2>1. Synced(s) BY QuietGood DEF Good
  <2>2. ASSUME Enabled(s) PROVE Runs(cancels[s])
    <3>1. cancels[s] # 0 BY <2>1, <2>2 DEF Synced
    <3>2. cancels[s] \in DOMAIN loops BY <3>1, LoopIndex
    <3>3. ~loops[cancels[s]].cancelled BY <3>1 DEF Inv, SchedOK, OneLiveLoop
    <3> QED BY <3>2, <3>3 DEF Ended, Returned, Runs
  <2> QED BY <2>1, <2>2 DEF Synced
<1> QED BY <1>1, AlwaysFollows, PTL

(***************************************************************************)
(* While no request is half done the live loop of a site that is not       *)
(* contested writes the database the read endpoints open, and not one a    *)
(* purge has closed.                                                       *)
(***************************************************************************)
THEOREM LoopsWriteWhatIsRead == Spec => []StoreIsLive
<1>1. Inv /\ Follows => StoreIsLive
  <2> SUFFICES ASSUME Inv, Follows, Quiet, NEW i \in DOMAIN loops,
                      loops[i].site \notin contested,
                      ~loops[i].cancelled, loops[i].pc \notin {"open", "done"}
               PROVE  loops[i].store = cache[loops[i].site]
    BY DEF StoreIsLive
  <2>1. loops[i] \in Loop BY DEF Inv, SchedOK, SchedulerTypeOK
  <2>2. loops[i].site \in Sites BY <2>1, LoopFields
  <2>3. LivesAt(loops[i].site) BY <2>2, QuietGood DEF Good
  <2> QED BY <2>3 DEF LivesAt
<1> QED BY <1>1, AlwaysFollows, PTL
=============================================================================

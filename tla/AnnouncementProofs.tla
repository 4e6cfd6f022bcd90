------------------------- MODULE AnnouncementProofs -------------------------
(***************************************************************************)
(* What is announced, and when: every outage and certificate that a rule   *)
(* asks for is taken up, for any number of sites, rules, channels, workers,*)
(* ticks and restarts, as long as nothing is dropped, no statement on the  *)
(* registry fails and the process does not crash.                          *)
(*                                                                         *)
(* The argument follows one event: until a rule has been applied to it,    *)
(* it waits in the hook or the queue, or a worker still has it in hand;    *)
(* after that its dedupe key is in the ledger, for ever.                   *)
(***************************************************************************)
EXTENDS AlertingProofs, FiniteSets

\* The lemmas about RecordTick, and the database they speak of.
P == INSTANCE SiteDBProofs

LEMMA SameTypes ==
    /\ S!DB = P!DB /\ S!Outcome = P!Outcome /\ S!NewDB = P!NewDB /\ S!NULL = -1
    /\ S!NULL = P!NULL
BY DEF S!DB, P!DB, S!Outcome, P!Outcome, S!ResultRow, P!ResultRow, S!IncidentRow,
       P!IncidentRow, S!StateRow, P!StateRow, S!Nullable, P!Nullable, S!NULL, P!NULL,
       S!NewDB, P!NewDB

LEMMA SameTick ==
    ASSUME NEW d, NEW ts, NEW o
    PROVE  /\ S!RecordTick(d, ts, o) = P!RecordTick(d, ts, o)
           /\ S!TransitionOf(d, o) = P!TransitionOf(d, o)
           /\ S!IncidentAfter(d, o) = P!IncidentAfter(d, o)
           /\ S!Opens(d.state, o) = P!Opens(d.state, o)
           /\ S!Resolves(d.state, o) = P!Resolves(d.state, o)
BY DEF S!RecordTick, P!RecordTick, S!UpdateState, P!UpdateState, S!LogErrors, P!LogErrors,
       S!ReconcileIncident, P!ReconcileIncident, S!InsertResult, P!InsertResult,
       S!IncidentAfter, P!IncidentAfter, S!Opens, P!Opens, S!Recovers, P!Recovers,
       S!Resolves, P!Resolves, S!NULL, P!NULL, S!OpenIncident, P!OpenIncident,
       S!ResolveIncident, P!ResolveIncident, S!FailsAfter, P!FailsAfter,
       S!TransitionOf, P!TransitionOf

\* One tick, as the events are told it.
LEMMA TickEffect ==
    ASSUME NEW d \in S!DB, NEW ts \in Nat, NEW o \in S!Outcome
    PROVE  LET r == S!RecordTick(d, ts, o)
               fails == IF o.up THEN 0 ELSE d.state.consecutive_failures + 1
               n == Len(d.incidents)
           IN  /\ r \in S!DB
               /\ r.state.current_up = (IF o.up THEN 1 ELSE 0)
               /\ r.state.consecutive_failures = fails
               /\ r.state.ssl_expires_at =
                    IF ~o.sslChecked THEN d.state.ssl_expires_at
                    ELSE IF o.sslExpiresAt > 0 THEN o.sslExpiresAt ELSE S!NULL
               /\ DOMAIN r.incidents = 1..(n + (IF S!Opens(d.state, o) THEN 1 ELSE 0))
               /\ S!Opens(d.state, o) => r.incidents[n + 1].resolved_at = S!NULL
               /\ \A i \in 1..n :
                    d.incidents[i].resolved_at = S!NULL /\ r.incidents[i].resolved_at # S!NULL
                      => S!Resolves(d.state, o) /\ i = d.state.current_incident_id
<1>1. d \in P!DB /\ o \in P!Outcome BY SameTypes
<1>2. d.incidents \in Seq(P!IncidentRow) /\ DOMAIN d.incidents = 1..Len(d.incidents)
  BY <1>1 DEF P!DB
<1>3. P!FailsAfter(d.state, o) = IF o.up THEN 0 ELSE d.state.consecutive_failures + 1
  BY DEF P!FailsAfter
<1> DEFINE r == P!RecordTick(d, ts, o)
<1>4. /\ r \in P!DB
      /\ r.state.current_up = (IF o.up THEN 1 ELSE 0)
      /\ r.state.consecutive_failures = P!FailsAfter(d.state, o)
  BY <1>1, P!RecordTickParts
<1>5. r.state.ssl_expires_at =
         IF ~o.sslChecked THEN d.state.ssl_expires_at
         ELSE IF o.sslExpiresAt > 0 THEN o.sslExpiresAt ELSE P!NULL
  BY <1>1, P!RecordTickExpiry
<1>6. /\ DOMAIN r.incidents = 1..(Len(d.incidents) + (IF P!Opens(d.state, o) THEN 1 ELSE 0))
      /\ P!Opens(d.state, o) => r.incidents[Len(d.incidents) + 1].resolved_at = P!NULL
      /\ \A i \in DOMAIN d.incidents :
            d.incidents[i].resolved_at = P!NULL /\ r.incidents[i].resolved_at # P!NULL
              => P!Resolves(d.state, o) /\ i = d.state.current_incident_id
  BY <1>1, P!RecordTickIncidents
<1> HIDE DEF r
<1>7. S!RecordTick(d, ts, o) = r BY SameTick DEF r
<1> QED BY <1>2, <1>3, <1>4, <1>5, <1>6, <1>7, SameTypes, SameTick

LEMMA EventFields ==
    ASSUME NEW s \in Sites, NEW d \in S!DB, NEW o \in S!Outcome
    PROVE  LET e == EventOf(s, d, o) IN
           /\ e \in Event
           /\ e.site = s
           /\ e.outage = OutageOf(d, o)
           /\ e.tr.Up = o.up
           /\ e.tr.IncidentResolved = S!Resolves(d.state, o)
           /\ e.tr.IncidentID = (IF S!Opens(d.state, o) THEN Len(d.incidents) + 1
                                 ELSE IF S!Resolves(d.state, o) THEN d.state.current_incident_id
                                 ELSE 0)
           /\ e.tr.ConsecutiveFailures = (IF o.up THEN 0 ELSE d.state.consecutive_failures + 1)
           /\ e.tr.SSLChecked = o.sslChecked
           /\ e.tr.SSLExpiresAt = o.sslExpiresAt
<1>1. /\ d.state.current_incident_id \in Nat \cup {S!NULL} /\ Len(d.incidents) \in Nat
      /\ d.state.consecutive_failures \in Nat /\ o.up \in BOOLEAN
      /\ o.sslChecked \in BOOLEAN /\ o.sslExpiresAt \in Nat
  <2>1. d.incidents \in Seq(S!IncidentRow) BY DEF S!DB
  <2> QED BY <2>1 DEF S!DB, S!StateRow, S!Nullable, S!Outcome
<1> DEFINE id == IF S!Opens(d.state, o) THEN Len(d.incidents) + 1
                 ELSE IF S!Resolves(d.state, o) THEN d.state.current_incident_id
                 ELSE 0
           fails == IF o.up THEN 0 ELSE d.state.consecutive_failures + 1
           res == S!Resolves(d.state, o)
           t == [Up |-> o.up, IncidentResolved |-> res, IncidentID |-> id,
                 ConsecutiveFailures |-> fails, SSLChecked |-> o.sslChecked,
                 SSLExpiresAt |-> o.sslExpiresAt]
<1>2. res \in BOOLEAN BY DEF S!Resolves, S!Recovers
<1>3. id \in Nat BY <1>1 DEF S!Resolves
<1>4. fails \in Nat BY <1>1
<1>5. TransitionOf(d, o) = t
  <2> DEFINE u == S!TransitionOf(d, o)
  <2>1. u = [Up |-> o.up, IncidentOpened |-> S!Opens(d.state, o), IncidentResolved |-> res,
             IncidentID |-> id, ConsecutiveFailures |-> fails, SSLChecked |-> o.sslChecked,
             SSLExpiresAt |-> o.sslExpiresAt]
    BY DEF S!TransitionOf, S!FailsAfter
  <2> HIDE DEF u, id, fails, res
  <2>2. DOMAIN u \ {"IncidentOpened"} = {"Up", "IncidentResolved", "IncidentID",
             "ConsecutiveFailures", "SSLChecked", "SSLExpiresAt"}
    BY <2>1
  <2>3. TransitionOf(d, o) = [f \in DOMAIN u \ {"IncidentOpened"} |-> u[f]]
    BY DEF TransitionOf, u
  <2>4. /\ u.Up = o.up /\ u.IncidentResolved = res /\ u.IncidentID = id
        /\ u.ConsecutiveFailures = fails /\ u.SSLChecked = o.sslChecked
        /\ u.SSLExpiresAt = o.sslExpiresAt
    BY <2>1
  <2> QED BY <2>2, <2>3, <2>4
<1>6. OutageOf(d, o) \in Nat
  BY <1>1 DEF OutageOf, S!IncidentAfter, S!Resolves
<1> HIDE DEF id, fails, res
<1>7. t \in Transition BY <1>1, <1>2, <1>3, <1>4 DEF Transition
<1> HIDE DEF t
<1>8. EventOf(s, d, o) = [site |-> s, tr |-> t, outage |-> OutageOf(d, o)]
  BY <1>5 DEF EventOf
<1>9. EventOf(s, d, o) \in Event BY <1>6, <1>7, <1>8 DEF Event
<1>10. /\ t.Up = o.up /\ t.IncidentResolved = res /\ t.IncidentID = id
       /\ t.ConsecutiveFailures = fails /\ t.SSLChecked = o.sslChecked
       /\ t.SSLExpiresAt = o.sslExpiresAt
  BY DEF t
<1> QED BY <1>8, <1>9, <1>10 DEF id, fails, res

-----------------------------------------------------------------------------
(***************************************************************************)
(* Types.  TypeOK says nothing of what an idle worker left behind; Typed   *)
(* does, so that a step of one worker is seen to leave the others alone.   *)
(***************************************************************************)
Places == {"idle", "kinds", "rules", "claim", "exited"} \cup Delivering

Works == [event : Event \cup {<<>>}, kinds : SUBSET Kinds, rules : SUBSET Rules]

Sends == [key : Key \cup {<<>>}, attempt : 0..(Retries + 1)]

QueueTyped ==
    /\ queue \in Seq(Event) /\ Len(queue) <= QueueSize
    /\ closed \in BOOLEAN
    /\ dropped \in Nat

WorkersTyped ==
    /\ pc \in [Workers -> Places]
    /\ work \in [Workers -> Works]
    /\ sending \in [Workers -> Sends]
    /\ \A w \in Workers :
        /\ pc[w] \notin {"idle", "exited"} => work[w].event \in Event
        /\ pc[w] \in {"claim"} \cup Delivering =>
              sending[w].key \in Key /\ sending[w].attempt >= 1

LedgerTyped ==
    /\ DOMAIN ledger \subseteq Key
    /\ \A k \in DOMAIN ledger :
        ledger[k] \in [status : {"pending", "sent", "failed"}, attempts : 0..(Retries + 1)]
    /\ DOMAIN mail = DOMAIN ledger
    /\ \A k \in DOMAIN mail : mail[k] \in [tries : Nat, accepted : Nat, about : Nat]

SitesTyped ==
    /\ db \in [Sites -> S!DB]
    /\ hook \in [Sites -> {<<>>} \cup {<<e>> : e \in Event}]
    /\ restarts \in Nat

Typed == QueueTyped /\ WorkersTyped /\ LedgerTyped /\ SitesTyped

Busy(w) == pc[w] \notin {"idle", "exited"}

\* Of the workers, only w moves.
Only(w) ==
    /\ pc' \in [Workers -> Places]
    /\ work' \in [Workers -> Works]
    /\ sending' \in [Workers -> Sends]
    /\ \A v \in Workers \ {w} :
        pc'[v] = pc[v] /\ work'[v] = work[v] /\ sending'[v] = sending[v]

\* Worker w is put at a place, with what it works on and what it sends.
Puts(w, here, x, y) ==
    /\ pc' = [pc EXCEPT ![w] = here]
    /\ work' = [work EXCEPT ![w] = x]
    /\ sending' = [sending EXCEPT ![w] = y]

LEMMA OnlyOne ==
    ASSUME WorkersTyped, NEW w \in Workers,
           NEW here \in Places, NEW x \in Works, NEW y \in Sends, Puts(w, here, x, y)
    PROVE  Only(w) /\ pc'[w] = here /\ work'[w] = x /\ sending'[w] = y
BY DEF WorkersTyped, Only, Puts

LEMMA OnlyKeepsTypes ==
    ASSUME WorkersTyped, NEW w \in Workers, Only(w),
           pc'[w] \notin {"idle", "exited"} => work'[w].event \in Event,
           pc'[w] \in {"claim"} \cup Delivering =>
              sending'[w].key \in Key /\ sending'[w].attempt >= 1
    PROVE  WorkersTyped'
<1>1. ASSUME NEW v \in Workers
      PROVE  /\ pc'[v] \notin {"idle", "exited"} => work'[v].event \in Event
             /\ pc'[v] \in {"claim"} \cup Delivering =>
                  sending'[v].key \in Key /\ sending'[v].attempt >= 1
  <2>1. CASE v = w BY <2>1
  <2>2. CASE v # w BY <2>2 DEF WorkersTyped, Only
  <2> QED BY <2>1, <2>2
<1> QED BY <1>1 DEF WorkersTyped, Only

LEMMA KeyTyped ==
    ASSUME NEW e \in Event, NEW kind \in Kinds, NEW ch \in Channels
    PROVE  KeyOf(kind, e, ch) \in Key
BY DEF KeyOf, Key, Event, Transition

LEMMA OtherRules ==
    ASSUME NEW a, NEW x, NEW r, a = [event |-> a.event, kinds |-> a.kinds, rules |-> a.rules]
    PROVE  [a EXCEPT !.rules = x] = [event |-> a.event, kinds |-> a.kinds, rules |-> x]
OBVIOUS

\* Each step of a worker, as it moves that worker.
LEMMA WorkerMoves ==
    ASSUME Typed, Kept, NEW w \in Workers, WorkerStep(w)
    PROVE  /\ Only(w)
           /\ WorkersTyped'
           /\ UNCHANGED closed
           /\ UNCHANGED dropped
<1> USE DispatcherAssumption
<1>0. /\ pc \in [Workers -> Places] /\ work \in [Workers -> Works]
      /\ sending \in [Workers -> Sends]
      /\ work[w] \in Works /\ sending[w] \in Sends
  BY DEF Typed, WorkersTyped
<1>e. work = [work EXCEPT ![w] = work[w]] /\ sending = [sending EXCEPT ![w] = sending[w]]
  BY <1>0
<1>f. WorkersTyped /\ work[w] \in Works /\ sending[w] \in Sends
  BY <1>0 DEF Typed
<1>a. /\ work[w].kinds \subseteq Kinds /\ work[w].rules \subseteq Rules
      /\ work[w].event \in Event \cup {<<>>}
      /\ work[w] = [event |-> work[w].event, kinds |-> work[w].kinds, rules |-> work[w].rules]
      /\ sending[w] = [key |-> sending[w].key, attempt |-> sending[w].attempt]
      /\ sending[w].key \in Key \cup {<<>>} /\ sending[w].attempt \in 0..(Retries + 1)
  BY <1>0 DEF Works, Sends
<1>b. /\ Idle \in Works /\ NoKey \in Sends
  BY DEF Idle, Works, NoKey, Sends
<1>c. /\ WorkersTyped
      /\ Busy(w) => work[w].event \in Event
      /\ pc[w] \in {"claim"} \cup Delivering => sending[w].key \in Key /\ sending[w].attempt >= 1
  BY DEF Typed, WorkersTyped, Busy
<1>d. Places = {"idle", "kinds", "rules", "claim", "exited", "send", "backoff", "mark_sent",
                "mark_failed"}
  BY DEF Places, Delivering
<1>h. /\ "idle" \in Places /\ "kinds" \in Places /\ "rules" \in Places /\ "claim" \in Places
      /\ "exited" \in Places /\ "send" \in Places
  BY <1>d
<1>1. CASE Take(w)
  <2>1. Head(queue) \in Event
    BY <1>1 DEF Take, Typed, QueueTyped
  <2> DEFINE x == [event |-> Head(queue), kinds |-> KindsFor(Head(queue).tr), rules |-> {}]
  <2>2. x \in Works BY <2>1 DEF Works, KindsFor
  <2>3. /\ pc' = [pc EXCEPT ![w] = "kinds"] /\ work' = [work EXCEPT ![w] = x]
        /\ sending' = sending /\ x.event = Head(queue)
    BY <1>1 DEF Take
  <2> HIDE DEF x
  <2>a. Puts(w, "kinds", x, sending[w]) BY <1>e, <2>3 DEF Puts
  <2>4. Only(w) /\ pc'[w] = "kinds" /\ work'[w] = x
    BY <1>f, <1>h, <2>2, <2>a, OnlyOne
  <2>5. WorkersTyped' BY <1>c, <2>1, <2>3, <2>4, OnlyKeepsTypes DEF Delivering
  <2> QED BY <1>1, <2>4, <2>5 DEF Take
<1>2. CASE LoadRules(w)
  <2>1. PICK x : /\ x \in Works /\ x.event = work[w].event
                 /\ work' = [work EXCEPT ![w] = x]
    <3>1. PICK k \in work[w].kinds :
             \/ work' = [work EXCEPT ![w].kinds = @ \ {k},
                                    ![w].rules = RulesFor(work[w].event.site, k)]
             \/ work' = [work EXCEPT ![w].kinds = @ \ {k}]
      BY <1>2 DEF LoadRules
    <3> DEFINE y == [event |-> work[w].event, kinds |-> work[w].kinds \ {k},
                     rules |-> RulesFor(work[w].event.site, k)]
               z == [event |-> work[w].event, kinds |-> work[w].kinds \ {k},
                     rules |-> work[w].rules]
    <3>2. y \in Works /\ z \in Works BY <1>a DEF Works, RulesFor
    <3>3. y.event = work[w].event /\ z.event = work[w].event OBVIOUS
    <3>4. work' = [work EXCEPT ![w] = y] \/ work' = [work EXCEPT ![w] = z]
      BY <1>0, <1>a, <3>1
    <3> HIDE DEF y, z
    <3> QED BY <3>2, <3>3, <3>4
  <2>2. pc' = [pc EXCEPT ![w] = "rules"] /\ sending' = sending BY <1>2 DEF LoadRules
  <2>a. Puts(w, "rules", x, sending[w]) BY <1>e, <2>1, <2>2 DEF Puts
  <2>3. Only(w) /\ pc'[w] = "rules" /\ work'[w] = x
    BY <1>f, <1>h, <2>1, <2>a, OnlyOne
  <2>4. work[w].event \in Event BY <1>2, <1>c DEF LoadRules, Busy
  <2>5. WorkersTyped' BY <1>c, <2>1, <2>3, <2>4, OnlyKeepsTypes DEF Delivering
  <2> QED BY <1>2, <2>3, <2>5 DEF LoadRules
<1>3. CASE Handled(w)
  <2>1. /\ work' = [work EXCEPT ![w] = Idle] /\ pc' = [pc EXCEPT ![w] = "idle"]
        /\ sending' = sending
    BY <1>3 DEF Handled
  <2>a. Puts(w, "idle", Idle, sending[w]) BY <1>e, <2>1 DEF Puts
  <2>2. Only(w) /\ pc'[w] = "idle"
    BY <1>b, <1>f, <1>h, <2>a, OnlyOne
  <2>3. WorkersTyped' BY <1>c, <2>2, OnlyKeepsTypes DEF Delivering
  <2> QED BY <1>3, <2>2, <2>3 DEF Handled
<1>4. CASE RulesDone(w)
  <2>1. pc' = [pc EXCEPT ![w] = "kinds"] /\ work' = work /\ sending' = sending
    BY <1>4 DEF RulesDone
  <2>a. Puts(w, "kinds", work[w], sending[w]) BY <1>e, <2>1 DEF Puts
  <2>2. Only(w) /\ pc'[w] = "kinds" /\ work'[w] = work[w]
    BY <1>f, <1>h, <2>a, OnlyOne
  <2>3. work[w].event \in Event BY <1>4, <1>c DEF RulesDone, Busy
  <2>4. WorkersTyped' BY <1>c, <2>2, <2>3, OnlyKeepsTypes DEF Delivering
  <2> QED BY <1>4, <2>2, <2>4 DEF RulesDone
<1>5. CASE Render(w)
  <2>0. work[w].event \in Event BY <1>5, <1>c DEF Render, Busy
  <2>1. PICK r \in work[w].rules :
           /\ work' = [work EXCEPT ![w].rules = @ \ {r}]
           /\ \/ /\ sending' = [sending EXCEPT ![w] =
                       [key |-> KeyOf(r.kind, work[w].event, r.channel), attempt |-> 1]]
                 /\ pc' = [pc EXCEPT ![w] = "claim"]
              \/ UNCHANGED <<pc, sending>>
    BY <1>5 DEF Render
  <2> DEFINE x == [event |-> work[w].event, kinds |-> work[w].kinds,
                   rules |-> work[w].rules \ {r}]
             y == [key |-> KeyOf(r.kind, work[w].event, r.channel), attempt |-> 1]
  <2>2. x \in Works /\ x.event = work[w].event BY <1>a DEF Works
  <2>3. work' = [work EXCEPT ![w] = x]
    <3>1. [work[w] EXCEPT !.rules = @ \ {r}] = x BY <1>a, OtherRules
    <3>2. work' = [work EXCEPT ![w] = [work[w] EXCEPT !.rules = @ \ {r}]] BY <2>1
    <3> HIDE DEF x
    <3> QED BY <3>1, <3>2, Zenon
  <2>4. r.kind \in Kinds /\ r.channel \in Channels BY <1>a DEF Rule
  <2>5. y \in Sends /\ y.key \in Key /\ y.attempt = 1 BY <2>0, <2>4, KeyTyped DEF Sends
  <2> HIDE DEF x, y
  <2>6. CASE sending' = [sending EXCEPT ![w] = y] /\ pc' = [pc EXCEPT ![w] = "claim"]
    <3>a. Puts(w, "claim", x, y) BY <2>3, <2>6 DEF Puts
    <3>1. Only(w) /\ pc'[w] = "claim" /\ work'[w] = x /\ sending'[w] = y
      BY <1>f, <1>h, <2>2, <2>5, <3>a, OnlyOne
    <3>2. WorkersTyped' BY <1>c, <2>0, <2>2, <2>5, <3>1, OnlyKeepsTypes
    <3> QED BY <1>5, <3>1, <3>2 DEF Render
  <2>7. CASE UNCHANGED <<pc, sending>>
    <3>1. pc' = [pc EXCEPT ![w] = "rules"] BY <1>0, <1>5, <2>7 DEF Render
    <3>a. Puts(w, "rules", x, sending[w]) BY <1>e, <2>3, <2>7, <3>1 DEF Puts
    <3>2. Only(w) /\ pc'[w] = "rules" /\ work'[w] = x
      BY <1>f, <1>h, <2>2, <3>a, OnlyOne
    <3>3. WorkersTyped' BY <1>c, <2>0, <2>2, <3>2, OnlyKeepsTypes DEF Delivering
    <3> QED BY <1>5, <3>2, <3>3 DEF Render
  <2> QED BY <2>1, <2>6, <2>7 DEF y
<1>6. CASE ClaimWins(w)
  <2>1. pc' = [pc EXCEPT ![w] = "send"] /\ work' = work /\ sending' = sending
    BY <1>6 DEF ClaimWins
  <2>a. Puts(w, "send", work[w], sending[w]) BY <1>e, <2>1 DEF Puts
  <2>2. Only(w) /\ pc'[w] = "send" /\ work'[w] = work[w] /\ sending'[w] = sending[w]
    BY <1>f, <1>h, <2>a, OnlyOne
  <2>3. WorkersTyped' BY <1>6, <1>c, <2>2, OnlyKeepsTypes DEF ClaimWins, Busy
  <2> QED BY <1>6, <2>2, <2>3 DEF ClaimWins
<1>7. CASE NextRule(w) /\ Busy(w)
  <2>1. pc' = [pc EXCEPT ![w] = "rules"] /\ sending' = [sending EXCEPT ![w] = NoKey] /\ work' = work
    BY <1>7 DEF NextRule
  <2>a. Puts(w, "rules", work[w], NoKey) BY <1>e, <2>1 DEF Puts
  <2>2. Only(w) /\ pc'[w] = "rules" /\ work'[w] = work[w]
    BY <1>b, <1>f, <1>h, <2>a, OnlyOne
  <2>3. WorkersTyped' BY <1>7, <1>c, <2>2, OnlyKeepsTypes DEF Delivering
  <2> QED BY <1>7, <2>2, <2>3 DEF NextRule
<1>8. ASSUME NEW here \in {"send", "backoff", "mark_sent", "mark_failed"},
             pc' = [pc EXCEPT ![w] = here], UNCHANGED <<work, sending, closed, dropped>>,
             pc[w] \in Delivering
      PROVE  Only(w) /\ WorkersTyped' /\ UNCHANGED closed /\ UNCHANGED dropped
  <2>1. work' = work /\ sending' = sending BY <1>8
  <2>2. Only(w) /\ pc'[w] = here /\ work'[w] = work[w] /\ sending'[w] = sending[w]
    <3>1. Puts(w, here, work[w], sending[w]) BY <1>8, <1>e, <2>1 DEF Puts
    <3>2. here \in Places BY <1>8, <1>d
    <3> QED BY <1>f, <3>1, <3>2, OnlyOne
  <2>3. WorkersTyped' BY <1>8, <1>c, <2>2, OnlyKeepsTypes DEF Busy, Delivering
  <2> QED BY <1>8, <2>2, <2>3
<1>9. ASSUME NEW reply \in Replies, Attempt(w, reply)
      PROVE  Only(w) /\ WorkersTyped' /\ UNCHANGED closed /\ UNCHANGED dropped
  <2>1. AfterAttempt(w, reply) \in {"send", "backoff", "mark_sent", "mark_failed"}
    BY DEF AfterAttempt
  <2> QED BY <1>8, <1>9, <2>1 DEF Attempt, Delivering
<1>10. CASE Retry(w)
  <2>1. sending[w].attempt <= Retries BY <1>10 DEF Retry, Kept, Knows
  <2> DEFINE y == [key |-> sending[w].key, attempt |-> sending[w].attempt + 1]
  <2>2. y \in Sends /\ y.key = sending[w].key /\ y.attempt >= 1
    BY <1>a, <2>1 DEF Sends
  <2>3. /\ sending' = [sending EXCEPT ![w] = y] /\ pc' = [pc EXCEPT ![w] = "send"]
        /\ work' = work
    <3>1. [sending[w] EXCEPT !.attempt = @ + 1] = y BY <1>a
    <3>2. sending' = [sending EXCEPT ![w] = [sending[w] EXCEPT !.attempt = @ + 1]]
      BY <1>10 DEF Retry
    <3>3. sending' = [sending EXCEPT ![w] = y]
      <4> HIDE DEF y
      <4> QED BY <3>1, <3>2, Zenon
    <3> QED BY <1>10, <3>3 DEF Retry
  <2> HIDE DEF y
  <2>a. Puts(w, "send", work[w], y) BY <1>e, <2>3 DEF Puts
  <2>4. Only(w) /\ pc'[w] = "send" /\ work'[w] = work[w] /\ sending'[w] = y
    BY <1>f, <1>h, <2>2, <2>a, OnlyOne
  <2>5. WorkersTyped'
    BY <1>10, <1>c, <2>2, <2>4, OnlyKeepsTypes DEF Retry, Busy, Delivering
  <2> QED BY <1>10, <2>4, <2>5 DEF Retry
<1>11. CASE CutShort(w)
  BY <1>8, <1>11 DEF CutShort, Delivering
<1>12. CASE Exit(w)
  <2>1. pc' = [pc EXCEPT ![w] = "exited"] /\ work' = work /\ sending' = sending
    BY <1>12 DEF Exit
  <2>a. Puts(w, "exited", work[w], sending[w]) BY <1>e, <2>1 DEF Puts
  <2>2. Only(w) /\ pc'[w] = "exited" BY <1>f, <1>h, <2>a, OnlyOne
  <2>3. WorkersTyped' BY <1>c, <2>2, OnlyKeepsTypes DEF Delivering
  <2> QED BY <1>12, <2>2, <2>3 DEF Exit
<1> QED
  BY <1>1, <1>2, <1>3, <1>4, <1>5, <1>6, <1>7, <1>9, <1>10, <1>11, <1>12
     DEF WorkerStep, ClaimLoses, Mark, Busy

\* The queue and the ledger under a worker's step.
LEMMA WorkerKeepsQueue ==
    ASSUME Typed, NEW w \in Workers, WorkerStep(w)
    PROVE  queue' \in Seq(Event) /\ Len(queue') <= QueueSize
<1> USE DispatcherAssumption
<1>1. queue \in Seq(Event) /\ Len(queue) <= QueueSize BY DEF Typed, QueueTyped
<1>2. CASE UNCHANGED queue BY <1>1, <1>2
<1>3. CASE Take(w) BY <1>1, <1>3 DEF Take
<1> QED BY <1>2, <1>3 DEF WorkerStep, LoadRules, Handled, RulesDone, Render, ClaimWins,
           ClaimLoses, NextRule, Attempt, Retry, CutShort, Mark, Exit

LEMMA WorkerKeepsLedger ==
    ASSUME Typed, Kept, NEW w \in Workers, WorkerStep(w)
    PROVE  LedgerTyped'
<1> USE DispatcherAssumption
<1> DEFINE k == sending[w].key
           Row == [status : {"pending", "sent", "failed"}, attempts : 0..(Retries + 1)]
           MailType == [tries : Nat, accepted : Nat, about : Nat]
<1>1. LedgerTyped BY DEF Typed
<1>2. /\ pc[w] \in {"claim"} \cup Delivering => k \in Key
      /\ pc[w] \notin {"idle", "exited"} => work[w].event \in Event
      /\ sending[w].attempt \in 0..(Retries + 1)
  BY DEF Typed, WorkersTyped, Sends
<1>3. CASE UNCHANGED <<ledger, mail>> BY <1>1, <1>3 DEF LedgerTyped
<1>4. CASE ClaimWins(w)
  <2>1. /\ DOMAIN ledger' = DOMAIN ledger \cup {k} /\ DOMAIN mail' = DOMAIN mail \cup {k}
        /\ ledger'[k] = [status |-> "pending", attempts |-> 0]
        /\ mail'[k] = [tries |-> 0, accepted |-> 0, about |-> About(w)]
        /\ \A j \in DOMAIN ledger : j # k => ledger'[j] = ledger[j]
        /\ \A j \in DOMAIN mail : j # k => mail'[j] = mail[j]
    BY <1>4 DEF ClaimWins
  <2>2. k \in Key /\ work[w].event \in Event BY <1>2, <1>4 DEF ClaimWins
  <2>3. About(w) \in Nat BY <2>2 DEF About, Key, Event
  <2>4. ledger'[k] \in Row /\ mail'[k] \in MailType BY <2>1, <2>3
  <2>5. /\ \A j \in DOMAIN ledger' : ledger'[j] \in Row
        /\ \A j \in DOMAIN mail' : mail'[j] \in MailType
    <3> HIDE DEF k, Row, MailType
    <3>1. /\ \A j \in DOMAIN ledger : ledger[j] \in Row
          /\ \A j \in DOMAIN mail : mail[j] \in MailType
      BY <1>1 DEF LedgerTyped, Row, MailType
    <3> QED BY <2>1, <2>4, <3>1
  <2> QED BY <1>1, <2>1, <2>2, <2>5 DEF LedgerTyped
<1>5. ASSUME NEW reply \in Replies, Attempt(w, reply) PROVE LedgerTyped'
  <2>1. /\ k \in DOMAIN mail /\ ledger' = ledger
        /\ mail' = [mail EXCEPT ![k].tries = @ + 1,
                                ![k].accepted = IF reply = "refused" THEN @ ELSE @ + 1]
    BY <1>1, <1>5 DEF Attempt, Delivering, Kept, OneDeliverer, LedgerTyped
  <2>2. mail[k] \in MailType BY <1>1, <2>1 DEF LedgerTyped
  <2>3. /\ DOMAIN mail' = DOMAIN mail /\ mail'[k] \in MailType
        /\ \A j \in DOMAIN mail : j # k => mail'[j] = mail[j]
    BY <2>1, <2>2
  <2> QED BY <1>1, <2>1, <2>3 DEF LedgerTyped
<1>6. CASE Settles(w)
  <2>1. k \in DOMAIN ledger /\ ledger' = [ledger EXCEPT ![k] = Outcome(w)] /\ mail' = mail
    BY <1>6 DEF Settles, Delivering, Kept, OneDeliverer
  <2>2. Outcome(w) \in Row BY <1>2 DEF Outcome
  <2> QED BY <1>1, <2>1, <2>2 DEF LedgerTyped
<1> QED BY <1>3, <1>4, <1>5, <1>6 DEF WorkerStep, Take, LoadRules, Handled, RulesDone, Render,
           ClaimLoses, NextRule, Retry, CutShort, Mark, Exit, Settles

LEMMA EmptyQueue == <<>> \in Seq(Event) /\ Len(<<>>) <= QueueSize
<1>1. QueueSize \in Nat BY DispatcherAssumption
<1> QED BY <1>1

LEMMA InitTyped == Init => Typed
<1> SUFFICES ASSUME Init PROVE Typed OBVIOUS
<1> USE DispatcherAssumption
<1>1. QueueTyped
  <2>1. queue = <<>> /\ closed = FALSE /\ dropped = 0 BY DEF Init, DispatcherInit
  <2> QED BY <2>1, EmptyQueue DEF QueueTyped
<1>2. WorkersTyped
  BY DEF Init, DispatcherInit, WorkersTyped, Places, Idle, Works, NoKey, Sends, Delivering
<1>3. LedgerTyped
  <2>1. DOMAIN ledger = {} /\ DOMAIN mail = {} BY DEF Init, DispatcherInit
  <2> QED BY <2>1 DEF LedgerTyped
<1>4. S!NewDB \in S!DB BY SameTypes, P!FreshDBType
<1>5. SitesTyped BY <1>4 DEF Init, SitesTyped
<1> QED BY <1>1, <1>2, <1>3, <1>5 DEF Typed

LEMMA NextTyped == Typed /\ Kept /\ [Next]_vars => Typed'
<1> SUFFICES ASSUME Typed, Kept, [Next]_vars PROVE Typed' OBVIOUS
<1> USE DispatcherAssumption
<1>0. UNCHANGED dvars => QueueTyped' /\ WorkersTyped' /\ LedgerTyped'
  BY DEF Typed, QueueTyped, WorkersTyped, LedgerTyped, dvars
<1>1. ASSUME NEW s \in Sites, Hook(s) PROVE Typed'
  <2>1. hook[s][1] \in Event /\ hook[s] = <<hook[s][1]>>
    BY <1>1 DEF Hook, Typed, SitesTyped
  <2>2. QueueTyped'
    BY <1>1, <2>1 DEF Hook, Enqueue, Typed, QueueTyped, HasRoom
  <2>3. WorkersTyped' /\ LedgerTyped'
    BY <1>1 DEF Hook, Enqueue, Typed, WorkersTyped, LedgerTyped
  <2>4. SitesTyped' BY <1>1 DEF Hook, Typed, SitesTyped
  <2> QED BY <2>2, <2>3, <2>4 DEF Typed
<1>2. ASSUME NEW s \in Sites, NEW o \in Outcomes, Tick(s, o) PROVE Typed'
  <2>1. db[s] \in S!DB /\ o \in S!Outcome BY AlertingAssumption DEF Typed, SitesTyped
  <2>2. Len(db[s].results) \in Nat
    <3>1. db[s].results \in Seq(S!ResultRow) BY <2>1 DEF S!DB
    <3> QED BY <3>1
  <2>3. S!RecordTick(db[s], Len(db[s].results), o) \in S!DB BY <2>1, <2>2, TickEffect
  <2>4. EventOf(s, db[s], o) \in Event BY <2>1, EventFields
  <2>5. db' \in [Sites -> S!DB] BY <1>2, <2>3 DEF Tick, Typed, SitesTyped
  <2>6. hook' \in [Sites -> {<<>>} \cup {<<e>> : e \in Event}]
    BY <1>2, <2>4 DEF Tick, Typed, SitesTyped
  <2>7. UNCHANGED dvars /\ restarts' = restarts BY <1>2 DEF Tick
  <2> QED BY <1>0, <2>5, <2>6, <2>7 DEF Typed, SitesTyped
<1>3. ASSUME NEW w \in Workers, DispatcherStep(w) PROVE Typed'
  <2>1. WorkerStep(w) /\ UNCHANGED <<db, hook, restarts>> BY <1>3 DEF DispatcherStep
  <2>2. SitesTyped' BY <2>1 DEF Typed, SitesTyped
  <2>3. QueueTyped' BY <2>1, WorkerMoves, WorkerKeepsQueue DEF Typed, QueueTyped
  <2> QED BY <2>1, <2>2, <2>3, WorkerMoves, WorkerKeepsLedger DEF Typed
<1>4. CASE Stop
  <2>1. QueueTyped' BY <1>4 DEF Stop, Shutdown, Typed, QueueTyped
  <2>2. WorkersTyped' /\ LedgerTyped' /\ SitesTyped'
    BY <1>4 DEF Stop, Shutdown, Typed, WorkersTyped, LedgerTyped, SitesTyped
  <2> QED BY <2>1, <2>2 DEF Typed
<1>5. CASE Restart
  <2>1. QueueTyped'
    <3>1. queue' = <<>> /\ closed' = FALSE /\ dropped' = 0 BY <1>5 DEF Restart, NewProcess
    <3> QED BY <3>1, EmptyQueue DEF QueueTyped
  <2>2. WorkersTyped'
    BY <1>5 DEF Restart, NewProcess, WorkersTyped, Places, Idle, Works, NoKey, Sends, Delivering
  <2>3. LedgerTyped' BY <1>5 DEF Restart, NewProcess, Typed, LedgerTyped
  <2>4. SitesTyped' BY <1>5 DEF Restart, Typed, SitesTyped
  <2> QED BY <2>1, <2>2, <2>3, <2>4 DEF Typed
<1>6. CASE UNCHANGED vars
  BY <1>0, <1>6 DEF vars, dvars, Typed, SitesTyped
<1> QED BY <1>1, <1>2, <1>3, <1>4, <1>5, <1>6 DEF Next

LEMMA AlwaysTyped == Spec => []Typed
BY InitTyped, NextTyped, AlwaysKept, PTL DEF Spec

\* Queue, workers, ledger, site databases and events are well-typed whatever
\* fails; the attempts a worker counts stay within Retries + 1.
THEOREM AlertingTyped == Spec => []TypeOK
<1>1. Typed /\ Kept => TypeOK
  <2> SUFFICES ASSUME Typed, Kept PROVE TypeOK OBVIOUS
  <2> USE DispatcherAssumption
  <2>1. QueueTyped /\ WorkersTyped /\ LedgerTyped /\ SitesTyped BY DEF Typed
  <2>2. ASSUME NEW w \in Workers
        PROVE  /\ pc[w] \notin {"idle", "exited"} => work[w].event \in Event
               /\ work[w].kinds \subseteq Kinds /\ work[w].rules \subseteq Rules
               /\ pc[w] \in {"claim"} \cup Delivering =>
                    sending[w].key \in Key /\ sending[w].attempt \in 1..(Retries + 1)
    BY <2>1 DEF WorkersTyped, Works, Sends
  <2>3. DispatcherTypeOK
    BY <2>1, <2>2 DEF QueueTyped, WorkersTyped, LedgerTyped, Places, DispatcherTypeOK
  <2>4. \A s \in Sites : hook[s] = <<>> \/ hook[s][1] \in Event
    BY <2>1 DEF SitesTyped
  <2> QED BY <2>1, <2>3, <2>4 DEF TypeOK, SitesTyped
<1> QED BY <1>1, AlwaysTyped, AlwaysKept, PTL

-----------------------------------------------------------------------------
(***************************************************************************)
(* The steps of a worker, by what they do to the event it has in hand.     *)
(***************************************************************************)
LEMMA TakeStep ==
    ASSUME Typed, NEW w \in Workers, Take(w)
    PROVE  /\ pc[w] = "idle" /\ queue # <<>> /\ pc'[w] = "kinds" /\ queue' = Tail(queue)
           /\ work'[w].event = Head(queue) /\ work'[w].kinds = KindsFor(Head(queue).tr)
           /\ work'[w].rules = {}
           /\ Head(queue) = queue[1] /\ 1 \in DOMAIN queue
           /\ DOMAIN queue' = 1..(Len(queue) - 1)
           /\ \A p \in DOMAIN queue' : p + 1 \in DOMAIN queue /\ queue'[p] = queue[p + 1]
           /\ UNCHANGED <<ledger, mail>>
<1>1. /\ queue \in Seq(Event) /\ queue # <<>> /\ queue' = Tail(queue)
  BY DEF Take, Typed, QueueTyped
<1>2. /\ Head(queue) = queue[1] /\ 1 \in DOMAIN queue
      /\ DOMAIN queue' = 1..(Len(queue) - 1)
      /\ \A p \in DOMAIN queue' : p + 1 \in DOMAIN queue /\ queue'[p] = queue[p + 1]
  BY <1>1
<1>3. work \in [Workers -> Works] /\ pc \in [Workers -> Places]
  BY DEF Typed, WorkersTyped
<1>4. work'[w] = [event |-> Head(queue), kinds |-> KindsFor(Head(queue).tr), rules |-> {}]
  BY <1>3 DEF Take
<1> QED BY <1>1, <1>2, <1>3, <1>4 DEF Take

LEMMA LoadStep ==
    ASSUME Typed, NEW w \in Workers, LoadRules(w)
    PROVE  /\ pc[w] = "kinds" /\ pc'[w] = "rules"
           /\ \E k \in work[w].kinds :
                /\ work'[w].event = work[w].event
                /\ work'[w].kinds = work[w].kinds \ {k}
                /\ \/ work'[w].rules = RulesFor(work[w].event.site, k)
                   \/ DbFails /\ work'[w].rules = work[w].rules
           /\ UNCHANGED <<queue, sending, ledger, mail>>
<1>1. /\ work \in [Workers -> Works] /\ pc \in [Workers -> Places]
      /\ work[w] = [event |-> work[w].event, kinds |-> work[w].kinds, rules |-> work[w].rules]
  BY DEF Typed, WorkersTyped, Works
<1>2. ASSUME NEW k, NEW x, work' = [work EXCEPT ![w].kinds = @ \ {k}, ![w].rules = x]
      PROVE  /\ work'[w].event = work[w].event /\ work'[w].kinds = work[w].kinds \ {k}
             /\ work'[w].rules = x
  BY <1>1, <1>2
<1>3. ASSUME NEW k, work' = [work EXCEPT ![w].kinds = @ \ {k}]
      PROVE  /\ work'[w].event = work[w].event /\ work'[w].kinds = work[w].kinds \ {k}
             /\ work'[w].rules = work[w].rules
  BY <1>1, <1>3
<1>4. PICK k \in work[w].kinds :
        \/ work' = [work EXCEPT ![w].kinds = @ \ {k},
                               ![w].rules = RulesFor(work[w].event.site, k)]
        \/ DbFails /\ work' = [work EXCEPT ![w].kinds = @ \ {k}]
  BY DEF LoadRules
<1>5. pc[w] = "kinds" /\ pc'[w] = "rules" /\ UNCHANGED <<queue, sending, ledger, mail>>
  BY <1>1 DEF LoadRules
<1> QED BY <1>2, <1>3, <1>4, <1>5

LEMMA RenderStep ==
    ASSUME Typed, NEW w \in Workers, Render(w)
    PROVE  /\ pc[w] = "rules"
           /\ \E r \in work[w].rules :
                /\ work'[w].event = work[w].event /\ work'[w].kinds = work[w].kinds
                /\ work'[w].rules = work[w].rules \ {r}
                /\ \/ /\ Fires(work[w].event, r) /\ pc'[w] = "claim"
                      /\ sending'[w].key = KeyOf(r.kind, work[w].event, r.channel)
                   \/ (~Fires(work[w].event, r) \/ DbFails) /\ pc'[w] = "rules"
           /\ UNCHANGED <<queue, ledger, mail>>
<1>1. /\ work \in [Workers -> Works] /\ pc \in [Workers -> Places]
      /\ sending \in [Workers -> Sends]
      /\ work[w] = [event |-> work[w].event, kinds |-> work[w].kinds, rules |-> work[w].rules]
  BY DEF Typed, WorkersTyped, Works
<1>2. ASSUME NEW r, work' = [work EXCEPT ![w].rules = @ \ {r}]
      PROVE  /\ work'[w].event = work[w].event /\ work'[w].kinds = work[w].kinds
             /\ work'[w].rules = work[w].rules \ {r}
  BY <1>1, <1>2
<1>3. ASSUME NEW k, sending' = [sending EXCEPT ![w] = [key |-> k, attempt |-> 1]]
      PROVE  sending'[w].key = k
  BY <1>1, <1>3
<1>4. PICK r \in work[w].rules :
        /\ work' = [work EXCEPT ![w].rules = @ \ {r}]
        /\ \/ /\ Fires(work[w].event, r)
              /\ sending' = [sending EXCEPT ![w] =
                    [key |-> KeyOf(r.kind, work[w].event, r.channel), attempt |-> 1]]
              /\ pc' = [pc EXCEPT ![w] = "claim"]
           \/ /\ ~Fires(work[w].event, r) \/ DbFails
              /\ UNCHANGED <<pc, sending>>
  BY DEF Render
<1>5. pc[w] = "rules" /\ UNCHANGED <<queue, ledger, mail>> BY DEF Render
<1>6. pc' = [pc EXCEPT ![w] = "claim"] => pc'[w] = "claim" BY <1>1
<1> QED BY <1>2, <1>3, <1>4, <1>5, <1>6

LEMMA ClaimStep ==
    ASSUME Typed, NEW w \in Workers, ClaimWins(w)
    PROVE  /\ pc[w] = "claim" /\ pc'[w] = "send"
           /\ UNCHANGED <<queue, work, sending>>
           /\ DOMAIN ledger' = DOMAIN ledger \cup {sending[w].key}
           /\ DOMAIN mail' = DOMAIN mail \cup {sending[w].key}
           /\ mail'[sending[w].key].about = About(w)
           /\ \A j \in DOMAIN mail : j # sending[w].key => mail'[j] = mail[j]
<1>1. pc \in [Workers -> Places] BY DEF Typed, WorkersTyped
<1>2. /\ DOMAIN mail' = DOMAIN mail \cup {sending[w].key}
      /\ mail'[sending[w].key] = [tries |-> 0, accepted |-> 0, about |-> About(w)]
      /\ \A j \in DOMAIN mail : j # sending[w].key => mail'[j] = mail[j]
  BY DEF ClaimWins
<1> QED BY <1>1, <1>2 DEF ClaimWins

\* Every other step applies no rule.
OtherStep(w) ==
    \/ Handled(w) \/ RulesDone(w) \/ ClaimLoses(w)
    \/ \E reply \in Replies : Attempt(w, reply)
    \/ Retry(w) \/ CutShort(w) \/ Mark(w) \/ Exit(w)

LEMMA OtherSteps ==
    ASSUME Typed, Kept, NEW w \in Workers, OtherStep(w)
    PROVE  /\ UNCHANGED queue
           /\ DOMAIN ledger' = DOMAIN ledger /\ DOMAIN mail' = DOMAIN mail
           /\ \A k \in DOMAIN mail : mail'[k].about = mail[k].about
           /\ \/ pc[w] = "kinds" /\ work[w].kinds = {} /\ pc'[w] = "idle"
              \/ pc[w] = "rules" /\ work[w].rules = {} /\ pc'[w] = "kinds" /\ work'[w] = work[w]
              \/ /\ pc[w] = "claim" /\ (sending[w].key \in DOMAIN ledger \/ DbFails)
                 /\ pc'[w] = "rules" /\ work'[w] = work[w]
              \/ /\ pc[w] \in Delivering /\ pc'[w] \in Delivering \cup {"rules"}
                 /\ work'[w] = work[w]
              \/ pc[w] = "idle" /\ pc'[w] = "exited" /\ closed /\ queue = <<>>
<1>1. pc \in [Workers -> Places]
  BY DEF Typed, WorkersTyped
<1>2. /\ UNCHANGED <<ledger, mail>> =>
           /\ DOMAIN ledger' = DOMAIN ledger /\ DOMAIN mail' = DOMAIN mail
           /\ \A k \in DOMAIN mail : mail'[k].about = mail[k].about
  OBVIOUS
<1>3. CASE Handled(w) BY <1>1, <1>2, <1>3 DEF Handled
<1>4. CASE RulesDone(w) BY <1>1, <1>2, <1>4 DEF RulesDone
<1>5. CASE ClaimLoses(w) BY <1>1, <1>2, <1>5 DEF ClaimLoses, NextRule, Unclaimed
<1>6. ASSUME NEW reply \in Replies, Attempt(w, reply)
      PROVE  /\ UNCHANGED queue
             /\ DOMAIN ledger' = DOMAIN ledger /\ DOMAIN mail' = DOMAIN mail
             /\ \A k \in DOMAIN mail : mail'[k].about = mail[k].about
             /\ pc[w] \in Delivering /\ pc'[w] \in Delivering \cup {"rules"}
             /\ work'[w] = work[w]
  <2> DEFINE k == sending[w].key
  <2>1. \A j \in DOMAIN mail : mail[j] \in [tries : Nat, accepted : Nat, about : Nat]
    BY DEF Typed, LedgerTyped
  <2>2. mail' = [mail EXCEPT ![k].tries = @ + 1,
                             ![k].accepted = IF reply = "refused" THEN @ ELSE @ + 1]
    BY <1>6 DEF Attempt
  <2>3. DOMAIN mail' = DOMAIN mail /\ \A j \in DOMAIN mail : mail'[j].about = mail[j].about
    BY <2>1, <2>2
  <2>4. /\ UNCHANGED <<queue, work, ledger>> /\ pc[w] = "send"
        /\ pc' = [pc EXCEPT ![w] = AfterAttempt(w, reply)]
        /\ AfterAttempt(w, reply) \in Delivering
    BY <1>6 DEF Attempt, AfterAttempt, Delivering
  <2>5. pc'[w] \in Delivering BY <1>1, <2>4
  <2> QED BY <2>3, <2>4, <2>5 DEF Delivering
<1>7. CASE Retry(w) BY <1>1, <1>2, <1>7 DEF Retry, Delivering
<1>8. CASE CutShort(w) BY <1>1, <1>2, <1>8 DEF CutShort, Delivering
<1>9. CASE Mark(w) BY <1>1, <1>9 DEF Mark, NextRule, Delivering
<1>10. CASE Exit(w) BY <1>1, <1>2, <1>10 DEF Exit, QueueClosed
<1> QED BY <1>3, <1>4, <1>5, <1>6, <1>7, <1>8, <1>9, <1>10 DEF OtherStep

LEMMA WorkerSteps ==
    ASSUME NEW w \in Workers, WorkerStep(w)
    PROVE  Take(w) \/ LoadRules(w) \/ Render(w) \/ ClaimWins(w) \/ OtherStep(w)
BY DEF WorkerStep, OtherStep

-----------------------------------------------------------------------------
(* Where an event may be on its way from a tick to the ledger.              *)

\* Event e asks something of rule r.
Due(e, r) == r \in RulesFor(e.site, r.kind) /\ r.kind \in KindsFor(e.tr)

\* Handed over by no worker yet.
Waiting(e) ==
    \/ e.site \in Sites /\ hook[e.site] = <<e>>
    \/ \E p \in DOMAIN queue : queue[p] = e

\* Worker w has event e in hand and has still to apply rule r to it.
Has(w, e, r) ==
    /\ Busy(w) /\ work[w].event = e
    /\ \/ r.kind \in work[w].kinds
       \/ r \in work[w].rules
       \/ pc[w] = "claim" /\ sending[w].key = KeyOf(r.kind, e, r.channel)

Pending(e, r) == Waiting(e) \/ \E w \in Workers : Has(w, e, r)

Covered(e, r) == Pending(e, r) \/ KeyOf(r.kind, e, r.channel) \in DOMAIN ledger

-----------------------------------------------------------------------------
(* What holds at every moment, whatever fails.                              *)

\* What an event says of the outage it belongs to.
EventRight(e) ==
    /\ ~e.tr.Up /\ e.tr.ConsecutiveFailures = 1 => e.tr.IncidentID = e.outage /\ e.outage > 0
    /\ ~e.tr.Up /\ e.tr.ConsecutiveFailures > 1 => e.tr.IncidentID = 0
    /\ e.tr.IncidentResolved => e.tr.IncidentID = e.outage

EventsRight ==
    /\ \A s \in Sites : hook[s] # <<>> =>
        hook[s][1].site = s /\ hook[s] = <<hook[s][1]>> /\ EventRight(hook[s][1])
    /\ \A p \in DOMAIN queue : EventRight(queue[p])
    /\ \A w \in Workers : Busy(w) => EventRight(work[w].event)

\* What a key and the text of its message have to do with each other.
KeyRight(k, about) ==
    /\ k.kind # "down" => about = k.n
    /\ k.kind = "down" =>
        \E r \in Rules :
            /\ r.kind = "down" /\ r.channel = k.channel
            /\ IF k.n = 0 THEN Threshold(r) > 1 ELSE Threshold(r) = 1 /\ about = k.n

Handling(w) ==
    /\ pc[w] = "kinds" => work[w].rules = {}
    /\ Busy(w) => /\ work[w].kinds \subseteq KindsFor(work[w].event.tr)
                  /\ \A r \in work[w].rules : Due(work[w].event, r)
    /\ pc[w] = "claim" =>
        \E r \in Rules : /\ Due(work[w].event, r)
                         /\ sending[w].key = KeyOf(r.kind, work[w].event, r.channel)
                         /\ r.kind = "down" => DownFires(work[w].event, r)

Counters == \A s \in Sites : db[s].state.current_up = 0 <=> db[s].state.consecutive_failures > 0

\* After a shutdown nothing is added, and a worker leaves an empty queue.
Closing ==
    /\ closed => \A s \in Sites : hook[s] = <<>>
    /\ \A w \in Workers : pc[w] = "exited" => closed /\ queue = <<>>

Sound ==
    /\ EventsRight
    /\ \A w \in Workers : Handling(w)
    /\ \A k \in DOMAIN mail : KeyRight(k, mail[k].about)
    /\ Counters
    /\ Closing

-----------------------------------------------------------------------------
LEMMA InitSound == Init => Sound
<1> SUFFICES ASSUME Init PROVE Sound OBVIOUS
<1>1. /\ \A s \in Sites : hook[s] = <<>> /\ db[s] = S!NewDB
      /\ queue = <<>> /\ DOMAIN mail = {} /\ closed = FALSE
      /\ \A w \in Workers : pc[w] = "idle"
  BY DEF Init, DispatcherInit
<1>2. EventsRight BY <1>1 DEF EventsRight, Busy
<1>3. \A w \in Workers : Handling(w) BY <1>1 DEF Handling, Busy
<1>4. Counters
  <2>1. S!NewDB.state.current_up = -1 /\ S!NewDB.state.consecutive_failures = 0
    BY DEF S!NewDB, S!NULL
  <2>2. \A s \in Sites : db[s].state.current_up = -1 /\ db[s].state.consecutive_failures = 0
    BY <1>1, <2>1
  <2> SUFFICES ASSUME NEW s \in Sites
               PROVE  db[s].state.current_up = 0 <=> db[s].state.consecutive_failures > 0
    BY DEF Counters
  <2> DEFINE up == db[s].state.current_up
             f == db[s].state.consecutive_failures
  <2>3. up = -1 /\ f = 0 BY <2>2
  <2> HIDE DEF up, f
  <2>4. up = 0 <=> f > 0 BY <2>3
  <2> QED BY <2>4 DEF up, f
<1>5. Closing BY <1>1 DEF Closing
<1> QED BY <1>1, <1>2, <1>3, <1>4, <1>5 DEF Sound

\* The step of a worker tells the others nothing.
LEMMA OthersKeep ==
    ASSUME NEW w \in Workers, Only(w), NEW v \in Workers, v # w
    PROVE  /\ Busy(v)' = Busy(v) /\ pc'[v] = pc[v] /\ work'[v] = work[v]
           /\ sending'[v] = sending[v]
BY DEF Only, Busy

LEMMA WorkerKeepsEvents ==
    ASSUME Typed, Kept, Sound, NEW w \in Workers, WorkerStep(w), UNCHANGED hook
    PROVE  EventsRight'
<1>1. Only(w) BY WorkerMoves
<1>2. \A p \in DOMAIN queue' : EventRight(queue'[p])
  <2>1. CASE Take(w) BY <2>1, TakeStep DEF Sound, EventsRight
  <2>2. CASE UNCHANGED queue BY <2>2 DEF Sound, EventsRight
  <2> QED BY <2>1, <2>2, WorkerSteps, LoadStep, RenderStep, ClaimStep, OtherSteps
<1>3. Busy(w)' => EventRight(work'[w].event)
  <2>1. CASE Take(w)
    <3>1. work'[w].event = queue[1] /\ 1 \in DOMAIN queue BY <2>1, TakeStep
    <3> QED BY <3>1 DEF Sound, EventsRight
  <2>2. CASE Busy(w) /\ work'[w].event = work[w].event
    BY <2>2 DEF Sound, EventsRight
  <2>3. CASE LoadRules(w) BY <2>2, <2>3, LoadStep DEF Busy
  <2>4. CASE Render(w) BY <2>2, <2>4, RenderStep DEF Busy
  <2>5. CASE ClaimWins(w) BY <2>2, <2>5, ClaimStep DEF Busy
  <2>6. CASE OtherStep(w) BY <2>2, <2>6, OtherSteps DEF Busy, Delivering
  <2> QED BY <2>1, <2>3, <2>4, <2>5, <2>6, WorkerSteps
<1>4. \A v \in Workers : Busy(v)' => EventRight(work'[v].event)
  <2> TAKE v \in Workers
  <2>1. CASE v # w BY <1>1, <2>1, OthersKeep DEF Sound, EventsRight
  <2> QED BY <1>3, <2>1
<1>5. \A s \in Sites : hook'[s] # <<>> =>
        hook'[s][1].site = s /\ hook'[s] = <<hook'[s][1]>> /\ EventRight(hook'[s][1])
  BY DEF Sound, EventsRight
<1> QED BY <1>2, <1>4, <1>5 DEF EventsRight, EventRight, Busy

LEMMA WorkerKeepsHandling ==
    ASSUME Typed, Kept, Sound, NEW w \in Workers, WorkerStep(w)
    PROVE  \A v \in Workers : Handling(v)'
<1>1. Only(w) BY WorkerMoves
<1>2. Handling(w)'
  <2>0. Handling(w) BY DEF Sound
  <2>1. CASE Take(w) BY <2>1, TakeStep DEF Handling
  <2>2. CASE LoadRules(w)
    <3>1. PICK k \in work[w].kinds :
             /\ pc[w] = "kinds" /\ pc'[w] = "rules"
             /\ work'[w].event = work[w].event
             /\ work'[w].kinds = work[w].kinds \ {k}
             /\ \/ work'[w].rules = RulesFor(work[w].event.site, k)
                \/ work'[w].rules = work[w].rules
      BY <2>2, LoadStep
    <3>2. k \in KindsFor(work[w].event.tr) BY <2>0, <3>1 DEF Handling, Busy
    <3>3. \A r \in RulesFor(work[w].event.site, k) : Due(work[w].event, r)
      BY <3>2 DEF Due, RulesFor
    <3> QED BY <2>0, <3>1, <3>3 DEF Handling, Busy, Due
  <2>3. CASE Render(w)
    <3>1. PICK r \in work[w].rules :
             /\ pc[w] = "rules"
             /\ work'[w].event = work[w].event /\ work'[w].kinds = work[w].kinds
             /\ work'[w].rules = work[w].rules \ {r}
             /\ \/ /\ Fires(work[w].event, r) /\ pc'[w] = "claim"
                   /\ sending'[w].key = KeyOf(r.kind, work[w].event, r.channel)
                \/ pc'[w] = "rules"
      BY <2>3, RenderStep
    <3>2. Due(work[w].event, r) /\ r \in Rules BY <2>0, <3>1 DEF Handling, Busy, Due, RulesFor
    <3>3. Fires(work[w].event, r) => (r.kind = "down" => DownFires(work[w].event, r))
      BY DEF Fires
    <3> QED BY <2>0, <3>1, <3>2, <3>3 DEF Handling, Busy, Due, DownFires
  <2>4. CASE ClaimWins(w) BY <2>0, <2>4, ClaimStep DEF Handling, Busy, Due
  <2>5. CASE OtherStep(w)
    BY <2>0, <2>5, OtherSteps DEF Handling, Busy, Due, Delivering
  <2> QED BY <2>1, <2>2, <2>3, <2>4, <2>5, WorkerSteps
<1> SUFFICES ASSUME NEW v \in Workers PROVE Handling(v)' OBVIOUS
<1>3. CASE v # w
  <2>1. Handling(v) BY DEF Sound
  <2> QED BY <1>1, <1>3, <2>1, OthersKeep DEF Handling, Due, DownFires, Busy
<1> QED BY <1>2, <1>3

\* A claim is right: its key is that of a rule due on the event in hand.
LEMMA ClaimIsRight ==
    ASSUME Typed, Sound, NEW w \in Workers, pc[w] = "claim"
    PROVE  KeyRight(sending[w].key, About(w))
<1> DEFINE e == work[w].event
           k == sending[w].key
<1>1. e \in Event /\ EventRight(e)
  BY DEF Typed, WorkersTyped, Sound, EventsRight, Busy
<1>2. PICK r \in Rules : /\ Due(e, r) /\ k = KeyOf(r.kind, e, r.channel)
                         /\ r.kind = "down" => DownFires(e, r)
  BY DEF Sound, Handling
<1>3. /\ k.kind = r.kind /\ k.channel = r.channel
      /\ k.n = IF r.kind = "ssl" THEN e.tr.SSLExpiresAt ELSE e.tr.IncidentID
  BY <1>2 DEF KeyOf
<1>4. r.kind \in Kinds /\ r.confirm \in Nat
  BY <1>2, DispatcherAssumption DEF Rule
<1>5. /\ e.tr.ConsecutiveFailures \in Nat /\ e.tr.Up \in BOOLEAN /\ e.outage \in Nat
  BY <1>1 DEF Event, Transition
<1>6. CASE r.kind = "ssl" BY <1>3, <1>6 DEF KeyRight, About
<1>7. CASE r.kind = "up"
  <2>1. e.tr.IncidentResolved BY <1>2, <1>7 DEF Due, KindsFor
  <2> QED BY <1>1, <1>3, <1>7, <2>1 DEF KeyRight, About, EventRight
<1>8. CASE r.kind = "down"
  <2>1. ~e.tr.Up /\ e.tr.ConsecutiveFailures > 0 BY <1>2, <1>8 DEF Due, KindsFor
  <2>2. e.tr.ConsecutiveFailures = Threshold(r) BY <1>2, <1>8 DEF DownFires
  <2>3. About(w) = e.outage BY <1>3, <1>8 DEF About
  <2>4. CASE e.tr.ConsecutiveFailures = 1
    <3>1. e.tr.IncidentID = e.outage /\ e.outage > 0 BY <1>1, <2>1, <2>4 DEF EventRight
    <3>2. k.n = e.outage /\ k.n # 0 /\ Threshold(r) = 1 BY <1>3, <1>5, <1>8, <2>2, <2>4, <3>1
    <3> QED BY <1>3, <1>8, <2>3, <3>2 DEF KeyRight
  <2>5. CASE e.tr.ConsecutiveFailures > 1
    BY <1>1, <1>3, <1>5, <1>8, <2>1, <2>2, <2>3, <2>5 DEF KeyRight, EventRight
  <2> QED BY <1>5, <2>1, <2>4, <2>5
<1> QED BY <1>4, <1>6, <1>7, <1>8 DEF Kinds

LEMMA WorkerKeepsKeys ==
    ASSUME Typed, Kept, Sound, NEW w \in Workers, WorkerStep(w)
    PROVE  \A k \in DOMAIN mail' : KeyRight(k, mail'[k].about)
<1>1. \A k \in DOMAIN mail : KeyRight(k, mail[k].about) BY DEF Sound
<1>2. CASE ClaimWins(w)
  <2> DEFINE key == sending[w].key
  <2>1. /\ pc[w] = "claim" /\ DOMAIN mail' = DOMAIN mail \cup {key}
        /\ mail'[key].about = About(w)
        /\ \A j \in DOMAIN mail : j # key => mail'[j] = mail[j]
    BY <1>2, ClaimStep
  <2>2. KeyRight(key, About(w)) BY <2>1, ClaimIsRight
  <2> HIDE DEF key
  <2>3. ASSUME NEW k \in DOMAIN mail' PROVE KeyRight(k, mail'[k].about)
    <3>1. CASE k = key BY <2>1, <2>2, <3>1
    <3>2. CASE k # key
      <4>1. k \in DOMAIN mail /\ mail'[k] = mail[k] BY <2>1, <2>3, <3>2
      <4> QED BY <1>1, <4>1
    <3> QED BY <3>1, <3>2
  <2> QED BY <2>3
<1>3. CASE DOMAIN mail' = DOMAIN mail /\ \A k \in DOMAIN mail : mail'[k].about = mail[k].about
  BY <1>1, <1>3
<1> QED BY <1>2, <1>3, WorkerSteps, TakeStep, LoadStep, RenderStep, OtherSteps

LEMMA WorkerKeepsClosing ==
    ASSUME Typed, Kept, Sound, NEW w \in Workers, WorkerStep(w), UNCHANGED hook
    PROVE  Closing'
<1>1. Only(w) /\ UNCHANGED closed BY WorkerMoves
<1>2. queue = <<>> => queue' = <<>>
  BY WorkerSteps, TakeStep, LoadStep, RenderStep, ClaimStep, OtherSteps
<1>3. pc'[w] = "exited" => closed /\ queue = <<>>
  BY WorkerSteps, TakeStep, LoadStep, RenderStep, ClaimStep, OtherSteps DEF Delivering
<1>4. \A v \in Workers : pc'[v] = "exited" => closed /\ queue = <<>>
  <2> TAKE v \in Workers
  <2>1. CASE v # w BY <1>1, <2>1, OthersKeep DEF Sound, Closing
  <2> QED BY <1>3, <2>1
<1> QED BY <1>1, <1>2, <1>4 DEF Sound, Closing

LEMMA WorkerKeepsSound ==
    ASSUME Typed, Kept, Sound, NEW w \in Workers, WorkerStep(w), UNCHANGED <<db, hook>>
    PROVE  Sound'
<1>1. Counters' BY DEF Sound, Counters
<1>2. (\A k \in DOMAIN mail : KeyRight(k, mail[k].about))'
  BY WorkerKeepsKeys DEF KeyRight
<1> QED
  BY <1>1, <1>2, WorkerKeepsEvents, WorkerKeepsHandling, WorkerKeepsClosing DEF Sound

\* A tick tells the truth about the outage it belongs to.
LEMMA TickEventRight ==
    ASSUME Typed, Counters, NEW s \in Sites, NEW o \in S!Outcome
    PROVE  EventRight(EventOf(s, db[s], o))
<1> DEFINE d == db[s]
           e == EventOf(s, d, o)
<1>1. d \in S!DB BY DEF Typed, SitesTyped
<1>2. /\ d.state.current_up \in {-1, 0, 1} /\ d.state.consecutive_failures \in Nat
      /\ d.state.current_incident_id \in Nat \cup {-1} /\ Len(d.incidents) \in Nat
      /\ o.up \in BOOLEAN
  <2>1. d.incidents \in Seq(S!IncidentRow) BY <1>1 DEF S!DB
  <2> QED BY <1>1, <2>1 DEF S!DB, S!StateRow, S!Nullable, S!NULL, S!Outcome
<1>3. d.state.current_up = 0 <=> d.state.consecutive_failures > 0 BY DEF Counters
<1>4. /\ e.outage = OutageOf(d, o)
      /\ e.tr.Up = o.up
      /\ e.tr.IncidentResolved = S!Resolves(d.state, o)
      /\ e.tr.IncidentID = (IF S!Opens(d.state, o) THEN Len(d.incidents) + 1
                            ELSE IF S!Resolves(d.state, o) THEN d.state.current_incident_id
                            ELSE 0)
      /\ e.tr.ConsecutiveFailures = (IF o.up THEN 0 ELSE d.state.consecutive_failures + 1)
  BY <1>1, EventFields
<1>5. /\ S!Opens(d.state, o) <=> ~o.up /\ d.state.current_up \in {-1, 1}
      /\ S!Resolves(d.state, o) => o.up
  BY DEF S!Opens, S!Resolves, S!Recovers, S!NULL
<1>6. OutageOf(d, o) = IF S!Resolves(d.state, o) THEN d.state.current_incident_id
                       ELSE IF S!IncidentAfter(d, o) = -1 THEN 0 ELSE S!IncidentAfter(d, o)
  BY DEF OutageOf, S!NULL
<1> HIDE DEF d, e
<1>7. ASSUME ~e.tr.Up, e.tr.ConsecutiveFailures = 1
      PROVE  e.tr.IncidentID = e.outage /\ e.outage > 0
  <2>1. ~o.up /\ S!Opens(d.state, o) /\ ~S!Resolves(d.state, o)
    BY <1>2, <1>3, <1>4, <1>5, <1>7
  <2>2. S!IncidentAfter(d, o) = Len(d.incidents) + 1 BY <2>1 DEF S!IncidentAfter
  <2> QED BY <1>2, <1>4, <1>6, <2>1, <2>2
<1>8. ASSUME ~e.tr.Up, e.tr.ConsecutiveFailures > 1
      PROVE  e.tr.IncidentID = 0
  <2>1. ~o.up /\ ~S!Opens(d.state, o) /\ ~S!Resolves(d.state, o)
    BY <1>2, <1>3, <1>4, <1>5, <1>8
  <2> QED BY <1>4, <2>1
<1>9. ASSUME e.tr.IncidentResolved PROVE e.tr.IncidentID = e.outage
  <2>1. S!Resolves(d.state, o) /\ ~S!Opens(d.state, o) BY <1>4, <1>5, <1>9
  <2> QED BY <1>4, <1>6, <2>1
<1> QED BY <1>7, <1>8, <1>9 DEF EventRight, d, e

LEMMA NextSound == Typed /\ Kept /\ Sound /\ [Next]_vars => Sound'
<1> SUFFICES ASSUME Typed, Kept, Sound, [Next]_vars PROVE Sound' OBVIOUS
<1>1. ASSUME UNCHANGED <<pc, work, sending, ledger, mail>>
      PROVE  /\ \A w \in Workers : Handling(w)'
             /\ \A k \in DOMAIN mail' : KeyRight(k, mail'[k].about)
             /\ \A w \in Workers : Busy(w)' = Busy(w) /\ (Busy(w) => EventRight(work'[w].event))
             /\ \A w \in Workers : pc'[w] = "exited" => closed /\ queue = <<>>
  BY <1>1 DEF Sound, Handling, Busy, Due, DownFires, KeyRight, EventsRight, Closing
<1>2. ASSUME NEW s \in Sites, Hook(s) PROVE Sound'
  <2> DEFINE e == hook[s][1]
  <2>1. UNCHANGED <<pc, work, sending, ledger, mail, closed, db>> /\ ~closed /\ hook[s] # <<>>
    BY <1>2 DEF Hook, Enqueue
  <2>2. hook' = [hook EXCEPT ![s] = <<>>] /\ hook \in [Sites -> {<<>>} \cup {<<x>> : x \in Event}]
    BY <1>2 DEF Hook, Typed, SitesTyped
  <2>3. queue \in Seq(Event) /\ e \in Event /\ EventRight(e)
    BY <1>2, <2>1, <2>2 DEF Typed, QueueTyped, Sound, EventsRight
  <2>4. queue' = queue \/ queue' = Append(queue, e) BY <1>2 DEF Hook, Enqueue
  <2>5. \A p \in DOMAIN queue' : EventRight(queue'[p])
    <3>1. \A p \in DOMAIN queue : EventRight(queue[p]) BY DEF Sound, EventsRight
    <3> HIDE DEF e
    <3> QED BY <2>3, <2>4, <3>1
  <2>6. \A x \in Sites : hook'[x] = hook[x] \/ hook'[x] = <<>> BY <2>2
  <2>7. EventsRight' BY <1>1, <2>1, <2>5, <2>6 DEF Sound, EventsRight, EventRight
  <2>8. Counters' BY <2>1 DEF Sound, Counters
  <2>9. Closing' BY <1>1, <2>1 DEF Closing
  <2> QED BY <1>1, <2>1, <2>7, <2>8, <2>9 DEF Sound, KeyRight
<1>3. ASSUME NEW s \in Sites, NEW o \in Outcomes, Tick(s, o) PROVE Sound'
  <2>1. db[s] \in S!DB /\ o \in S!Outcome /\ Len(db[s].results) \in Nat
    <3>1. db[s] \in S!DB /\ o \in S!Outcome BY AlertingAssumption DEF Typed, SitesTyped
    <3>2. db[s].results \in Seq(S!ResultRow) BY <3>1 DEF S!DB
    <3> QED BY <3>1, <3>2
  <2> DEFINE e == EventOf(s, db[s], o)
  <2>2. e \in Event /\ e.site = s /\ EventRight(e)
    BY <2>1, EventFields, TickEventRight DEF Sound
  <2>3. /\ UNCHANGED <<queue, closed, pc, work, sending, ledger, mail>> /\ ~closed
        /\ hook' = [hook EXCEPT ![s] = <<e>>]
        /\ db' = [db EXCEPT ![s] = S!RecordTick(db[s], Len(db[s].results), o)]
    BY <1>3 DEF Tick, dvars
  <2> HIDE DEF e
  <2>4. hook \in [Sites -> {<<>>} \cup {<<x>> : x \in Event}] /\ db \in [Sites -> S!DB]
    BY DEF Typed, SitesTyped
  <2>5. /\ hook'[s] = <<e>> /\ hook'[s][1] = e
        /\ \A x \in Sites \ {s} : hook'[x] = hook[x] /\ db'[x] = db[x]
        /\ db'[s] = S!RecordTick(db[s], Len(db[s].results), o)
    BY <2>3, <2>4
  <2>6. EventsRight' BY <1>1, <2>2, <2>3, <2>5 DEF Sound, EventsRight, EventRight
  <2>7. Counters'
    <3>1. db[s].state.current_up = 0 <=> db[s].state.consecutive_failures > 0
      BY DEF Sound, Counters
    <3>2. db[s].state.consecutive_failures \in Nat /\ o.up \in BOOLEAN
      BY <2>1 DEF S!DB, S!StateRow, S!Outcome
    <3>3. /\ db'[s].state.current_up = (IF o.up THEN 1 ELSE 0)
          /\ db'[s].state.consecutive_failures =
               IF o.up THEN 0 ELSE db[s].state.consecutive_failures + 1
      <4> DEFINE t == S!RecordTick(db[s], Len(db[s].results), o)
      <4>1. /\ t.state.current_up = (IF o.up THEN 1 ELSE 0)
            /\ t.state.consecutive_failures =
                 IF o.up THEN 0 ELSE db[s].state.consecutive_failures + 1
        BY <2>1, TickEffect
      <4>2. db'[s] = t BY <2>5
      <4> HIDE DEF t
      <4> QED BY <4>1, <4>2
    <3>4. db'[s].state.current_up = 0 <=> db'[s].state.consecutive_failures > 0
      BY <3>2, <3>3
    <3> QED BY <2>5, <3>4 DEF Sound, Counters
  <2>8. Closing' BY <1>1, <2>3 DEF Closing
  <2> QED BY <1>1, <2>3, <2>6, <2>7, <2>8 DEF Sound, KeyRight
<1>4. ASSUME NEW w \in Workers, DispatcherStep(w) PROVE Sound'
  BY <1>4, WorkerKeepsSound DEF DispatcherStep
<1>5. CASE Stop
  <2>1. /\ UNCHANGED <<pc, work, sending, ledger, mail, queue, hook, db>>
        /\ \A s \in Sites : hook[s] = <<>>
        /\ ~closed /\ closed' = TRUE
    BY <1>5 DEF Stop, Shutdown
  <2>2. EventsRight' BY <1>1, <2>1 DEF Sound, EventsRight, EventRight
  <2>3. Counters' /\ Closing' BY <1>1, <2>1 DEF Sound, Counters, Closing
  <2> QED BY <1>1, <2>1, <2>2, <2>3 DEF Sound, KeyRight
<1>6. CASE Restart
  <2>1. /\ UNCHANGED <<ledger, mail, db>> /\ queue' = <<>> /\ closed' = FALSE
        /\ \A s \in Sites : hook'[s] = <<>>
        /\ \A w \in Workers : pc'[w] = "idle"
    BY <1>6 DEF Restart, NewProcess
  <2>2. EventsRight' BY <2>1 DEF EventsRight, Busy
  <2>3. \A w \in Workers : Handling(w)' BY <2>1 DEF Handling, Busy
  <2>4. Counters' /\ Closing' BY <2>1 DEF Sound, Counters, Closing
  <2> QED BY <2>1, <2>2, <2>3, <2>4 DEF Sound, KeyRight
<1>7. CASE UNCHANGED vars
  <2>1. UNCHANGED <<pc, work, sending, ledger, mail, queue, hook, db, closed>>
    BY <1>7 DEF vars, dvars
  <2>2. EventsRight' BY <1>1, <2>1 DEF Sound, EventsRight, EventRight
  <2>3. Counters' /\ Closing' BY <1>1, <2>1 DEF Sound, Counters, Closing
  <2> QED BY <1>1, <2>1, <2>2, <2>3 DEF Sound, KeyRight
<1> QED BY <1>2, <1>3, <1>4, <1>5, <1>6, <1>7 DEF Next

LEMMA AlwaysSound == Spec => []Sound
BY InitSound, NextSound, AlwaysTyped, AlwaysKept, PTL DEF Spec

(***************************************************************************)
(* One down message per incident and channel, if the down rules of that    *)
(* channel all fire on the first failure or all later.  A channel with     *)
(* rules of both sorts is sent two: a later failure carries no incident    *)
(* id, so its key is not the first one's.                                  *)
(***************************************************************************)
THEOREM OneDown ==
    ASSUME \A q, r \in Rules :
             /\ q.kind = "down" /\ r.kind = "down" /\ q.channel = r.channel
             => (Threshold(q) = 1 <=> Threshold(r) = 1)
    PROVE  Spec => []OneDownPerIncident
<1>1. Typed /\ Sound => OneDownPerIncident
  <2> SUFFICES ASSUME Typed, Sound, NEW j \in DOMAIN mail, NEW k \in DOMAIN mail,
                      j.kind = "down", k.kind = "down", j.site = k.site,
                      j.channel = k.channel, mail[j].about = mail[k].about
               PROVE  j = k
    BY DEF OneDownPerIncident
  <2>1. j \in Key /\ k \in Key BY DEF Typed, LedgerTyped
  <2>2. PICK q \in Rules :
           /\ q.kind = "down" /\ q.channel = j.channel
           /\ IF j.n = 0 THEN Threshold(q) > 1 ELSE Threshold(q) = 1 /\ mail[j].about = j.n
    BY DEF Sound, KeyRight
  <2>3. PICK r \in Rules :
           /\ r.kind = "down" /\ r.channel = k.channel
           /\ IF k.n = 0 THEN Threshold(r) > 1 ELSE Threshold(r) = 1 /\ mail[k].about = k.n
    BY DEF Sound, KeyRight
  <2>4. Threshold(q) = 1 <=> Threshold(r) = 1 BY <2>2, <2>3
  <2>5. j.n = k.n BY <2>2, <2>3, <2>4
  <2> QED BY <2>1, <2>5 DEF Key
<1> QED BY <1>1, AlwaysTyped, AlwaysSound, PTL

-----------------------------------------------------------------------------
(* What holds as long as nothing is lost.                                   *)

Opened(s, i, e) ==
    /\ e.site = s /\ e.tr.IncidentID = i
    /\ ~e.tr.Up /\ e.tr.ConsecutiveFailures = 1

Expires(s, x, e) == e.site = s /\ e.tr.SSLChecked /\ e.tr.SSLExpiresAt = x /\ x > 0

DownsCovered ==
    \A s \in Sites : \A i \in DOMAIN db[s].incidents : \A r \in RulesFor(s, "down") :
        \E e \in Event : Opened(s, i, e) /\ Covered(e, r)

CertificatesCovered ==
    \A s \in Sites : \A r \in RulesFor(s, "ssl") :
        db[s].state.ssl_expires_at \in NearExpiry =>
            \E e \in Event : Expires(s, db[s].state.ssl_expires_at, e) /\ Covered(e, r)

-----------------------------------------------------------------------------
(***************************************************************************)
(* An event stays covered: first by the line, then by the worker that has  *)
(* it in hand, at last by the ledger.  Only a rule that does not fire on   *)
(* it lets it go.                                                          *)
(***************************************************************************)
LEMMA WorkerCovers ==
    ASSUME Typed, Kept, Sound, DbFails = FALSE,
           NEW w \in Workers, WorkerStep(w), UNCHANGED hook,
           NEW e \in Event, NEW r, Due(e, r), Fires(e, r), Covered(e, r)
    PROVE  Covered(e, r)'
<1> DEFINE key == KeyOf(r.kind, e, r.channel)
<1>1. Only(w) BY WorkerMoves
<1>2. DOMAIN ledger \subseteq DOMAIN ledger'
  BY WorkerSteps, TakeStep, LoadStep, RenderStep, ClaimStep, OtherSteps
<1>3. CASE key \in DOMAIN ledger BY <1>2, <1>3 DEF Covered, KeyOf
<1>4. CASE Waiting(e)
  <2>1. CASE e.site \in Sites /\ hook[e.site] = <<e>>
    BY <2>1 DEF Covered, Pending, Waiting
  <2>2. ASSUME NEW p \in DOMAIN queue, queue[p] = e PROVE Covered(e, r)'
    <3>1. CASE UNCHANGED queue BY <2>2, <3>1 DEF Covered, Pending, Waiting
    <3>2. CASE Take(w) /\ p = 1
      <4>1. Has(w, e, r)'
        BY <2>2, <3>2, TakeStep DEF Has, Busy, Due
      <4> QED BY <4>1 DEF Covered, Pending
    <3>3. CASE Take(w) /\ p # 1
      <4>1. /\ p - 1 \in 1..(Len(queue) - 1) /\ (p - 1) + 1 = p
        <5>1. queue \in Seq(Event) BY DEF Typed, QueueTyped
        <5> QED BY <3>3, <5>1
      <4>2. p - 1 \in DOMAIN queue' /\ queue'[p - 1] = e
        BY <2>2, <3>3, <4>1, TakeStep
      <4> QED BY <4>2 DEF Covered, Pending, Waiting
    <3> QED BY <3>1, <3>2, <3>3, WorkerSteps, LoadStep, RenderStep, ClaimStep, OtherSteps
  <2> QED BY <1>4, <2>1, <2>2 DEF Waiting
<1>5. ASSUME NEW v \in Workers, v # w, Has(v, e, r) PROVE Covered(e, r)'
  <2>1. Has(v, e, r)' BY <1>1, <1>5, OthersKeep DEF Has, KeyOf, Busy
  <2> QED BY <2>1 DEF Covered, Pending
<1>6. CASE Has(w, e, r)
  <2>0. Handling(w) BY DEF Sound
  <2>1. CASE Take(w) BY <1>6, <2>1, TakeStep DEF Has, Busy
  <2>2. CASE LoadRules(w)
    <3>1. PICK k \in work[w].kinds :
             /\ pc[w] = "kinds" /\ pc'[w] = "rules"
             /\ work'[w].event = work[w].event
             /\ work'[w].kinds = work[w].kinds \ {k}
             /\ work'[w].rules = RulesFor(work[w].event.site, k)
      BY <2>2, LoadStep
    <3>2. r.kind \in work[w].kinds BY <1>6, <2>0, <3>1 DEF Has, Handling
    <3>3. r.kind = k => r \in work'[w].rules BY <1>6, <3>1 DEF Has, Due
    <3>4. Has(w, e, r)' BY <1>6, <3>1, <3>2, <3>3 DEF Has, Busy
    <3> QED BY <3>4 DEF Covered, Pending
  <2>3. CASE Render(w)
    <3>1. PICK q \in work[w].rules :
             /\ pc[w] = "rules"
             /\ work'[w].event = work[w].event /\ work'[w].kinds = work[w].kinds
             /\ work'[w].rules = work[w].rules \ {q}
             /\ \/ /\ pc'[w] = "claim"
                   /\ sending'[w].key = KeyOf(q.kind, work[w].event, q.channel)
                \/ ~Fires(work[w].event, q) /\ pc'[w] = "rules"
      BY <2>3, RenderStep
    <3>2. r = q => pc'[w] = "claim" /\ sending'[w].key = key BY <1>6, <3>1 DEF Has
    <3>3. Has(w, e, r)' BY <1>6, <3>1, <3>2 DEF Has, Busy, KeyOf
    <3> QED BY <3>3 DEF Covered, Pending
  <2>4. CASE ClaimWins(w)
    <3>1. CASE sending[w].key = key BY <2>4, <3>1, ClaimStep DEF Covered, KeyOf
    <3>2. CASE sending[w].key # key
      <4>1. Has(w, e, r)' BY <1>6, <2>4, <3>2, ClaimStep DEF Has, Busy
      <4> QED BY <4>1 DEF Covered, Pending
    <3> QED BY <3>1, <3>2
  <2>5. CASE OtherStep(w)
    <3>1. CASE key \in DOMAIN ledger BY <1>3, <3>1
    <3>2. CASE key \notin DOMAIN ledger
      <4>1. Has(w, e, r)'
        BY <1>6, <2>0, <2>5, <3>2, OtherSteps DEF Has, Busy, Delivering, Handling
      <4> QED BY <4>1 DEF Covered, Pending
    <3> QED BY <3>1, <3>2
  <2> QED BY <2>1, <2>2, <2>3, <2>4, <2>5, WorkerSteps
<1> QED BY <1>3, <1>4, <1>5, <1>6 DEF Covered, Pending

\* Nothing is lost: no event dropped, no crash, no failed statement.
Sheltered == DbFails = FALSE /\ Crashes = FALSE /\ Workers # {}

LEMMA StepCovers ==
    ASSUME Typed, Kept, Sound, Sheltered, [Next]_vars, dropped' = 0,
           NEW e \in Event, NEW r, Due(e, r), Fires(e, r), Covered(e, r)
    PROVE  Covered(e, r)'
<1> DEFINE key == KeyOf(r.kind, e, r.channel)
<1>0. queue \in Seq(Event) /\ hook \in [Sites -> {<<>>} \cup {<<x>> : x \in Event}]
  BY DEF Typed, QueueTyped, SitesTyped
<1>1. CASE /\ UNCHANGED <<pc, work, sending, ledger>>
           /\ \/ ~Waiting(e)
              \/ Waiting(e)'
  BY <1>1 DEF Covered, Pending, Has, Busy, KeyOf
<1>2. ASSUME NEW s \in Sites, Hook(s) PROVE Covered(e, r)'
  <2>1. /\ UNCHANGED <<pc, work, sending, ledger>>
        /\ hook' = [hook EXCEPT ![s] = <<>>]
    BY <1>2 DEF Hook, Enqueue
  <2>2. queue' = Append(queue, hook[s][1])
    <3>1. dropped \in Nat BY DEF Typed, QueueTyped
    <3> QED BY <1>2, <3>1 DEF Hook, Enqueue
  <2>3. ASSUME Waiting(e) PROVE Waiting(e)'
    <3>1. CASE e.site \in Sites /\ hook[e.site] = <<e>> /\ e.site # s
      BY <1>0, <2>1, <3>1 DEF Waiting
    <3>2. CASE hook[s] = <<e>>
      <4>1. hook[s][1] = e BY <3>2
      <4>2. Len(queue) + 1 \in DOMAIN queue' /\ queue'[Len(queue) + 1] = e
        BY <1>0, <2>2, <4>1
      <4> QED BY <4>2 DEF Waiting
    <3>3. ASSUME NEW p \in DOMAIN queue, queue[p] = e PROVE Waiting(e)'
      <4> DEFINE x == hook[s][1]
      <4>1. queue' = Append(queue, x) BY <2>2
      <4> HIDE DEF x
      <4>2. p \in DOMAIN queue' /\ queue'[p] = e BY <1>0, <3>3, <4>1
      <4> QED BY <4>2 DEF Waiting
    <3> QED BY <2>3, <3>1, <3>2, <3>3 DEF Waiting
  <2> QED BY <1>1, <2>1, <2>3
<1>3. ASSUME NEW s \in Sites, NEW o \in Outcomes, Tick(s, o) PROVE Covered(e, r)'
  <2>1. /\ UNCHANGED <<queue, pc, work, sending, ledger>> /\ hook[s] = <<>>
        /\ hook' = [hook EXCEPT ![s] = <<EventOf(s, db[s], o)>>]
    BY <1>3 DEF Tick, dvars
  <2>2. \A x \in Sites : hook[x] = <<e>> => hook'[x] = <<e>>
    <3>1. <<>> # <<e>> OBVIOUS
    <3> QED BY <1>0, <2>1, <3>1
  <2>3. Waiting(e) => Waiting(e)' BY <2>1, <2>2 DEF Waiting
  <2> QED BY <1>1, <2>1, <2>3
<1>4. ASSUME NEW w \in Workers, DispatcherStep(w) PROVE Covered(e, r)'
  BY <1>4, WorkerCovers DEF DispatcherStep, Sheltered
<1>5. CASE Stop
  BY <1>1, <1>5 DEF Stop, Shutdown, Waiting
<1>6. CASE Restart
  <2>1. \A w \in Workers : pc[w] = "exited"
    BY <1>6 DEF Restart, Sheltered, AllExited
  <2>2. queue = <<>> /\ \A s \in Sites : hook[s] = <<>>
    BY <2>1 DEF Sheltered, Sound, Closing
  <2>3. ~Waiting(e)
    <3>1. <<>> # <<e>> OBVIOUS
    <3> QED BY <2>2, <3>1 DEF Waiting
  <2>4. key \in DOMAIN ledger BY <2>1, <2>3 DEF Covered, Pending, Has, Busy
  <2> QED BY <1>6, <2>4 DEF Restart, NewProcess, Covered, KeyOf
<1>7. CASE UNCHANGED vars BY <1>1, <1>7 DEF vars, dvars, Waiting
<1> QED BY <1>2, <1>3, <1>4, <1>5, <1>6, <1>7 DEF Next

\* What a tick announces is covered at once.
LEMMA TickWaits ==
    ASSUME Typed, NEW s \in Sites, NEW o \in Outcomes, Tick(s, o),
           NEW e \in Event, e = EventOf(s, db[s], o)
    PROVE  /\ e.site = s /\ hook'[s] = <<e>>
           /\ \A r : Covered(e, r)'
<1>1. db[s] \in S!DB /\ o \in S!Outcome BY AlertingAssumption DEF Typed, SitesTyped
<1>2. e.site = s BY <1>1, EventFields
<1>3. hook' = [hook EXCEPT ![s] = <<e>>] /\ DOMAIN hook = Sites
  BY DEF Tick, Typed, SitesTyped
<1>4. hook'[s] = <<e>> BY <1>3
<1>5. \A r : Covered(e, r)' BY <1>2, <1>4 DEF Covered, Pending, Waiting
<1> QED BY <1>2, <1>4, <1>5

-----------------------------------------------------------------------------
\* Every down rule fires on the first failure (confirm_after is 0 or 1).
FirstFailureRules == \A r \in Rules : r.kind = "down" => Threshold(r) = 1

\* What one tick says, in terms of the rows it leaves.
LEMMA TickSays ==
    ASSUME Typed, Sound, NEW s \in Sites, NEW o \in Outcomes, Tick(s, o)
    PROVE  LET old == db[s].incidents
               new == db'[s].incidents
               n == Len(old)
           IN
           \E e \in Event :
               /\ e = EventOf(s, db[s], o)
               /\ n \in Nat /\ DOMAIN old = 1..n
               /\ DOMAIN new = 1..n \/ DOMAIN new = 1..(n + 1)
               /\ n + 1 \in DOMAIN new =>
                    Opened(s, n + 1, e) /\ new[n + 1].resolved_at = S!NULL
               /\ db'[s].state.ssl_expires_at \in NearExpiry =>
                    \/ db'[s].state.ssl_expires_at = db[s].state.ssl_expires_at
                    \/ Expires(s, db'[s].state.ssl_expires_at, e)
<1> DEFINE d == db[s]
           n == Len(d.incidents)
           t == S!RecordTick(d, Len(d.results), o)
<1>1. d \in S!DB /\ o \in S!Outcome BY AlertingAssumption DEF Typed, SitesTyped
<1>2. /\ d.state.current_up \in {-1, 0, 1} /\ d.state.consecutive_failures \in Nat
      /\ n \in Nat /\ DOMAIN d.incidents = 1..n /\ Len(d.results) \in Nat
      /\ o.up \in BOOLEAN /\ o.sslExpiresAt \in Nat /\ o.sslChecked \in BOOLEAN
  <2>1. d.incidents \in Seq(S!IncidentRow) /\ d.results \in Seq(S!ResultRow) BY <1>1 DEF S!DB
  <2> QED BY <1>1, <2>1 DEF S!DB, S!StateRow, S!Nullable, S!NULL, S!Outcome
<1>3. d.state.current_up = 0 <=> d.state.consecutive_failures > 0 BY DEF Sound, Counters
<1>4. db'[s] = t
  <2>1. db' = [db EXCEPT ![s] = t] /\ DOMAIN db = Sites BY DEF Tick, Typed, SitesTyped
  <2> HIDE DEF t
  <2> QED BY <2>1
<1>5. /\ t.state.ssl_expires_at =
           IF ~o.sslChecked THEN d.state.ssl_expires_at
           ELSE IF o.sslExpiresAt > 0 THEN o.sslExpiresAt ELSE S!NULL
      /\ DOMAIN t.incidents = 1..(n + (IF S!Opens(d.state, o) THEN 1 ELSE 0))
      /\ S!Opens(d.state, o) => t.incidents[n + 1].resolved_at = S!NULL
  BY <1>1, <1>2, TickEffect
<1>6. PICK e \in Event : e = EventOf(s, d, o) BY <1>1, EventFields
<1>7. /\ e.site = s
      /\ e.tr.Up = o.up
      /\ e.tr.IncidentResolved = S!Resolves(d.state, o)
      /\ e.tr.IncidentID = (IF S!Opens(d.state, o) THEN n + 1
                            ELSE IF S!Resolves(d.state, o) THEN d.state.current_incident_id
                            ELSE 0)
      /\ e.tr.ConsecutiveFailures = (IF o.up THEN 0 ELSE d.state.consecutive_failures + 1)
      /\ e.tr.SSLChecked = o.sslChecked
      /\ e.tr.SSLExpiresAt = o.sslExpiresAt
  BY <1>1, <1>6, EventFields
<1>8. /\ S!Opens(d.state, o) <=> ~o.up /\ d.state.current_up \in {-1, 1}
      /\ S!Resolves(d.state, o) => o.up
  BY DEF S!Opens, S!Resolves, S!Recovers, S!NULL
<1> HIDE DEF d, n, t
<1>9. DOMAIN t.incidents = 1..n \/ DOMAIN t.incidents = 1..(n + 1)
  BY <1>2, <1>5
<1>10. n + 1 \in DOMAIN t.incidents => S!Opens(d.state, o)
  BY <1>2, <1>5
<1>11. S!Opens(d.state, o) => Opened(s, n + 1, e)
  BY <1>2, <1>3, <1>7, <1>8 DEF Opened
<1>12. t.state.ssl_expires_at \in NearExpiry =>
         \/ t.state.ssl_expires_at = d.state.ssl_expires_at
         \/ Expires(s, t.state.ssl_expires_at, e)
  <2>1. S!NULL \notin NearExpiry BY DispatcherAssumption DEF S!NULL
  <2> QED BY <1>5, <1>7, <2>1 DEF Expires
<1> QED
  BY <1>2, <1>4, <1>5, <1>6, <1>9, <1>10, <1>11, <1>12 DEF d, n

\* Only a tick writes to the site databases.
LEMMA OnlyTicksWrite ==
    ASSUME Typed, [Next]_vars
    PROVE  \/ UNCHANGED db
           \/ \E s \in Sites, o \in Outcomes :
                Tick(s, o) /\ \A x \in Sites : x # s => db'[x] = db[x]
<1>1. ASSUME NEW s \in Sites, NEW o \in Outcomes, Tick(s, o)
      PROVE  \A x \in Sites : x # s => db'[x] = db[x]
  <2> DEFINE t == S!RecordTick(db[s], Len(db[s].results), o)
  <2>1. db' = [db EXCEPT ![s] = t] /\ DOMAIN db = Sites
    BY <1>1 DEF Tick, Typed, SitesTyped
  <2> HIDE DEF t
  <2> QED BY <2>1
<1>2. ASSUME NEW s \in Sites, Hook(s) PROVE UNCHANGED db BY <1>2 DEF Hook
<1>3. ASSUME NEW w \in Workers, DispatcherStep(w) PROVE UNCHANGED db
  BY <1>3 DEF DispatcherStep
<1>4. Stop \/ Restart \/ UNCHANGED vars => UNCHANGED db BY DEF Stop, Restart, vars
<1> QED BY <1>1, <1>2, <1>3, <1>4 DEF Next

LEMMA NextDowns ==
    ASSUME Typed, Kept, Sound, Sheltered, FirstFailureRules, DownsCovered,
           [Next]_vars, dropped' = 0
    PROVE  DownsCovered'
<1>1. ASSUME NEW s \in Sites, NEW i \in DOMAIN db[s].incidents, NEW r \in RulesFor(s, "down")
      PROVE  \E e \in Event : Opened(s, i, e) /\ Covered(e, r)'
  <2>1. PICK e \in Event : Opened(s, i, e) /\ Covered(e, r) BY <1>1 DEF DownsCovered
  <2>2. Due(e, r) /\ Fires(e, r)
    BY <2>1 DEF Opened, Due, RulesFor, KindsFor, Kinds, Fires, DownFires, FirstFailureRules
  <2>3. Covered(e, r)' BY <2>1, <2>2, StepCovers
  <2> QED BY <2>1, <2>3
<1>2. ASSUME NEW s \in Sites, NEW i \in DOMAIN db'[s].incidents, NEW r \in RulesFor(s, "down")
      PROVE  \E e \in Event : Opened(s, i, e) /\ Covered(e, r)'
  <2>1. CASE i \in DOMAIN db[s].incidents BY <1>1, <2>1
  <2>2. CASE i \notin DOMAIN db[s].incidents
    <3>1. PICK o \in Outcomes : Tick(s, o) BY <2>2, OnlyTicksWrite
    <3>2. PICK e \in Event :
             /\ e = EventOf(s, db[s], o)
             /\ DOMAIN db[s].incidents = 1..Len(db[s].incidents) /\ Len(db[s].incidents) \in Nat
             /\ \/ DOMAIN db'[s].incidents = 1..Len(db[s].incidents)
                \/ DOMAIN db'[s].incidents = 1..(Len(db[s].incidents) + 1)
             /\ Len(db[s].incidents) + 1 \in DOMAIN db'[s].incidents =>
                  Opened(s, Len(db[s].incidents) + 1, e)
      BY <3>1, TickSays
    <3>3. i = Len(db[s].incidents) + 1 BY <1>2, <2>2, <3>2
    <3>4. Covered(e, r)' BY <3>1, <3>2, TickWaits
    <3> QED BY <1>2, <3>2, <3>3, <3>4
  <2> QED BY <2>1, <2>2
<1> QED BY <1>2 DEF DownsCovered, Opened, RulesFor

LEMMA NextCertificates ==
    ASSUME Typed, Kept, Sound, Sheltered, CertificatesCovered, [Next]_vars, dropped' = 0
    PROVE  CertificatesCovered'
<1>1. ASSUME NEW s \in Sites, NEW r \in RulesFor(s, "ssl"), NEW x,
             x = db'[s].state.ssl_expires_at, x \in NearExpiry
      PROVE  \E e \in Event : Expires(s, x, e) /\ Covered(e, r)'
  <2>1. CASE x = db[s].state.ssl_expires_at
    <3>1. PICK e \in Event : Expires(s, x, e) /\ Covered(e, r)
      BY <1>1, <2>1 DEF CertificatesCovered
    <3>2. Due(e, r) /\ Fires(e, r)
      BY <1>1, <3>1 DEF Expires, Due, RulesFor, KindsFor, Kinds, Fires, SslFires
    <3>3. Covered(e, r)' BY <3>1, <3>2, StepCovers
    <3> QED BY <3>1, <3>3
  <2>2. CASE x # db[s].state.ssl_expires_at
    <3>1. PICK o \in Outcomes : Tick(s, o) BY <1>1, <2>2, OnlyTicksWrite
    <3>2. PICK e \in Event : e = EventOf(s, db[s], o) /\ Expires(s, x, e)
      BY <1>1, <2>2, <3>1, TickSays
    <3>3. Covered(e, r)' BY <3>1, <3>2, TickWaits
    <3> QED BY <3>2, <3>3
  <2> QED BY <2>1, <2>2
<1> QED BY <1>1 DEF CertificatesCovered, Expires, RulesFor

-----------------------------------------------------------------------------
LEMMA InitCovered == Init => DownsCovered /\ CertificatesCovered
<1> SUFFICES ASSUME Init PROVE DownsCovered /\ CertificatesCovered
  OBVIOUS
<1>1. S!NewDB.incidents = <<>> /\ S!NewDB.state.ssl_expires_at = -1
  BY DEF S!NewDB, S!NULL
<1>2. \A s \in Sites : DOMAIN db[s].incidents = {} /\ db[s].state.ssl_expires_at = -1
  <2>1. DOMAIN S!NewDB.incidents = {} BY <1>1
  <2>2. \A s \in Sites : db[s] = S!NewDB BY DEF Init
  <2> HIDE DEF S!NewDB
  <2> QED BY <1>1, <2>1, <2>2
<1>3. \A s \in Sites : db[s].state.ssl_expires_at \notin NearExpiry
  <2>1. -1 \notin NearExpiry BY DispatcherAssumption
  <2> QED BY <1>2, <2>1
<1> QED BY <1>2, <1>3 DEF DownsCovered, CertificatesCovered

\* Once nothing is under way, what is covered is in the ledger.
LEMMA QuietCovers ==
    ASSUME Typed, Quiet, NEW e \in Event, NEW r, Covered(e, r)
    PROVE  /\ KeyOf(r.kind, e, r.channel) \in DOMAIN ledger
           /\ KeyOf(r.kind, e, r.channel) \in DOMAIN mail
<1>1. ~Waiting(e)
  <2>1. <<>> # <<e>> /\ DOMAIN queue = {} BY DEF Quiet
  <2> QED BY <2>1 DEF Quiet, Waiting
<1>2. \A w \in Workers : ~Has(w, e, r) BY DEF Quiet, Has, Busy
<1>3. DOMAIN mail = DOMAIN ledger BY DEF Typed, LedgerTyped
<1> QED BY <1>1, <1>2, <1>3 DEF Covered, Pending

\* The dispatcher has dropped no event since the process started.
Lossless == dropped = 0

(***************************************************************************)
(* Every outage is taken up for every down rule of its site, if each such  *)
(* rule fires on the first failure and nothing is lost.                    *)
(***************************************************************************)
THEOREM DownAnnounced ==
    ASSUME Sheltered, FirstFailureRules
    PROVE  Spec /\ []Lossless => []DownIsAnnounced
<1>1. Typed /\ Kept /\ Sound /\ DownsCovered /\ [Next]_vars /\ Lossless' => DownsCovered'
  BY NextDowns DEF Lossless
<1>2. Typed /\ Sound /\ DownsCovered => DownIsAnnounced
  <2> SUFFICES ASSUME Typed, Sound, DownsCovered, Quiet,
                      NEW s \in Sites, NEW i \in DOMAIN db[s].incidents,
                      NEW r \in RulesFor(s, "down")
               PROVE  Claimed("down", s, i, r.channel)
    BY DEF DownIsAnnounced
  <2>1. PICK e \in Event : Opened(s, i, e) /\ Covered(e, r) BY DEF DownsCovered
  <2>2. r.kind = "down" BY DEF RulesFor
  <2> DEFINE k == KeyOf("down", e, r.channel)
  <2>3. k \in DOMAIN mail BY <2>1, <2>2, QuietCovers
  <2>4. k.kind = "down" /\ k.site = s /\ k.channel = r.channel /\ k.n = i
    BY <2>1 DEF KeyOf, Opened
  <2>5. i # 0
    <3>1. db[s] \in S!DB BY DEF Typed, SitesTyped
    <3>2. db[s].incidents \in Seq(S!IncidentRow) BY <3>1 DEF S!DB
    <3> QED BY <3>2
  <2> HIDE DEF k
  <2>6. mail[k].about = i BY <2>3, <2>4, <2>5 DEF Sound, KeyRight
  <2> QED BY <2>3, <2>4, <2>6 DEF Claimed
<1> QED BY <1>1, <1>2, InitCovered, AlwaysTyped, AlwaysKept, AlwaysSound, PTL DEF Spec

(***************************************************************************)
(* The certificate a site presents, if near its expiry, is taken up for    *)
(* every ssl rule of the site, if nothing is lost.                         *)
(***************************************************************************)
THEOREM CertificateAnnounced ==
    ASSUME Sheltered
    PROVE  Spec /\ []Lossless => []CertificateIsAnnounced
<1>1. Typed /\ Kept /\ Sound /\ CertificatesCovered /\ [Next]_vars /\ Lossless'
        => CertificatesCovered'
  BY NextCertificates DEF Lossless
<1>2. Typed /\ Sound /\ CertificatesCovered => CertificateIsAnnounced
  <2> SUFFICES ASSUME Typed, Sound, CertificatesCovered, Quiet,
                      NEW s \in Sites, NEW r \in RulesFor(s, "ssl"),
                      NEW x, x = db[s].state.ssl_expires_at, x \in NearExpiry
               PROVE  Claimed("ssl", s, x, r.channel)
    BY DEF CertificateIsAnnounced
  <2>1. PICK e \in Event : Expires(s, x, e) /\ Covered(e, r) BY DEF CertificatesCovered
  <2>2. r.kind = "ssl" BY DEF RulesFor
  <2> DEFINE k == KeyOf("ssl", e, r.channel)
  <2>3. k \in DOMAIN mail BY <2>1, <2>2, QuietCovers
  <2>4. k.kind = "ssl" /\ k.site = s /\ k.channel = r.channel /\ k.n = x
    BY <2>1 DEF KeyOf, Expires
  <2> HIDE DEF k
  <2>5. mail[k].about = x BY <2>3, <2>4 DEF Sound, KeyRight
  <2> QED BY <2>3, <2>4, <2>5 DEF Claimed
<1> QED BY <1>1, <1>2, InitCovered, AlwaysTyped, AlwaysKept, AlwaysSound, PTL DEF Spec
=============================================================================

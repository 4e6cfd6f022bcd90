----------------------------- MODULE Dispatcher -----------------------------
(***************************************************************************)
(* internal/alerts: the bounded queue, the worker pool, and the deliveries *)
(* table that is both the send log and the deduplication ledger.           *)
(*                                                                         *)
(* A worker reads the rules, decides whether one fires, claims the dedupe  *)
(* key, sends with bounded retries and records the outcome: each is a step *)
(* of its own, because the workers share the ledger and the process may    *)
(* die between any two.  The queue and the workers die with the process;   *)
(* the ledger and the mail already accepted do not.                        *)
(***************************************************************************)
EXTENDS Integers, Sequences

CONSTANTS
    Sites, Channels,
    Workers,     \* Options.Workers goroutines
    QueueSize,   \* Options.QueueSize, capacity of the channel
    Retries,     \* Options.Retries, attempts beyond the first
    Rules,       \* the enabled rules on enabled channels, records of Rule
    NearExpiry,  \* the expiry times that are within the site's warn_days
    Replies,     \* how the relay may answer: "ok", "refused", "lost"
    DbFails      \* whether a statement on the registry may fail

Kinds == {"down", "up", "ssl"}

AnySite == "*"   \* a rule whose site_id is NULL

Rule == [kind : Kinds, site : Sites \cup {AnySite}, channel : Channels, confirm : Nat]

ASSUME DispatcherAssumption ==
    /\ QueueSize \in Nat \ {0}
    /\ Retries \in Nat
    /\ Rules \subseteq Rule
    /\ NearExpiry \subseteq Nat
    /\ DbFails \in BOOLEAN

\* storage.Transition, as far as alerting reads it.
Transition == [Up : BOOLEAN, IncidentResolved : BOOLEAN, IncidentID : Nat,
               ConsecutiveFailures : Nat, SSLChecked : BOOLEAN, SSLExpiresAt : Nat]

\* alerts.Event.  `outage' is a history field no code reads: the incident the
\* tick belongs to, whatever IncidentID says (0 when it belongs to none).
Event == [site : Sites, tr : Transition, outage : Nat]

\* The dedupe key "<kind>:<site>:<incident or expiry>:<channel>".
Key == [kind : Kinds, site : Sites, n : Nat, channel : Channels]

VARIABLES
    queue,      \* the channel of events
    closed,     \* Shutdown has closed done and queue
    dropped,    \* events discarded because the queue was full
    pc,         \* pc[w]: where worker w is
    work,       \* work[w]: the event it handles, and the kinds and rules left
    sending,    \* sending[w]: the key it is claiming or delivering, the attempt
    ledger,     \* the rows of alert_deliveries, by dedupe key
    mail        \* history, by dedupe key: sends tried, sends the relay
                \* accepted, and the outage or expiry the text was about

dvars == <<queue, closed, dropped, pc, work, sending, ledger, mail>>

Delivering == {"send", "backoff", "mark_sent", "mark_failed"}

Idle == [event |-> <<>>, kinds |-> {}, rules |-> {}]
NoKey == [key |-> <<>>, attempt |-> 0]

DispatcherInit ==
    /\ queue = <<>>
    /\ closed = FALSE
    /\ dropped = 0
    /\ pc = [w \in Workers |-> "idle"]
    /\ work = [w \in Workers |-> Idle]
    /\ sending = [w \in Workers |-> NoKey]
    /\ ledger = <<>>
    /\ mail = <<>>

-----------------------------------------------------------------------------
HasRoomOffByOne == Len(queue) <= QueueSize

HasRoom == Len(queue) < QueueSize

\* Enqueue never blocks.  After Shutdown the send on the closed channel
\* panics and the tick's recover swallows it: nothing changes.
Enqueue(e) ==
    /\ ~closed
    /\ IF HasRoom
       THEN queue' = Append(queue, e) /\ UNCHANGED dropped
       ELSE dropped' = dropped + 1 /\ UNCHANGED queue
    /\ UNCHANGED <<closed, pc, work, sending, ledger, mail>>

\* kindsFor.
KindsFor(tr) ==
    {k \in Kinds :
        \/ k = "down" /\ ~tr.Up /\ tr.ConsecutiveFailures > 0
        \/ k = "up"   /\ tr.IncidentResolved
        \/ k = "ssl"  /\ tr.SSLChecked /\ tr.SSLExpiresAt > 0}

Take(w) ==
    /\ pc[w] = "idle"
    /\ queue # <<>>
    /\ queue' = Tail(queue)
    /\ work' = [work EXCEPT ![w] = [event |-> Head(queue),
                                    kinds |-> KindsFor(Head(queue).tr),
                                    rules |-> {}]]
    /\ pc' = [pc EXCEPT ![w] = "kinds"]
    /\ UNCHANGED <<closed, dropped, sending, ledger, mail>>

RulesFor(site, kind) ==
    {r \in Rules : r.kind = kind /\ r.site \in {AnySite, site}}

\* handle takes the kinds, and their rules, in a fixed order; here in any.  A
\* failed query skips its kind.
LoadRules(w) ==
    /\ pc[w] = "kinds"
    /\ \E k \in work[w].kinds :
        \/ work' = [work EXCEPT ![w].kinds = @ \ {k},
                               ![w].rules = RulesFor(work[w].event.site, k)]
        \/ DbFails /\ work' = [work EXCEPT ![w].kinds = @ \ {k}]
    /\ pc' = [pc EXCEPT ![w] = "rules"]
    /\ UNCHANGED <<queue, closed, dropped, sending, ledger, mail>>

\* handle returns.
Handled(w) ==
    /\ pc[w] = "kinds"
    /\ work[w].kinds = {}
    /\ work' = [work EXCEPT ![w] = Idle]
    /\ pc' = [pc EXCEPT ![w] = "idle"]
    /\ UNCHANGED <<queue, closed, dropped, sending, ledger, mail>>

RulesDone(w) ==
    /\ pc[w] = "rules"
    /\ work[w].rules = {}
    /\ pc' = [pc EXCEPT ![w] = "kinds"]
    /\ UNCHANGED <<queue, closed, dropped, work, sending, ledger, mail>>

-----------------------------------------------------------------------------
KeyOf(kind, e, ch) ==
    [kind |-> kind, site |-> e.site, channel |-> ch,
     n |-> IF kind = "ssl" THEN e.tr.SSLExpiresAt ELSE e.tr.IncidentID]

\* ConfirmAfter below 1 counts as 1.
Threshold(r) == IF r.confirm < 1 THEN 1 ELSE r.confirm

\* DeliveryExists: a row of any status counts.
DeliveryExists(k) == k \in DOMAIN ledger

\* render: does rule r fire on event e?
DownFiresLate(e, r) == e.tr.ConsecutiveFailures = Threshold(r) + 1

DownFiresFrom(e, r) == e.tr.ConsecutiveFailures >= Threshold(r)

DownFires(e, r) == e.tr.ConsecutiveFailures = Threshold(r)

UpFiresAlways(e, r) == TRUE

UpFires(e, r) == DeliveryExists(KeyOf("down", e, r.channel))

SslFiresWhenFar(e, r) == e.tr.SSLExpiresAt \notin NearExpiry

SslFires(e, r) == e.tr.SSLExpiresAt \in NearExpiry

Fires(e, r) ==
    \/ r.kind = "down" /\ DownFires(e, r)
    \/ r.kind = "up"   /\ UpFires(e, r)
    \/ r.kind = "ssl"  /\ SslFires(e, r)

\* applyRule up to the claim: the channel is read again and the rule rendered.
\* A failed read, or a channel deleted since the rules were loaded, skips it.
Render(w) ==
    /\ pc[w] = "rules"
    /\ \E r \in work[w].rules :
        /\ work' = [work EXCEPT ![w].rules = @ \ {r}]
        /\ \/ /\ Fires(work[w].event, r)
              /\ sending' = [sending EXCEPT ![w] =
                    [key |-> KeyOf(r.kind, work[w].event, r.channel), attempt |-> 1]]
              /\ pc' = [pc EXCEPT ![w] = "claim"]
           \/ /\ ~Fires(work[w].event, r) \/ DbFails
              /\ UNCHANGED <<pc, sending>>
    /\ UNCHANGED <<queue, closed, dropped, ledger, mail>>

\* The worker is done with this rule.
NextRule(w) ==
    /\ pc' = [pc EXCEPT ![w] = "rules"]
    /\ sending' = [sending EXCEPT ![w] = NoKey]
    /\ UNCHANGED <<queue, closed, dropped, work>>

About(w) ==
    IF sending[w].key.kind = "ssl" THEN sending[w].key.n ELSE work[w].event.outage

UnclaimedAlways(k) == TRUE

UnclaimedOrFailed(k) == k \in DOMAIN ledger => ledger[k].status = "failed"

\* The UNIQUE index on dedupe_key.
Unclaimed(k) == k \notin DOMAIN ledger

\* ClaimDelivery: the INSERT succeeds, or violates UNIQUE (ErrDeliveryClaimed),
\* or fails; only the first goes on to deliver.
ClaimWins(w) ==
    LET k == sending[w].key IN
    /\ pc[w] = "claim"
    /\ Unclaimed(k)
    /\ ledger' = [j \in DOMAIN ledger \cup {k} |->
                    IF j = k THEN [status |-> "pending", attempts |-> 0] ELSE ledger[j]]
    /\ mail' = [j \in DOMAIN mail \cup {k} |->
                    IF j = k THEN [tries |-> 0, accepted |-> 0, about |-> About(w)]
                    ELSE mail[j]]
    /\ pc' = [pc EXCEPT ![w] = "send"]
    /\ UNCHANGED <<queue, closed, dropped, work, sending>>

ClaimLoses(w) ==
    /\ pc[w] = "claim"
    /\ ~Unclaimed(sending[w].key) \/ DbFails
    /\ NextRule(w)
    /\ UNCHANGED <<ledger, mail>>

-----------------------------------------------------------------------------
AfterAttemptIgnoringError(w, reply) == "mark_sent"

AfterAttempt(w, reply) ==
    IF reply = "ok" THEN "mark_sent"
    ELSE IF sending[w].attempt <= Retries THEN "backoff"
    ELSE "mark_failed"

\* One attempt.  "lost": the relay accepted the message and the exchange then
\* failed (Send returns the error of QUIT), so the sender sees a failure.
Attempt(w, reply) ==
    LET k == sending[w].key IN
    /\ pc[w] = "send"
    /\ mail' = [mail EXCEPT ![k].tries = @ + 1,
                            ![k].accepted = IF reply = "refused" THEN @ ELSE @ + 1]
    /\ pc' = [pc EXCEPT ![w] = AfterAttempt(w, reply)]
    /\ UNCHANGED <<queue, closed, dropped, work, sending, ledger>>

\* The backoff timer fires.
Retry(w) ==
    /\ pc[w] = "backoff"
    /\ sending' = [sending EXCEPT ![w].attempt = @ + 1]
    /\ pc' = [pc EXCEPT ![w] = "send"]
    /\ UNCHANGED <<queue, closed, dropped, work, ledger, mail>>

\* Shutdown interrupts the backoff: no further attempt is made.
CutShort(w) ==
    /\ pc[w] = "backoff"
    /\ closed
    /\ pc' = [pc EXCEPT ![w] = "mark_failed"]
    /\ UNCHANGED <<queue, closed, dropped, work, sending, ledger, mail>>

\* The row an outcome leaves; MarkDeliveryFailed is always passed retries+1.
Outcome(w) ==
    IF pc[w] = "mark_sent" THEN [status |-> "sent", attempts |-> sending[w].attempt]
                           ELSE [status |-> "failed", attempts |-> Retries + 1]

\* MarkDeliverySent or MarkDeliveryFailed; an error is only logged.
Mark(w) ==
    /\ pc[w] \in {"mark_sent", "mark_failed"}
    /\ \/ ledger' = [ledger EXCEPT ![sending[w].key] = Outcome(w)]
       \/ DbFails /\ UNCHANGED ledger
    /\ NextRule(w)
    /\ UNCHANGED mail

-----------------------------------------------------------------------------
Shutdown ==
    /\ ~closed
    /\ closed' = TRUE
    /\ UNCHANGED <<queue, dropped, pc, work, sending, ledger, mail>>

QueueLeftOpen == FALSE

\* Shutdown closes the queue along with done.
QueueClosed == closed

\* range over the closed queue ends once it is drained.
Exit(w) ==
    /\ pc[w] = "idle"
    /\ QueueClosed
    /\ queue = <<>>
    /\ pc' = [pc EXCEPT ![w] = "exited"]
    /\ UNCHANGED <<queue, closed, dropped, work, sending, ledger, mail>>

AllExited == \A w \in Workers : pc[w] = "exited"

\* A new process: NewDispatcher over the same registry.
NewProcess ==
    /\ queue' = <<>>
    /\ closed' = FALSE
    /\ dropped' = 0
    /\ pc' = [w \in Workers |-> "idle"]
    /\ work' = [w \in Workers |-> Idle]
    /\ sending' = [w \in Workers |-> NoKey]
    /\ UNCHANGED <<ledger, mail>>

WorkerStep(w) ==
    \/ Take(w) \/ LoadRules(w) \/ Handled(w) \/ RulesDone(w) \/ Render(w)
    \/ ClaimWins(w) \/ ClaimLoses(w)
    \/ \E reply \in Replies : Attempt(w, reply)
    \/ Retry(w) \/ CutShort(w) \/ Mark(w) \/ Exit(w)

-----------------------------------------------------------------------------
DispatcherTypeOK ==
    /\ queue \in Seq(Event) /\ Len(queue) <= QueueSize
    /\ closed \in BOOLEAN
    /\ dropped \in Nat
    /\ pc \in [Workers -> {"idle", "kinds", "rules", "claim", "exited"} \cup Delivering]
    /\ \A w \in Workers :
        /\ pc[w] \notin {"idle", "exited"} => work[w].event \in Event
        /\ work[w].kinds \subseteq Kinds /\ work[w].rules \subseteq Rules
        /\ pc[w] \in {"claim"} \cup Delivering =>
              sending[w].key \in Key /\ sending[w].attempt \in 1..(Retries + 1)
    /\ DOMAIN ledger \subseteq Key
    /\ \A k \in DOMAIN ledger :
        ledger[k] \in [status : {"pending", "sent", "failed"}, attempts : 0..(Retries + 1)]
    /\ DOMAIN mail = DOMAIN ledger
    /\ \A k \in DOMAIN mail : mail[k] \in [tries : Nat, accepted : Nat, about : Nat]

(***************************************************************************)
(* The ledger makes delivery exclusive: two workers are never delivering   *)
(* the same key, and a key being delivered is claimed and not yet settled  *)
(* ("two workers cannot both send the same alert", migrate.go).            *)
(***************************************************************************)
OneDeliverer ==
    \A v, w \in Workers :
        pc[v] \in Delivering =>
            /\ sending[v].key \in DOMAIN ledger
            /\ ledger[sending[v].key].status = "pending"
            /\ pc[w] \in Delivering /\ sending[w].key = sending[v].key => v = w

(***************************************************************************)
(* A key is tried at most Retries + 1 times in the whole life of the       *)
(* ledger: no repeat of an event, no second worker and no restart adds an  *)
(* attempt.                                                                *)
(***************************************************************************)
BoundedTries == \A k \in DOMAIN mail : mail[k].tries <= Retries + 1

(***************************************************************************)
(* The send log tells the truth: a row is sent only if the relay accepted  *)
(* the message, with exactly the attempts made; one that failed was tried. *)
(***************************************************************************)
LogIsTrue ==
    \A k \in DOMAIN ledger :
        /\ ledger[k].status = "sent" =>
              mail[k].accepted >= 1 /\ mail[k].tries = ledger[k].attempts
        /\ ledger[k].status = "failed" => mail[k].tries >= 1

\* A recovery message is claimed only for an outage whose down message was
\* claimed for the same incident and channel.
RecoveryFollowsDown ==
    \A k \in DOMAIN ledger :
        k.kind = "up" => [k EXCEPT !.kind = "down"] \in DOMAIN ledger

\* A settled delivery is never reopened, and nothing more is sent for it.
SettledIsFinal ==
    [][\A k \in DOMAIN ledger :
        /\ k \in DOMAIN ledger'
        /\ ledger[k].status # "pending" => ledger'[k] = ledger[k] /\ mail'[k] = mail[k]]_dvars
=============================================================================

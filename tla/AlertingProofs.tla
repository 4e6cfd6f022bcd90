--------------------------- MODULE AlertingProofs ---------------------------
(***************************************************************************)
(* The ledger of alert deliveries keeps its promise for any number of      *)
(* sites, channels, workers, rules, retries, ticks and restarts.           *)
(*                                                                         *)
(* The argument: a worker that is delivering owns its key, because the key *)
(* was unclaimed when it claimed it and only the owner can settle it; so   *)
(* the attempts the worker counts in a local variable are the attempts     *)
(* ever made for the key.                                                  *)
(***************************************************************************)
EXTENDS Alerting, TLAPS

MailRow(m) ==
    /\ m = [tries |-> m.tries, accepted |-> m.accepted, about |-> m.about]
    /\ m.tries \in Nat /\ m.accepted \in Nat

\* The shape of the variables, as far as the argument needs it.
Shape ==
    /\ DOMAIN mail = DOMAIN ledger
    /\ DOMAIN pc = Workers /\ DOMAIN sending = Workers
    /\ \A w \in Workers :
        /\ sending[w] = [key |-> sending[w].key, attempt |-> sending[w].attempt]
        /\ sending[w].attempt \in Nat
    /\ \A k \in DOMAIN mail : MailRow(mail[k])

\* What a worker knows of the key it is at: the attempts made are those it
\* has counted, and a recovery follows a claimed outage.
Knows(w) ==
    LET k == sending[w].key
        n == sending[w].attempt
    IN  /\ pc[w] = "claim" =>
            /\ n = 1
            /\ k.kind = "up" => [k EXCEPT !.kind = "down"] \in DOMAIN ledger
        /\ pc[w] = "send" => mail[k].tries = n - 1 /\ n <= Retries + 1
        /\ pc[w] = "backoff" => mail[k].tries = n /\ n <= Retries
        /\ pc[w] \in {"mark_sent", "mark_failed"} => mail[k].tries = n /\ n <= Retries + 1
        /\ pc[w] \in {"backoff", "mark_sent", "mark_failed"} => n >= 1
        /\ pc[w] = "mark_sent" => mail[k].accepted >= 1

Kept ==
    /\ Shape
    /\ OneDeliverer
    /\ \A w \in Workers : Knows(w)
    /\ BoundedTries
    /\ LogIsTrue
    /\ RecoveryFollowsDown

LEMMA InitKept == Init => Kept
<1> SUFFICES ASSUME Init PROVE Kept OBVIOUS
<1>1. DispatcherInit BY DEF Init
<1>2. DOMAIN ledger = {} /\ DOMAIN mail = {} BY <1>1 DEF DispatcherInit
<1>3. \A w \in Workers : pc[w] = "idle" BY <1>1 DEF DispatcherInit
<1>4. Shape BY <1>1, <1>2 DEF DispatcherInit, Shape, NoKey
<1>5. OneDeliverer BY <1>3 DEF OneDeliverer, Delivering
<1>6. \A w \in Workers : Knows(w) BY <1>3 DEF Knows
<1> QED BY <1>2, <1>4, <1>5, <1>6 DEF Kept, BoundedTries, LogIsTrue, RecoveryFollowsDown

\* A worker that neither delivers nor claims, before or after, disturbs nothing.
LEMMA QuietStepKeeps ==
    ASSUME Kept, NEW w \in Workers, NEW here, UNCHANGED <<sending, ledger, mail>>,
           pc' = [pc EXCEPT ![w] = here], here \in {"idle", "kinds", "rules", "exited"}
    PROVE  Kept'
<1>1. \A v \in Workers : v # w => pc'[v] = pc[v] BY DEF Kept, Shape
<1>2. pc'[w] = here BY DEF Kept, Shape
<1>3. Shape' BY DEF Kept, Shape
<1>4. OneDeliverer' BY <1>1, <1>2 DEF Kept, OneDeliverer, Delivering
<1>5. \A v \in Workers : Knows(v)'
  <2> TAKE v \in Workers
  <2>1. CASE v = w BY <1>2, <2>1 DEF Knows
  <2>2. CASE v # w BY <1>1, <2>2 DEF Kept, Knows
  <2> QED BY <2>1, <2>2
<1> QED
  BY <1>3, <1>4, <1>5 DEF Kept, BoundedTries, LogIsTrue, RecoveryFollowsDown

LEMMA RenderKeeps ==
    ASSUME Kept, NEW w \in Workers, Render(w)
    PROVE  Kept'
<1>1. CASE UNCHANGED <<pc, sending>>
  <2>1. Shape' /\ OneDeliverer' BY <1>1 DEF Render, Kept, Shape, OneDeliverer
  <2>2. \A v \in Workers : Knows(v)' BY <1>1 DEF Render, Kept, Knows
  <2> QED BY <2>1, <2>2 DEF Render, Kept, BoundedTries, LogIsTrue, RecoveryFollowsDown
<1>2. ASSUME NEW r \in work[w].rules, Fires(work[w].event, r),
             sending' = [sending EXCEPT ![w] =
                [key |-> KeyOf(r.kind, work[w].event, r.channel), attempt |-> 1]],
             pc' = [pc EXCEPT ![w] = "claim"]
      PROVE  Kept'
  <2> DEFINE e == work[w].event
             k == KeyOf(r.kind, e, r.channel)
  <2>1. UNCHANGED <<ledger, mail>> BY DEF Render
  <2>2. /\ pc'[w] = "claim" /\ sending'[w] = [key |-> k, attempt |-> 1]
        /\ \A v \in Workers : v # w => pc'[v] = pc[v] /\ sending'[v] = sending[v]
        /\ DOMAIN pc' = Workers /\ DOMAIN sending' = Workers
    BY <1>2 DEF Kept, Shape
  <2>3. Shape' BY <2>1, <2>2 DEF Kept, Shape
  <2>4. OneDeliverer' BY <2>1, <2>2 DEF Kept, OneDeliverer, Delivering
  <2>5. k.kind = "up" => [k EXCEPT !.kind = "down"] \in DOMAIN ledger
    <3> SUFFICES ASSUME r.kind = "up" PROVE [k EXCEPT !.kind = "down"] \in DOMAIN ledger
      BY DEF KeyOf
    <3>1. KeyOf("down", e, r.channel) \in DOMAIN ledger
      BY <1>2 DEF Fires, UpFires, DeliveryExists
    <3>2. [k EXCEPT !.kind = "down"] = KeyOf("down", e, r.channel) BY DEF KeyOf
    <3> QED BY <3>1, <3>2
  <2>6. \A v \in Workers : Knows(v)'
    <3> TAKE v \in Workers
    <3>1. CASE v = w BY <2>1, <2>2, <2>5, <3>1 DEF Knows
    <3>2. CASE v # w BY <2>1, <2>2, <3>2 DEF Kept, Knows
    <3> QED BY <3>1, <3>2
  <2> QED
    BY <2>1, <2>3, <2>4, <2>6 DEF Kept, BoundedTries, LogIsTrue, RecoveryFollowsDown
<1> QED BY <1>1, <1>2 DEF Render

\* Claiming: the key is new, so nobody else is delivering it.
LEMMA ClaimWinsKeeps ==
    ASSUME Kept, NEW w \in Workers, ClaimWins(w)
    PROVE  Kept'
<1> DEFINE k == sending[w].key
<1>1. /\ pc[w] = "claim" /\ k \notin DOMAIN ledger
      /\ UNCHANGED sending
      /\ pc' = [pc EXCEPT ![w] = "send"]
  BY DEF ClaimWins, Unclaimed
<1>2. /\ DOMAIN ledger' = DOMAIN ledger \cup {k} /\ DOMAIN mail' = DOMAIN mail \cup {k}
      /\ ledger'[k] = [status |-> "pending", attempts |-> 0]
      /\ mail'[k] = [tries |-> 0, accepted |-> 0, about |-> About(w)]
  BY DEF ClaimWins
<1>3. \A j \in DOMAIN ledger : ledger'[j] = ledger[j] /\ mail'[j] = mail[j]
  BY <1>1 DEF ClaimWins, Kept, Shape
<1>4. pc'[w] = "send" /\ \A v \in Workers : v # w => pc'[v] = pc[v]
  BY <1>1 DEF Kept, Shape
<1>5. \A v \in Workers : pc[v] \in Delivering => sending[v].key \in DOMAIN ledger
  BY DEF Kept, OneDeliverer
<1>6. Shape'
  <2>1. MailRow(mail'[k]) BY <1>2 DEF MailRow
  <2>2. \A j \in DOMAIN mail : MailRow(mail'[j]) BY <1>2, <1>3 DEF Kept, Shape, MailRow
  <2>3. \A j \in DOMAIN mail' : MailRow(mail'[j]) BY <1>2, <2>1, <2>2
  <2>4. DOMAIN mail' = DOMAIN ledger' BY <1>2 DEF Kept, Shape
  <2>5. DOMAIN pc' = Workers BY <1>1 DEF Kept, Shape
  <2> QED BY <1>1, <2>3, <2>4, <2>5 DEF Kept, Shape
<1>7. OneDeliverer'
  <2> SUFFICES ASSUME NEW u \in Workers, NEW v \in Workers, pc'[u] \in Delivering
               PROVE  /\ sending[u].key \in DOMAIN ledger'
                      /\ ledger'[sending[u].key].status = "pending"
                      /\ pc'[v] \in Delivering /\ sending[v].key = sending[u].key => u = v
    BY <1>1 DEF OneDeliverer
  <2>1. CASE u = w BY <1>1, <1>2, <1>4, <1>5, <2>1
  <2>2. CASE u # w
    <3>1. /\ pc[u] \in Delivering /\ sending[u].key \in DOMAIN ledger
          /\ ledger[sending[u].key].status = "pending"
      BY <1>4, <1>5, <2>2 DEF Kept, OneDeliverer
    <3>2. v # w /\ pc'[v] \in Delivering /\ sending[v].key = sending[u].key => u = v
      BY <1>4, <3>1 DEF Kept, OneDeliverer
    <3> QED BY <1>1, <1>2, <1>3, <3>1, <3>2
  <2> QED BY <2>1, <2>2
<1>8. \A v \in Workers : Knows(v)'
  <2> TAKE v \in Workers
  <2>1. CASE v = w BY <1>1, <1>2, <1>4, <2>1, DispatcherAssumption DEF Kept, Knows
  <2>2. CASE v # w
    <3>1. pc'[v] = pc[v] /\ sending'[v] = sending[v] BY <1>1, <1>4, <2>2
    <3>2. CASE pc[v] \in Delivering
      BY <1>3, <1>5, <3>1, <3>2 DEF Kept, Knows, Delivering
    <3>3. CASE pc[v] \notin Delivering
      BY <1>2, <3>1, <3>3 DEF Kept, Knows, Delivering
    <3> QED BY <3>2, <3>3
  <2> QED BY <2>1, <2>2
<1>9. BoundedTries'
  <2> SUFFICES ASSUME NEW j \in DOMAIN mail' PROVE mail'[j].tries <= Retries + 1
    BY DEF BoundedTries
  <2>1. CASE j = k BY <1>2, <2>1, DispatcherAssumption
  <2>2. CASE j # k BY <1>2, <1>3, <2>2 DEF Kept, BoundedTries, Shape
  <2> QED BY <2>1, <2>2
<1>10. LogIsTrue' BY <1>2, <1>3 DEF Kept, LogIsTrue
<1>11. RecoveryFollowsDown'
  <2>1. k.kind = "up" => [k EXCEPT !.kind = "down"] \in DOMAIN ledger
    BY <1>1 DEF Kept, Knows
  <2> QED BY <1>2, <2>1 DEF Kept, RecoveryFollowsDown
<1> QED BY <1>6, <1>7, <1>8, <1>9, <1>10, <1>11 DEF Kept

\* Moving to the next rule without touching the ledger: a lost claim, or an
\* outcome that could not be written.
LEMMA NextRuleKeeps ==
    ASSUME Kept, NEW w \in Workers, NextRule(w), UNCHANGED <<ledger, mail>>
    PROVE  Kept'
<1>1. /\ UNCHANGED <<ledger, mail>>
      /\ pc'[w] = "rules" /\ sending'[w] = NoKey
      /\ \A v \in Workers : v # w => pc'[v] = pc[v] /\ sending'[v] = sending[v]
      /\ DOMAIN pc' = Workers /\ DOMAIN sending' = Workers
  BY DEF NextRule, Kept, Shape
<1>2. Shape' BY <1>1 DEF Kept, Shape, NoKey
<1>3. OneDeliverer' BY <1>1 DEF Kept, OneDeliverer, Delivering
<1>4. \A v \in Workers : Knows(v)'
  <2> TAKE v \in Workers
  <2>1. CASE v = w BY <1>1, <2>1 DEF Knows
  <2>2. CASE v # w BY <1>1, <2>2 DEF Kept, Knows
  <2> QED BY <2>1, <2>2
<1> QED BY <1>1, <1>2, <1>3, <1>4 DEF Kept, BoundedTries, LogIsTrue, RecoveryFollowsDown

-----------------------------------------------------------------------------
\* An attempt adds one to the tries of a key nobody else is delivering.
LEMMA AttemptKeeps ==
    ASSUME Kept, NEW w \in Workers, NEW reply \in Replies, Attempt(w, reply)
    PROVE  Kept'
<1> DEFINE k == sending[w].key
           n == sending[w].attempt
<1>1. /\ pc[w] = "send" /\ UNCHANGED <<sending, ledger>>
      /\ pc' = [pc EXCEPT ![w] = AfterAttempt(w, reply)]
  BY DEF Attempt
<1>2. /\ k \in DOMAIN ledger /\ ledger[k].status = "pending"
      /\ \A v \in Workers : pc[v] \in Delivering /\ sending[v].key = k => v = w
  BY <1>1 DEF Kept, OneDeliverer, Delivering
<1>3. /\ MailRow(mail[k]) /\ mail[k].tries = n - 1 /\ n \in Nat /\ n <= Retries + 1
  BY <1>1, <1>2 DEF Kept, Shape, Knows
<1>4. /\ DOMAIN mail' = DOMAIN mail
      /\ \A j \in DOMAIN mail : j # k => mail'[j] = mail[j]
      /\ mail'[k] = [tries    |-> mail[k].tries + 1,
                     accepted |-> IF reply = "refused" THEN mail[k].accepted
                                  ELSE mail[k].accepted + 1,
                     about    |-> mail[k].about]
  BY <1>2, <1>3 DEF Attempt, Kept, Shape, MailRow
<1>5. pc'[w] = AfterAttempt(w, reply) /\ \A v \in Workers : v # w => pc'[v] = pc[v]
  BY <1>1 DEF Kept, Shape
<1>6. AfterAttempt(w, reply) \in {"mark_sent", "backoff", "mark_failed"}
  BY DEF AfterAttempt
<1>7. MailRow(mail'[k]) BY <1>3, <1>4 DEF MailRow
<1>8. Shape'
  <2>1. \A j \in DOMAIN mail' : MailRow(mail'[j])
    BY <1>1, <1>4, <1>7 DEF Kept, Shape, MailRow
  <2> QED BY <1>1, <1>4, <2>1 DEF Kept, Shape
<1>9. OneDeliverer'
  <2>1. \A v \in Workers : pc'[v] \in Delivering => pc[v] \in Delivering
    BY <1>1, <1>5 DEF Delivering
  <2> QED BY <1>1, <2>1 DEF Kept, OneDeliverer
<1>10. \A v \in Workers : Knows(v)'
  <2> TAKE v \in Workers
  <2>1. CASE v = w
    <3>1. mail'[k].tries = n /\ n >= 1 BY <1>3, <1>4 DEF MailRow
    <3>2. pc'[w] = "backoff" => n <= Retries BY <1>5 DEF AfterAttempt
    <3>3. pc'[w] = "mark_sent" => mail'[k].accepted >= 1
      <4> SUFFICES ASSUME pc'[w] = "mark_sent" PROVE mail'[k].accepted >= 1 OBVIOUS
      <4>1. reply = "ok" BY <1>5 DEF AfterAttempt
      <4> QED BY <1>3, <1>4, <4>1 DEF MailRow
    <3> QED BY <1>1, <1>3, <1>5, <1>6, <2>1, <3>1, <3>2, <3>3 DEF Knows
  <2>2. CASE v # w
    <3>1. pc'[v] = pc[v] /\ sending'[v] = sending[v] BY <1>1, <1>5, <2>2
    <3>2. CASE pc[v] \in Delivering
      <4>1. sending[v].key # k /\ sending[v].key \in DOMAIN mail
        BY <1>2, <2>2, <3>2 DEF Kept, OneDeliverer, Shape
      <4> QED BY <1>1, <1>4, <3>1, <4>1 DEF Kept, Knows
    <3>3. CASE pc[v] \notin Delivering
      BY <1>1, <3>1, <3>3 DEF Kept, Knows, Delivering
    <3> QED BY <3>2, <3>3
  <2> QED BY <2>1, <2>2
<1>11. BoundedTries' BY <1>3, <1>4 DEF Kept, BoundedTries, MailRow
<1>12. LogIsTrue' BY <1>1, <1>2, <1>4 DEF Kept, Shape, LogIsTrue
<1> QED BY <1>1, <1>8, <1>9, <1>10, <1>11, <1>12 DEF Kept, RecoveryFollowsDown

LEMMA RetryKeeps ==
    ASSUME Kept, NEW w \in Workers, Retry(w)
    PROVE  Kept'
<1>1. /\ pc[w] = "backoff" /\ UNCHANGED <<ledger, mail>>
      /\ pc'[w] = "send" /\ \A v \in Workers : v # w => pc'[v] = pc[v]
      /\ sending'[w] = [key |-> sending[w].key, attempt |-> sending[w].attempt + 1]
      /\ \A v \in Workers : v # w => sending'[v] = sending[v]
      /\ DOMAIN pc' = Workers /\ DOMAIN sending' = Workers
  BY DEF Retry, Kept, Shape
<1>2. \A v \in Workers : /\ sending'[v].key = sending[v].key
                         /\ pc'[v] \in Delivering <=> pc[v] \in Delivering
  BY <1>1 DEF Delivering
<1>3. Shape' BY <1>1 DEF Kept, Shape
<1>4. OneDeliverer' BY <1>1, <1>2 DEF Kept, OneDeliverer
<1>5. \A v \in Workers : Knows(v)'
  <2> TAKE v \in Workers
  <2>1. CASE v = w
    <3>1. /\ mail[sending[w].key].tries = sending[w].attempt
          /\ sending[w].attempt \in Nat /\ sending[w].attempt <= Retries
      BY <1>1 DEF Kept, Shape, Knows
    <3> QED BY <1>1, <2>1, <3>1, DispatcherAssumption DEF Knows
  <2>2. CASE v # w BY <1>1, <2>2 DEF Kept, Knows
  <2> QED BY <2>1, <2>2
<1> QED BY <1>1, <1>3, <1>4, <1>5 DEF Kept, BoundedTries, LogIsTrue, RecoveryFollowsDown

LEMMA CutShortKeeps ==
    ASSUME Kept, NEW w \in Workers, CutShort(w)
    PROVE  Kept'
<1>1. /\ pc[w] = "backoff" /\ UNCHANGED <<sending, ledger, mail>>
      /\ pc'[w] = "mark_failed" /\ \A v \in Workers : v # w => pc'[v] = pc[v]
      /\ DOMAIN pc' = Workers
  BY DEF CutShort, Kept, Shape
<1>2. Shape' BY <1>1 DEF Kept, Shape
<1>3. OneDeliverer' BY <1>1 DEF Kept, OneDeliverer, Delivering
<1>4. \A v \in Workers : Knows(v)'
  <2> TAKE v \in Workers
  <2>1. CASE v = w
    <3>1. /\ mail[sending[w].key].tries = sending[w].attempt
          /\ sending[w].attempt \in Nat /\ sending[w].attempt <= Retries
          /\ sending[w].attempt >= 1
      BY <1>1 DEF Kept, Shape, Knows
    <3> QED BY <1>1, <2>1, <3>1, DispatcherAssumption DEF Knows
  <2>2. CASE v # w BY <1>1, <2>2 DEF Kept, Knows
  <2> QED BY <2>1, <2>2
<1> QED BY <1>1, <1>2, <1>3, <1>4 DEF Kept, BoundedTries, LogIsTrue, RecoveryFollowsDown

\* Settling: only the owner does it, and what it writes is what it counted.
LEMMA MarkKeeps ==
    ASSUME Kept, NEW w \in Workers, Mark(w)
    PROVE  Kept'
<1> DEFINE k == sending[w].key
<1>1. CASE UNCHANGED ledger BY <1>1, NextRuleKeeps DEF Mark
<1>2. CASE ledger' = [ledger EXCEPT ![k] = Outcome(w)]
  <2>1. /\ pc[w] \in {"mark_sent", "mark_failed"} /\ UNCHANGED mail
        /\ pc'[w] = "rules" /\ sending'[w] = NoKey
        /\ \A v \in Workers : v # w => pc'[v] = pc[v] /\ sending'[v] = sending[v]
        /\ DOMAIN pc' = Workers /\ DOMAIN sending' = Workers
    BY DEF Mark, NextRule, Kept, Shape
  <2>2. /\ k \in DOMAIN ledger
        /\ \A v \in Workers : pc[v] \in Delivering /\ sending[v].key = k => v = w
    BY <2>1 DEF Kept, OneDeliverer, Delivering
  <2>3. /\ DOMAIN ledger' = DOMAIN ledger /\ ledger'[k] = Outcome(w)
        /\ \A j \in DOMAIN ledger : j # k => ledger'[j] = ledger[j]
    BY <1>2, <2>2
  <2>4. Shape' BY <2>1, <2>3 DEF Kept, Shape, NoKey
  <2>5. OneDeliverer'
    <3> SUFFICES ASSUME NEW u \in Workers, NEW v \in Workers, pc'[u] \in Delivering
                 PROVE  /\ sending'[u].key \in DOMAIN ledger'
                        /\ ledger'[sending'[u].key].status = "pending"
                        /\ pc'[v] \in Delivering /\ sending'[v].key = sending'[u].key => u = v
      BY DEF OneDeliverer
    <3>1. u # w /\ pc[u] \in Delivering /\ sending'[u] = sending[u]
      BY <2>1 DEF Delivering
    <3>2. sending[u].key # k BY <2>2, <3>1
    <3>3. /\ sending[u].key \in DOMAIN ledger
          /\ ledger[sending[u].key].status = "pending"
          /\ pc[v] \in Delivering /\ sending[v].key = sending[u].key => u = v
      BY <3>1 DEF Kept, OneDeliverer
    <3>4. pc'[v] \in Delivering => v # w /\ pc[v] \in Delivering
      BY <2>1 DEF Delivering
    <3> QED BY <2>1, <2>3, <3>1, <3>2, <3>3, <3>4
  <2>6. \A v \in Workers : Knows(v)'
    <3> TAKE v \in Workers
    <3>1. CASE v = w BY <2>1, <3>1 DEF Knows
    <3>2. CASE v # w BY <2>1, <2>3, <3>2 DEF Kept, Knows
    <3> QED BY <3>1, <3>2
  <2>7. LogIsTrue'
    <3>1. /\ mail[k].tries = sending[w].attempt /\ sending[w].attempt >= 1
          /\ pc[w] = "mark_sent" => mail[k].accepted >= 1
      BY <2>1 DEF Kept, Knows
    <3>2. CASE pc[w] = "mark_sent"
      <4>1. ledger'[k] = [status |-> "sent", attempts |-> sending[w].attempt]
        BY <2>3, <3>2 DEF Outcome
      <4> QED BY <2>1, <2>3, <3>1, <3>2, <4>1 DEF Kept, LogIsTrue
    <3>3. CASE pc[w] # "mark_sent"
      <4>1. ledger'[k].status = "failed" BY <2>3, <3>3 DEF Outcome
      <4> QED BY <2>1, <2>3, <3>1, <4>1 DEF Kept, LogIsTrue
    <3> QED BY <3>2, <3>3
  <2> QED BY <2>1, <2>3, <2>4, <2>5, <2>6, <2>7 DEF Kept, BoundedTries, RecoveryFollowsDown
<1> QED BY <1>1, <1>2 DEF Mark

-----------------------------------------------------------------------------
\* What the argument reads has not changed.
LEMMA StutterKeeps ==
    ASSUME Kept, UNCHANGED <<pc, sending, ledger, mail>>
    PROVE  Kept'
<1>1. Shape' /\ OneDeliverer' BY DEF Kept, Shape, OneDeliverer
<1>2. \A w \in Workers : Knows(w)' BY DEF Kept, Knows
<1> QED BY <1>1, <1>2 DEF Kept, BoundedTries, LogIsTrue, RecoveryFollowsDown

\* A new process forgets what was being delivered; the ledger and the mail stay.
LEMMA NewProcessKeeps ==
    ASSUME Kept, NewProcess
    PROVE  Kept'
<1>1. /\ UNCHANGED <<ledger, mail>>
      /\ pc' = [w \in Workers |-> "idle"] /\ sending' = [w \in Workers |-> NoKey]
  BY DEF NewProcess
<1>2. Shape' BY <1>1 DEF Kept, Shape, NoKey
<1>3. OneDeliverer' BY <1>1 DEF OneDeliverer, Delivering
<1>4. \A w \in Workers : Knows(w)' BY <1>1 DEF Knows
<1> QED BY <1>1, <1>2, <1>3, <1>4 DEF Kept, BoundedTries, LogIsTrue, RecoveryFollowsDown

LEMMA WorkerStepKeeps ==
    ASSUME Kept, NEW w \in Workers, WorkerStep(w)
    PROVE  Kept'
<1>1. CASE Take(w) BY <1>1, QuietStepKeeps DEF Take
<1>2. CASE LoadRules(w) BY <1>2, QuietStepKeeps DEF LoadRules
<1>3. CASE Handled(w) BY <1>3, QuietStepKeeps DEF Handled
<1>4. CASE RulesDone(w) BY <1>4, QuietStepKeeps DEF RulesDone
<1>5. CASE Exit(w) BY <1>5, QuietStepKeeps DEF Exit
<1>6. CASE Render(w) BY <1>6, RenderKeeps
<1>7. CASE ClaimWins(w) BY <1>7, ClaimWinsKeeps
<1>8. CASE ClaimLoses(w) BY <1>8, NextRuleKeeps DEF ClaimLoses
<1>9. CASE \E reply \in Replies : Attempt(w, reply) BY <1>9, AttemptKeeps
<1>10. CASE Retry(w) BY <1>10, RetryKeeps
<1>11. CASE CutShort(w) BY <1>11, CutShortKeeps
<1>12. CASE Mark(w) BY <1>12, MarkKeeps
<1> QED
  BY <1>1, <1>2, <1>3, <1>4, <1>5, <1>6, <1>7, <1>8, <1>9, <1>10, <1>11, <1>12
  DEF WorkerStep

LEMMA StepKeeps == Kept /\ [Next]_vars => Kept'
<1> SUFFICES ASSUME Kept, [Next]_vars PROVE Kept' OBVIOUS
<1>1. ASSUME NEW s \in Sites, Hook(s) PROVE Kept'
  BY <1>1, StutterKeeps DEF Hook, Enqueue
<1>2. ASSUME NEW s \in Sites, NEW o \in Outcomes, Tick(s, o) PROVE Kept'
  BY <1>2, StutterKeeps DEF Tick, dvars
<1>3. ASSUME NEW w \in Workers, DispatcherStep(w) PROVE Kept'
  BY <1>3, WorkerStepKeeps DEF DispatcherStep
<1>4. CASE Stop BY <1>4, StutterKeeps DEF Stop, Shutdown
<1>5. CASE Restart BY <1>5, NewProcessKeeps DEF Restart
<1>6. CASE UNCHANGED vars BY <1>6, StutterKeeps DEF vars, dvars
<1> QED BY <1>1, <1>2, <1>3, <1>4, <1>5, <1>6 DEF Next

LEMMA AlwaysKept == Spec => []Kept
<1> QED BY InitKept, StepKeeps, PTL DEF Spec

(***************************************************************************)
(* Two workers are never delivering the same key, and a key being          *)
(* delivered is claimed and not settled: the UNIQUE index on dedupe_key    *)
(* makes ClaimDelivery exclusive.                                          *)
(***************************************************************************)
THEOREM Exclusive == Spec => []OneDeliverer
<1>1. Kept => OneDeliverer BY DEF Kept
<1> QED BY <1>1, AlwaysKept, PTL

\* deliver sends at most Retries + 1 times for a key, over every worker,
\* repeated event and restart.
THEOREM TriesAreBounded == Spec => []BoundedTries
<1>1. Kept => BoundedTries BY DEF Kept
<1> QED BY <1>1, AlwaysKept, PTL

\* A row MarkDeliverySent wrote was accepted by the relay after the attempts it
\* records, and a row MarkDeliveryFailed wrote was tried.
THEOREM SendLogIsTrue == Spec => []LogIsTrue
<1>1. Kept => LogIsTrue BY DEF Kept
<1> QED BY <1>1, AlwaysKept, PTL

\* render lets a recovery through only if the outage was claimed on that
\* channel, and the claim is never taken back.
THEOREM RecoveriesFollow == Spec => []RecoveryFollowsDown
<1>1. Kept => RecoveryFollowsDown BY DEF Kept
<1> QED BY <1>1, AlwaysKept, PTL

-----------------------------------------------------------------------------
\* The steps that touch the ledger or the mail.
Claims(w) == ClaimWins(w)

Tries(w) == \E reply \in Replies : Attempt(w, reply)

Settles(w) ==
    /\ pc[w] \in {"mark_sent", "mark_failed"}
    /\ ledger' = [ledger EXCEPT ![sending[w].key] = Outcome(w)]
    /\ UNCHANGED mail

LEMMA LedgerSteps ==
    ASSUME [Next]_vars
    PROVE  \/ UNCHANGED <<ledger, mail>>
           \/ \E w \in Workers : Claims(w) \/ Tries(w) \/ Settles(w)
<1>1. ASSUME NEW s \in Sites, Hook(s) PROVE UNCHANGED <<ledger, mail>>
  BY <1>1 DEF Hook, Enqueue
<1>2. ASSUME NEW s \in Sites, NEW o \in Outcomes, Tick(s, o)
      PROVE  UNCHANGED <<ledger, mail>>
  BY <1>2 DEF Tick, dvars
<1>3. ASSUME NEW w \in Workers, DispatcherStep(w)
      PROVE  \/ UNCHANGED <<ledger, mail>>
             \/ Claims(w) \/ Tries(w) \/ Settles(w)
  <2>1. WorkerStep(w) BY <1>3 DEF DispatcherStep
  <2>2. CASE Mark(w) BY <2>2 DEF Mark, Settles
  <2>3. CASE ~Mark(w)
    BY <2>1, <2>3 DEF WorkerStep, Take, LoadRules, Handled, RulesDone, Render, ClaimLoses,
                     Retry, CutShort, Exit, Claims, Tries
  <2> QED BY <2>2, <2>3
<1>4. CASE Stop BY <1>4 DEF Stop, Shutdown
<1>5. CASE Restart BY <1>5 DEF Restart, NewProcess
<1>6. CASE UNCHANGED vars BY <1>6 DEF vars, dvars
<1> QED BY <1>1, <1>2, <1>3, <1>4, <1>5, <1>6 DEF Next

\* A worker that delivers is at a pending key.
LEMMA DeliversPending ==
    ASSUME Kept, NEW w \in Workers, pc[w] \in Delivering
    PROVE  /\ sending[w].key \in DOMAIN ledger /\ sending[w].key \in DOMAIN mail
           /\ ledger[sending[w].key].status = "pending"
           /\ MailRow(mail[sending[w].key])
BY DEF Kept, OneDeliverer, Shape

LEMMA OutcomeSettles ==
    ASSUME NEW w PROVE Outcome(w).status # "pending"
BY DEF Outcome

(***************************************************************************)
(* Once MarkDeliverySent or MarkDeliveryFailed has written an outcome, the *)
(* row stays as it is and nothing more is sent for its key: not by a       *)
(* repeat of the event, another worker or a later process.                 *)
(***************************************************************************)
THEOREM SettledStaysFinal == Spec => SettledIsFinal
<1> DEFINE Final == \A k \in DOMAIN ledger :
        /\ k \in DOMAIN ledger'
        /\ ledger[k].status # "pending" => ledger'[k] = ledger[k] /\ mail'[k] = mail[k]
<1>1. ASSUME Kept, [Next]_vars PROVE Final
  <2>1. CASE UNCHANGED <<ledger, mail>> BY <2>1
  <2>2. ASSUME NEW w \in Workers, Claims(w) PROVE Final
    BY <1>1, <2>2 DEF Claims, ClaimWins, Unclaimed, Kept, Shape
  <2>3. ASSUME NEW w \in Workers, Tries(w) PROVE Final
    <3>1. ledger[sending[w].key].status = "pending"
      BY <1>1, <2>3, DeliversPending DEF Tries, Attempt, Delivering
    <3> QED BY <1>1, <2>3, <3>1 DEF Tries, Attempt, Kept, Shape
  <2>4. ASSUME NEW w \in Workers, Settles(w) PROVE Final
    <3>1. ledger[sending[w].key].status = "pending"
      BY <1>1, <2>4, DeliversPending DEF Settles, Delivering
    <3> QED BY <2>4, <3>1 DEF Settles
  <2> QED BY <1>1, <2>1, <2>2, <2>3, <2>4, LedgerSteps
<1>2. Kept /\ [Next]_vars => [Final]_dvars BY <1>1
<1> QED BY <1>2, AlwaysKept, PTL DEF Spec, SettledIsFinal

-----------------------------------------------------------------------------
LEMMA PromiseInit == Init => Promise!Init
BY DEF Init, DispatcherInit, Promise!Init

\* Every step is, for at most one key, a claim, a try or an outcome.
LEMMA PromiseStep ==
    ASSUME Kept, [Next]_vars
    PROVE  [Promise!Next]_(Promise!vars)
<1> DEFINE claimed == DOMAIN ledger
           tries   == [k \in DOMAIN mail |-> mail[k].tries]
           settled == {k \in DOMAIN ledger : ledger[k].status # "pending"}
<1>1. CASE UNCHANGED <<ledger, mail>> BY <1>1 DEF Promise!vars
<1>2. ASSUME NEW w \in Workers, Claims(w)
      PROVE  \E k \in claimed' : Promise!Claim(k)
  <2> DEFINE k == sending[w].key
  <2>1. /\ k \notin claimed /\ claimed' = claimed \cup {k}
        /\ DOMAIN mail' = claimed'
        /\ mail'[k].tries = 0
        /\ ledger'[k].status = "pending"
        /\ \A j \in claimed : ledger'[j] = ledger[j] /\ mail'[j] = mail[j]
    BY <1>2 DEF Claims, ClaimWins, Unclaimed, Kept, Shape
  <2>2. DOMAIN mail = claimed BY DEF Kept, Shape
  <2>3. tries' = [j \in claimed' |-> IF j = k THEN 0 ELSE tries[j]] BY <2>1, <2>2
  <2>4. settled' = settled BY <2>1
  <2>5. Promise!Claim(k) BY <2>1, <2>3, <2>4 DEF Promise!Claim
  <2> QED BY <2>1, <2>5 DEF Promise!Claim
<1>3. ASSUME NEW w \in Workers, Tries(w)
      PROVE  \E k \in claimed' : Promise!Try(k)
  <2> DEFINE k == sending[w].key
  <2>1. pc[w] = "send" /\ UNCHANGED ledger BY <1>3 DEF Tries, Attempt
  <2>2. /\ k \in claimed /\ k \in DOMAIN mail /\ ledger[k].status = "pending"
        /\ MailRow(mail[k])
    BY <2>1, DeliversPending DEF Delivering
  <2>3. mail[k].tries < Retries + 1
    <3>1. /\ mail[k].tries = sending[w].attempt - 1
          /\ sending[w].attempt \in Nat /\ sending[w].attempt <= Retries + 1
      BY <2>1 DEF Kept, Shape, Knows
    <3> QED BY <3>1, DispatcherAssumption
  <2>4. /\ DOMAIN mail' = DOMAIN mail /\ mail'[k].tries = mail[k].tries + 1
        /\ \A j \in DOMAIN mail : j # k => mail'[j] = mail[j]
    BY <1>3, <2>2 DEF Tries, Attempt, MailRow
  <2>5. tries' = [tries EXCEPT ![k] = @ + 1] BY <2>2, <2>4
  <2>6. Promise!Try(k) BY <2>1, <2>2, <2>3, <2>5 DEF Promise!Try
  <2>7. k \in claimed' BY <2>1, <2>2
  <2> QED BY <2>6, <2>7 DEF Promise!Try
<1>4. ASSUME NEW w \in Workers, Settles(w)
      PROVE  \E k \in claimed' : Promise!Settle(k)
  <2> DEFINE k == sending[w].key
  <2>1. /\ k \in claimed /\ k \in DOMAIN mail /\ ledger[k].status = "pending"
    BY <1>4, DeliversPending DEF Settles, Delivering
  <2>2. mail[k].tries > 0
    <3>1. mail[k].tries = sending[w].attempt /\ sending[w].attempt >= 1
          /\ sending[w].attempt \in Nat
      BY <1>4 DEF Settles, Kept, Shape, Knows
    <3> QED BY <3>1
  <2>3. /\ claimed' = claimed /\ ledger'[k] = Outcome(w) /\ UNCHANGED mail
        /\ \A j \in claimed : j # k => ledger'[j] = ledger[j]
    BY <1>4, <2>1 DEF Settles
  <2>4. settled' = settled \cup {k} BY <2>1, <2>3, OutcomeSettles
  <2>5. Promise!Settle(k) BY <2>1, <2>2, <2>3, <2>4 DEF Promise!Settle
  <2>6. k \in claimed' BY <2>1, <2>3
  <2> QED BY <2>5, <2>6 DEF Promise!Settle
<1> QED BY <1>1, <1>2, <1>3, <1>4, LedgerSteps DEF Promise!Next

(***************************************************************************)
(* Delivery, with its queue, its workers, its crashes and its failing      *)
(* statements, implements the abstract promise: a dedupe key is claimed    *)
(* once, tried at most Retries + 1 times and never touched once settled.   *)
(***************************************************************************)
THEOREM DeliveryKeepsPromise == Spec => DeliversAtMostOnce
<1>1. Kept /\ [Next]_vars => [Promise!Next]_(Promise!vars) BY PromiseStep
<1> QED BY <1>1, PromiseInit, AlwaysKept, PTL DEF Spec, DeliversAtMostOnce, Promise!Spec
=============================================================================

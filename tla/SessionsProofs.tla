--------------------------- MODULE SessionsProofs ---------------------------
(***************************************************************************)
(* A revoked session stays out, an expiry follows the use of its session   *)
(* and the limiter counts what it should, for any number of accounts,      *)
(* addresses and concurrent requests, and any limit and window.            *)
(*                                                                         *)
(* The argument has three layers.  Typing says what each request holds of  *)
(* what it read before; Slides relates the two clocks in a session's row   *)
(* to each other and to what the requests have read of them; Throttled     *)
(* adds to the failures of a key the logins already past Allowed.          *)
(***************************************************************************)
EXTENDS Sessions, SequenceTheorems, FiniteSetTheorems, WellFoundedInduction, TLAPS

Below == {pair \in Nat \X Nat : pair[1] < pair[2]}

(***************************************************************************)
(* A set of numbers that is not empty has a least one.                     *)
(***************************************************************************)
LEMMA LeastNumber ==
    ASSUME NEW T, T \subseteq Nat, T # {}
    PROVE  \E n \in T : \A m \in T : n <= m
<1>1. IsWellFoundedOn(Below, Nat)
  BY NatLessThanWellFounded DEF OpToRel, Below
<1>2. PICK n \in T : \A m \in T : ~(<<m, n>> \in Below)
  BY <1>1, WFMin
<1>3. ASSUME NEW m \in T PROVE n <= m
  <2>1. n \in Nat /\ m \in Nat /\ ~(<<m, n>> \in Below)
    BY <1>2
  <2>2. m < n => <<m, n>> \in Below
    BY <2>1 DEF Below
  <2> QED
    BY <2>1, <2>2
<1> QED
  BY <1>3

Ordered(times) ==
    \A i, j \in 1..Len(times) : i <= j => times[i] <= times[j]

(***************************************************************************)
(* The loop of liveLocked stops somewhere, whatever the times are.         *)
(***************************************************************************)
LEMMA LoopStops ==
    ASSUME NEW times \in Seq(Nat), NEW cutoff \in Int
    PROVE  LET n == Aged(times, cutoff) IN
           /\ n \in 0..Len(times)
           /\ \A i \in 1..n : times[i] <= cutoff
           /\ n < Len(times) => times[n + 1] > cutoff
<1> DEFINE Stops == {n \in 0..Len(times) : n < Len(times) => times[n + 1] > cutoff}
<1>1. Len(times) \in Nat /\ \A i \in 1..Len(times) : times[i] \in Nat
  BY ElementOfSeq, LenProperties
<1>2. Len(times) \in Stops /\ Stops \subseteq Nat
  BY <1>1
<1>3. PICK n \in Stops : \A m \in Stops : n <= m
  BY <1>2, LeastNumber
<1>4. \A m \in 0..(n - 1) : times[m + 1] <= cutoff
  <2> SUFFICES ASSUME NEW m \in 0..(n - 1) PROVE times[m + 1] <= cutoff
    OBVIOUS
  <2>1. m \notin Stops
    BY <1>2, <1>3
  <2> QED
    BY <2>1, <1>1
<1>5. \A i \in 1..n : times[i] <= cutoff
  <2> SUFFICES ASSUME NEW i \in 1..n PROVE times[i] <= cutoff
    OBVIOUS
  <2>1. i - 1 \in 0..(n - 1) /\ (i - 1) + 1 = i
    BY <1>2
  <2> QED
    BY <2>1, <1>4
<1> QED
  BY <1>5 DEF Aged

(***************************************************************************)
(* What ts[i:] is.                                                         *)
(***************************************************************************)
LEMMA Suffix ==
    ASSUME NEW n \in Nat, NEW times \in Seq(0..n), NEW a \in 0..Len(times)
    PROVE  LET rest == SubSeq(times, a + 1, Len(times)) IN
           /\ rest \in Seq(0..n)
           /\ Len(rest) = Len(times) - a
           /\ \A i \in 1..Len(rest) : rest[i] = times[a + i] /\ a + i \in 1..Len(times)
<1>1. Len(times) \in Nat /\ \A i \in 1..Len(times) : times[i] \in 0..n
  BY ElementOfSeq, LenProperties
<1>2. a \in Int /\ a + 1 \in Int /\ Len(times) \in Int
  BY <1>1
<1>3. \A i \in (a + 1)..Len(times) : times[i] \in 0..n
  BY <1>1
<1> DEFINE rest == SubSeq(times, a + 1, Len(times))
<1>4. /\ rest \in Seq(0..n)
      /\ Len(rest) = IF a + 1 <= Len(times) THEN Len(times) - (a + 1) + 1 ELSE 0
      /\ \A i \in 1..(Len(times) - (a + 1) + 1) : rest[i] = times[(a + 1) + i - 1]
  BY <1>2, <1>3, SubSeqProperties
<1> HIDE DEF rest
<1>5. Len(rest) = Len(times) - a /\ Len(times) - (a + 1) + 1 = Len(times) - a
  BY <1>1, <1>4
<1>6. ASSUME NEW i \in 1..Len(rest)
      PROVE  rest[i] = times[a + i] /\ a + i \in 1..Len(times)
  <2>1. i \in 1..(Len(times) - (a + 1) + 1) /\ (a + 1) + i - 1 = a + i
    BY <1>1, <1>5
  <2> QED
    BY <2>1, <1>1, <1>4, <1>5
<1> QED
  BY <1>4, <1>5, <1>6 DEF rest

(***************************************************************************)
(* What liveLocked returns: the times after the cutoff, still in order.    *)
(***************************************************************************)
LEMMA LiveProperties ==
    ASSUME NEW n \in Nat, NEW times \in Seq(0..n), Ordered(times), NEW cutoff \in Int
    PROVE  LET live == LiveOf(times, cutoff) IN
           /\ live \in Seq(0..n) /\ Ordered(live)
           /\ Len(live) \in Nat /\ Len(live) <= Len(times)
           /\ \A i \in 1..Len(live) : live[i] > cutoff
<1> DEFINE a == Aged(times, cutoff)
           live == LiveOf(times, cutoff)
<1>1. times \in Seq(Nat) /\ Len(times) \in Nat /\ \A i \in 1..Len(times) : times[i] \in 0..n
  BY ElementOfSeq, LenProperties, SeqMonotonic
<1>2. a \in 0..Len(times) /\ (a < Len(times) => times[a + 1] > cutoff)
  BY <1>1, LoopStops
<1>3. /\ live \in Seq(0..n)
      /\ Len(live) = Len(times) - a
      /\ \A i \in 1..Len(live) : live[i] = times[a + i] /\ a + i \in 1..Len(times)
  BY <1>2, Suffix DEF LiveOf
<1> HIDE DEF live, a
<1>4. Len(live) \in Nat /\ a \in Nat
  BY <1>1, <1>2, <1>3
<1>5. Ordered(live)
  <2> SUFFICES ASSUME NEW i \in 1..Len(live), NEW j \in 1..Len(live), i <= j
               PROVE  live[i] <= live[j]
    BY DEF Ordered
  <2>1. a + i <= a + j
    BY <1>4
  <2> QED
    BY <2>1, <1>3 DEF Ordered
<1>6. \A i \in 1..Len(live) : live[i] > cutoff
  <2> SUFFICES ASSUME NEW i \in 1..Len(live) PROVE live[i] > cutoff
    OBVIOUS
  <2>1. a < Len(times) /\ a + 1 \in 1..Len(times)
    BY <1>1, <1>2, <1>3
  <2>2. a + i \in 1..Len(times) /\ a + 1 <= a + i /\ live[i] = times[a + i]
    BY <1>3, <1>4
  <2>3. times[a + 1] <= times[a + i]
    BY <2>1, <2>2 DEF Ordered
  <2>4. times[a + 1] \in 0..n /\ times[a + i] \in 0..n /\ times[a + 1] > cutoff
    BY <1>1, <1>2, <2>1, <2>2
  <2> QED
    BY <2>2, <2>3, <2>4
<1> QED
  <2>1. Len(live) <= Len(times)
    BY <1>1, <1>2, <1>3
  <2> QED
    BY <2>1, <1>3, <1>4, <1>5, <1>6 DEF live

(***************************************************************************)
(* A later cutoff leaves no more of the same times: it leaves fewer when   *)
(* it has overtaken the first of them, and the same when it has not.       *)
(***************************************************************************)
LEMMA LaterCutoff ==
    ASSUME NEW n \in Nat, NEW times \in Seq(0..n), Ordered(times),
           NEW cutoff \in Int, NEW later \in Int, cutoff <= later
    PROVE  LET live == LiveOf(times, cutoff)
               left == LiveOf(times, later)
           IN  /\ Len(left) <= Len(live)
               /\ Len(live) > 0 /\ live[1] <= later => Len(left) < Len(live)
               /\ Len(live) > 0 /\ later < live[1] => Len(left) = Len(live)
<1> DEFINE a == Aged(times, cutoff)
           b == Aged(times, later)
<1>1. times \in Seq(Nat) /\ Len(times) \in Nat /\ \A i \in 1..Len(times) : times[i] \in 0..n
  BY ElementOfSeq, LenProperties, SeqMonotonic
<1>2. /\ a \in 0..Len(times) /\ (a < Len(times) => times[a + 1] > cutoff)
      /\ \A i \in 1..a : times[i] <= cutoff
  BY <1>1, LoopStops
<1>3. /\ b \in 0..Len(times) /\ (b < Len(times) => times[b + 1] > later)
      /\ \A i \in 1..b : times[i] <= later
  BY <1>1, LoopStops
<1> DEFINE live == LiveOf(times, cutoff)
           left == LiveOf(times, later)
<1>4. /\ Len(live) = Len(times) - a /\ Len(left) = Len(times) - b
      /\ \A i \in 1..Len(live) : live[i] = times[a + i]
  BY <1>2, <1>3, Suffix DEF LiveOf
<1> HIDE DEF a, b, live, left
<1>5. b >= a
  <2> SUFFICES ASSUME b < a PROVE FALSE
    BY <1>2, <1>3
  <2>1. b + 1 \in 1..a /\ b < Len(times) /\ b + 1 \in 1..Len(times)
    BY <1>1, <1>2, <1>3
  <2>2. times[b + 1] <= cutoff /\ times[b + 1] > later /\ times[b + 1] \in 0..n
    BY <2>1, <1>1, <1>2, <1>3
  <2> QED
    BY <2>2
<1>6. ASSUME a < Len(times), times[a + 1] <= later PROVE b > a
  <2> SUFFICES ASSUME b = a PROVE FALSE
    BY <1>5, <1>2, <1>3
  <2>1. a + 1 \in 1..Len(times)
    BY <1>1, <1>2, <1>6
  <2> QED
    BY <2>1, <1>1, <1>3, <1>6
<1>7. ASSUME a < Len(times), later < times[a + 1] PROVE b = a
  <2> SUFFICES ASSUME b > a PROVE FALSE
    BY <1>5, <1>2, <1>3
  <2>1. a + 1 \in 1..b /\ a + 1 \in 1..Len(times)
    BY <1>2, <1>3, <1>7
  <2> QED
    BY <2>1, <1>1, <1>3, <1>7
<1>8. Len(live) > 0 <=> a < Len(times)
  BY <1>1, <1>2, <1>4
<1>9. a < Len(times) => live[1] = times[a + 1]
  <2> SUFFICES ASSUME a < Len(times) PROVE live[1] = times[a + 1]
    OBVIOUS
  <2>1. 1 \in 1..Len(live)
    BY <1>1, <1>2, <1>4
  <2> QED
    BY <2>1, <1>4
<1>10. /\ Len(left) <= Len(live)
       /\ b > a => Len(left) < Len(live)
       /\ b = a => Len(left) = Len(live)
  <2>1. Len(times) \in Nat /\ a \in Nat /\ b \in Nat
    BY <1>1, <1>2, <1>3
  <2> QED
    BY <2>1, <1>4, <1>5
<1> QED
  BY <1>6, <1>7, <1>8, <1>9, <1>10 DEF live, left

-----------------------------------------------------------------------------
(* The invariant.                                                          *)

LoginStages == {"throttle", "lookup", "compare", "create", "reset"}
SessionStages == {"session", "expire", "user", "touch", "verify", "set"}

AnyRequest ==
    [op : {"login", "use", "logout", "password"}, name : Names \cup {NoHash},
     addr : Addrs \cup {NoHash}, given : Passwords \cup {NoHash},
     new : Passwords \cup {NoHash}, token : Nat]

Serving ==
    [pc : LoginStages \cup SessionStages \cup {"logout"}, req : AnyRequest,
     user : Names \cup {NoHash}, hash : Passwords \cup {NoHash}, seen : Nat,
     stamp : Nat, since : Nat, again : {0, 1}]

\* What a request needs of what it was asked for.
Asked(x, top) ==
    /\ x.pc \in LoginStages =>
        x.req.name \in Names /\ x.req.addr \in Addrs /\ x.req.given \in Passwords
    /\ x.pc \in SessionStages \cup {"logout"} => x.req.token \in 1..top
    /\ x.pc \in SessionStages => x.req.op \in {"use", "password"}
    /\ x.again > 0 \/ x.pc \in {"verify", "set"} => x.req.op = "password"
    /\ x.req.op = "password" => x.req.given \in Passwords /\ x.req.new \in Passwords

\* What it has read: accounts are never removed, and time passes at most once
\* while it is served.
Read(x, names, time) ==
    /\ x.pc \in {"user", "touch", "verify", "set"} => x.user \in names
    /\ x.pc = "compare" => x.hash = NoHash \/ x.req.name \in names
    /\ x.pc = "create" => x.req.name \in names
    /\ x.since <= time /\ time <= x.since + 1
    /\ x.pc \in {"create", "touch"} => x.since <= x.stamp /\ x.stamp <= time
    /\ x.pc = "user" => x.seen <= time

Serves(x, top, names, time) ==
    x = Idle \/ (x \in Serving /\ Asked(x, top) /\ Read(x, names, time))

HandlersTyped ==
    /\ handler = [h \in Handlers |-> handler[h]]
    /\ \A h \in Handlers : Serves(handler[h], issued, DOMAIN accounts, now)

LimiterTyped ==
    /\ attempts = [k \in DOMAIN attempts |-> attempts[k]]
    /\ DOMAIN attempts \subseteq LimiterKeys
    /\ \A k \in DOMAIN attempts :
        attempts[k] \in Seq(0..now) /\ attempts[k] # <<>> /\ Ordered(attempts[k])

TablesTyped ==
    /\ now \in Nat /\ issued \in Nat
    /\ accounts \in [DOMAIN accounts -> Passwords] /\ DOMAIN accounts \subseteq Names
    /\ sessions \in [DOMAIN sessions -> Session] /\ DOMAIN sessions \subseteq 1..issued
    /\ \A t \in DOMAIN sessions :
        sessions[t].user \in DOMAIN accounts /\ sessions[t].last_seen_at <= now
    /\ revoked \subseteq 1..issued
    /\ used \in [1..issued -> 0..now]

Typing == TablesTyped /\ HandlersTyped /\ LimiterTyped

\* The two clocks of a row, and a request's copy of one of them: TouchSession
\* takes the expiry's time before the statement's own.
Slides ==
    /\ \A t \in DOMAIN sessions :
        sessions[t].expires_at >= sessions[t].last_seen_at + TTL - 1
    /\ \A h \in Handlers :
        At(h, "user") /\ handler[h].req.token \in DOMAIN sessions =>
            handler[h].seen <= sessions[handler[h].req.token].last_seen_at

\* The logins of a key that Allowed has let pass and that may still fail.
Pending(k) == {h \in Handlers : handler[h].pc \in {"lookup", "compare"} /\ k \in KeysOf(h)}

Throttled ==
    \A k \in LimiterKeys :
        Len(Live(k, now)) + Cardinality(Pending(k)) <= MaxAttempts - 1 + Cardinality(Handlers)

-----------------------------------------------------------------------------
(* Typing: what each kind of step does to each part.                       *)

LEMMA SameLimiter ==
    ASSUME LimiterTyped, UNCHANGED <<attempts, now>>
    PROVE  LimiterTyped'
BY DEF LimiterTyped

LEMMA SameTables ==
    ASSUME TablesTyped, UNCHANGED <<accounts, sessions, issued, revoked, used, now>>
    PROVE  TablesTyped'
BY DEF TablesTyped

(***************************************************************************)
(* More tokens and more accounts take nothing from what a request knows.   *)
(***************************************************************************)
LEMMA ServesMonotone ==
    ASSUME NEW x, NEW top \in Nat, NEW more \in Nat, top <= more,
           NEW names, NEW others, names \subseteq others, NEW time,
           Serves(x, top, names, time)
    PROVE  Serves(x, more, others, time)
<1>1. Asked(x, top) => Asked(x, more)
  BY DEF Asked
<1>2. Read(x, names, time) => Read(x, others, time)
  BY DEF Read
<1> QED
  BY <1>1, <1>2 DEF Serves

LEMMA HandlerMoves ==
    ASSUME Typing, NEW h \in Handlers, NEW x,
           handler' = [handler EXCEPT ![h] = x],
           now' = now, issued' \in Nat, issued <= issued',
           DOMAIN accounts \subseteq DOMAIN accounts',
           Serves(x, issued', DOMAIN accounts', now')
    PROVE  HandlersTyped'
<1>1. handler' = [g \in Handlers |-> handler'[g]]
  BY DEF Typing, HandlersTyped
<1>2. ASSUME NEW g \in Handlers PROVE Serves(handler'[g], issued', DOMAIN accounts', now')
  <2>1. g = h => handler'[g] = x
    BY DEF Typing, HandlersTyped
  <2>2. g # h => handler'[g] = handler[g]
    BY DEF Typing, HandlersTyped
  <2>3. Serves(handler[g], issued, DOMAIN accounts, now) /\ issued \in Nat
    BY DEF Typing, HandlersTyped, TablesTyped
  <2> QED
    BY <2>1, <2>2, <2>3, ServesMonotone
<1> QED
  BY <1>1, <1>2 DEF HandlersTyped

LEMMA HandlerGoesOn ==
    ASSUME Typing, NEW h \in Handlers, NEW x,
           handler' = [handler EXCEPT ![h] = x], UNCHANGED <<accounts, issued, now>>,
           Serves(x, issued, DOMAIN accounts, now)
    PROVE  HandlersTyped'
<1>1. issued' \in Nat /\ issued <= issued' /\ DOMAIN accounts \subseteq DOMAIN accounts'
  BY DEF Typing, TablesTyped
<1>2. Serves(x, issued', DOMAIN accounts', now')
  OBVIOUS
<1> QED
  BY <1>1, <1>2, HandlerMoves

LEMMA AllStay ==
    ASSUME Typing, UNCHANGED <<handler, now>>, issued' \in Nat, issued <= issued',
           DOMAIN accounts \subseteq DOMAIN accounts'
    PROVE  HandlersTyped'
<1>1. ASSUME NEW g \in Handlers PROVE Serves(handler[g], issued', DOMAIN accounts', now)
  <2>1. Serves(handler[g], issued, DOMAIN accounts, now) /\ issued \in Nat
    BY DEF Typing, HandlersTyped, TablesTyped
  <2> QED
    BY <2>1, ServesMonotone
<1> QED
  BY <1>1 DEF Typing, HandlersTyped

(***************************************************************************)
(* A request that goes on keeps what it knows, and one that ends is idle.  *)
(***************************************************************************)
LEMMA GoesIdle ==
    ASSUME Typing, NEW h \in Handlers, Goes(h, "idle"),
           now' = now, issued' \in Nat, issued <= issued',
           DOMAIN accounts \subseteq DOMAIN accounts'
    PROVE  HandlersTyped'
<1>1. handler' = [handler EXCEPT ![h] = Idle]
  BY DEF Goes
<1>2. Serves(Idle, issued', DOMAIN accounts', now')
  BY DEF Serves
<1> QED
  BY <1>1, <1>2, HandlerMoves

(***************************************************************************)
(* Whoever is somewhere else than "idle" is being served.                  *)
(***************************************************************************)
LEMMA Busy ==
    ASSUME Typing, NEW h \in Handlers, ~At(h, "idle")
    PROVE  /\ handler[h] \in Serving
           /\ Asked(handler[h], issued) /\ Read(handler[h], DOMAIN accounts, now)
BY DEF Typing, HandlersTyped, Serves, At, Idle

-----------------------------------------------------------------------------
(* Typing: the limiter.                                                    *)

LEMMA LiveTyped ==
    ASSUME LimiterTyped, now \in Nat, NEW k, NEW time \in Int
    PROVE  /\ TimesOf(k) \in Seq(0..now) /\ Ordered(TimesOf(k)) /\ Len(TimesOf(k)) \in Nat
           /\ Live(k, time) \in Seq(0..now) /\ Ordered(Live(k, time))
           /\ Len(Live(k, time)) \in Nat /\ Len(Live(k, time)) <= Len(TimesOf(k))
           /\ \A i \in 1..Len(Live(k, time)) : Live(k, time)[i] > time - Window
<1>1. TimesOf(k) \in Seq(0..now) /\ Ordered(TimesOf(k))
  <2>1. CASE k \in DOMAIN attempts
    BY <2>1 DEF TimesOf, LimiterTyped
  <2>2. CASE k \notin DOMAIN attempts
    <3>1. <<>> \in Seq(0..now) /\ Len(<<>>) = 0
      BY EmptySeq
    <3>2. TimesOf(k) = <<>>
      BY <2>2 DEF TimesOf
    <3> QED
      BY <3>1, <3>2 DEF Ordered
  <2> QED
    BY <2>1, <2>2
<1>2. Len(TimesOf(k)) \in Nat
  BY <1>1, LenProperties
<1>3. time - Window \in Int
  BY LimiterAssumption
<1> QED
  BY <1>1, <1>2, <1>3, LiveProperties DEF Live

LEMMA ConsultTyped ==
    ASSUME LimiterTyped, now \in Nat, NEW keys, Consult(keys, now), now' = now
    PROVE  LimiterTyped'
<1>1. attempts' = Pruned(keys, now)
  BY DEF Consult
<1>2. \A k \in DOMAIN attempts' :
        /\ k \in DOMAIN attempts
        /\ k \in keys => Live(k, now) # <<>>
        /\ attempts'[k] = IF k \in keys THEN Live(k, now) ELSE attempts[k]
  BY <1>1 DEF Pruned
<1>3. attempts' = [k \in DOMAIN attempts' |-> attempts'[k]]
  BY <1>1 DEF Pruned
<1>4. ASSUME NEW k \in DOMAIN attempts'
      PROVE  attempts'[k] \in Seq(0..now) /\ attempts'[k] # <<>> /\ Ordered(attempts'[k])
  BY <1>2, LiveTyped DEF LimiterTyped
<1> QED
  BY <1>2, <1>3, <1>4 DEF LimiterTyped

LEMMA FailureTyped ==
    ASSUME LimiterTyped, now \in Nat, NEW keys, keys \subseteq LimiterKeys,
           RecordFailure(keys, now), now' = now
    PROVE  LimiterTyped'
<1>1. ASSUME NEW k
      PROVE  /\ Append(Live(k, now), now) \in Seq(0..now)
             /\ Append(Live(k, now), now) # <<>>
             /\ Ordered(Append(Live(k, now), now))
  <2> DEFINE live == Live(k, now)
             more == Append(live, now)
  <2>1. live \in Seq(0..now) /\ Ordered(live) /\ Len(live) \in Nat
    BY LiveTyped
  <2>2. \A i \in 1..Len(live) : live[i] \in 0..now
    BY <2>1, ElementOfSeq
  <2>3. /\ more \in Seq(0..now) /\ more # <<>> /\ Len(more) = Len(live) + 1
        /\ \A i \in 1..Len(live) : more[i] = live[i]
        /\ more[Len(live) + 1] = now
    <3>1. now \in 0..now
      OBVIOUS
    <3> QED
      BY <2>1, <3>1, AppendProperties
  <2> HIDE DEF live, more
  <2>4. ASSUME NEW i \in 1..Len(more), NEW j \in 1..Len(more), i <= j
        PROVE  more[i] <= more[j]
    <3>1. CASE j = Len(live) + 1
      BY <3>1, <2>1, <2>2, <2>3
    <3>2. CASE j # Len(live) + 1
      <4>1. i \in 1..Len(live) /\ j \in 1..Len(live)
        BY <3>2, <2>1, <2>3, <2>4
      <4> QED
        BY <4>1, <2>1, <2>3, <2>4 DEF Ordered
    <3> QED
      BY <3>1, <3>2
  <2> QED
    BY <2>3, <2>4 DEF Ordered, more, live
<1>2. attempts' = [k \in DOMAIN attempts \cup keys |->
                    IF k \in keys THEN Append(Live(k, now), now) ELSE attempts[k]]
  BY DEF RecordFailure
<1> QED
  BY <1>1, <1>2 DEF LimiterTyped

LEMMA ResetTyped ==
    ASSUME LimiterTyped, NEW keys, Reset(keys), now' = now
    PROVE  LimiterTyped'
BY DEF LimiterTyped, Reset

LEMMA PassTyped ==
    ASSUME LimiterTyped, now \in Nat, now' = now + 1, UNCHANGED attempts
    PROVE  LimiterTyped'
<1>1. ASSUME NEW k \in DOMAIN attempts PROVE attempts[k] \in Seq(0..now')
  <2>1. 0..now \subseteq 0..now'
    OBVIOUS
  <2> QED
    BY <2>1, SeqMonotonic DEF LimiterTyped
<1> QED
  BY <1>1 DEF LimiterTyped

-----------------------------------------------------------------------------
(* Typing: the handlers, one lemma per step.                               *)

LEMMA RefuseTyped ==
    ASSUME Typing, NEW h \in Handlers, Refuse(h)
    PROVE  Typing'
<1>1. Goes(h, "idle") /\ UNCHANGED <<tables, now>>
  BY DEF Refuse, Unchanged
<1>2. TablesTyped'
  BY <1>1, SameTables DEF Typing, tables
<1>3. LimiterTyped'
  BY <1>1, SameLimiter DEF Typing, tables
<1>4. HandlersTyped'
  BY <1>1, GoesIdle DEF Typing, TablesTyped, tables
<1> QED
  BY <1>2, <1>3, <1>4 DEF Typing

LEMMA ThrottleTyped ==
    ASSUME Typing, NEW h \in Handlers, Throttle(h)
    PROVE  Typing'
<1>1. /\ At(h, "throttle") /\ Consult(KeysOf(h), now)
      /\ Goes(h, IF Allowed(KeysOf(h), now) THEN "lookup" ELSE "idle")
      /\ UNCHANGED <<accounts, sessions, issued, revoked, used, now>>
  BY DEF Throttle, Unchanged
<1>2. TablesTyped'
  BY <1>1, SameTables DEF Typing
<1>3. LimiterTyped'
  BY <1>1, ConsultTyped DEF Typing, TablesTyped
<1>4. handler[h] \in Serving /\ Asked(handler[h], issued) /\ Read(handler[h], DOMAIN accounts, now)
  BY <1>1, Busy DEF At
<1> DEFINE x == [handler[h] EXCEPT !.pc = "lookup"]
<1>5. Serves(x, issued, DOMAIN accounts, now)
  BY <1>1, <1>4 DEF At, Serves, Serving, Asked, Read, LoginStages, SessionStages
<1>6. HandlersTyped'
  <2>1. CASE Allowed(KeysOf(h), now)
    <3>1. handler' = [handler EXCEPT ![h] = x]
      BY <1>1, <2>1 DEF Goes
    <3> HIDE DEF x
    <3> QED
      BY <3>1, <1>1, <1>5, HandlerGoesOn
  <2>2. CASE ~Allowed(KeysOf(h), now)
    BY <2>2, <1>1, GoesIdle DEF Typing, TablesTyped
  <2> QED
    BY <2>1, <2>2
<1> QED
  BY <1>2, <1>3, <1>6 DEF Typing

LEMMA LookupUserTyped ==
    ASSUME Typing, NEW h \in Handlers, LookupUser(h)
    PROVE  Typing'
<1>1. /\ At(h, "lookup") /\ UNCHANGED <<tables, now>>
      /\ handler' = [handler EXCEPT ![h].pc = "compare",
                                    ![h].hash = HashOf(handler[h].req.name)]
  BY DEF LookupUser, Unchanged
<1>2. TablesTyped'
  BY <1>1, SameTables DEF Typing, tables
<1>3. LimiterTyped'
  BY <1>1, SameLimiter DEF Typing, tables
<1>4. handler[h] \in Serving /\ Asked(handler[h], issued) /\ Read(handler[h], DOMAIN accounts, now)
  BY <1>1, Busy DEF At
<1> DEFINE x == [handler[h] EXCEPT !.pc = "compare", !.hash = HashOf(handler[h].req.name)]
<1>5. handler' = [handler EXCEPT ![h] = x]
  BY <1>1 DEF Typing, HandlersTyped
<1>6. /\ HashOf(handler[h].req.name) \in Passwords \cup {NoHash}
      /\ HashOf(handler[h].req.name) = NoHash \/ handler[h].req.name \in DOMAIN accounts
  BY DEF HashOf, Typing, TablesTyped
<1>7. Serves(x, issued, DOMAIN accounts, now)
  <2> HIDE DEF HashOf
  <2> QED
    BY <1>1, <1>4, <1>6 DEF At, Serves, Serving, Asked, Read, LoginStages, SessionStages
<1> HIDE DEF x
<1>8. HandlersTyped'
  BY <1>1, <1>5, <1>7, HandlerGoesOn DEF tables
<1> QED
  BY <1>2, <1>3, <1>8 DEF Typing

(***************************************************************************)
(* A password that was right is one of an account, for no password is the  *)
(* dummy hash.                                                             *)
(***************************************************************************)
LEMMA CompareTyped ==
    ASSUME Typing, NEW h \in Handlers, Compare(h)
    PROVE  Typing'
<1>1. At(h, "compare") /\ UNCHANGED <<accounts, sessions, issued, revoked, used, now>>
  BY DEF Compare, Unchanged
<1>2. TablesTyped'
  BY <1>1, SameTables DEF Typing
<1>3. handler[h] \in Serving /\ Asked(handler[h], issued) /\ Read(handler[h], DOMAIN accounts, now)
  BY <1>1, Busy DEF At
<1>4. CASE handler[h].hash = handler[h].req.given
  <2> DEFINE x == [handler[h] EXCEPT !.pc = "create", !.stamp = now]
  <2>1. handler' = [handler EXCEPT ![h] = x] /\ UNCHANGED attempts
    BY <1>4 DEF Compare, Typing, HandlersTyped
  <2>2. handler[h].hash # NoHash /\ handler[h].req.name \in DOMAIN accounts /\ now \in Nat
    BY <1>1, <1>3, <1>4, SessionsAssumption
       DEF At, Asked, Read, LoginStages, Typing, TablesTyped
  <2>3. x \in Serving
    BY <1>1, <1>3, <2>2 DEF At, Serving, LoginStages
  <2>4. Asked(x, issued)
    BY <1>1, <1>3 DEF At, Serving, Asked, LoginStages, SessionStages
  <2>5. Read(x, DOMAIN accounts, now)
    BY <1>1, <1>3, <2>2 DEF At, Serving, Read
  <2>6. Serves(x, issued, DOMAIN accounts, now)
    BY <2>3, <2>4, <2>5 DEF Serves
  <2> HIDE DEF x
  <2>7. HandlersTyped'
    BY <1>1, <2>1, <2>6, HandlerGoesOn
  <2>8. LimiterTyped'
    BY <1>1, <2>1, SameLimiter DEF Typing
  <2> QED
    BY <1>2, <2>7, <2>8 DEF Typing
<1>5. CASE handler[h].hash # handler[h].req.given
  <2>1. RecordFailure(KeysOf(h), now) /\ Goes(h, "idle")
    BY <1>5 DEF Compare
  <2>2. KeysOf(h) \subseteq LimiterKeys
    BY <1>1, <1>3, SessionsAssumption DEF At, Asked, LoginStages, KeysOf
  <2>3. LimiterTyped'
    BY <1>1, <2>1, <2>2, FailureTyped DEF Typing, TablesTyped
  <2>4. HandlersTyped'
    BY <1>1, <2>1, GoesIdle DEF Typing, TablesTyped
  <2> QED
    BY <1>2, <2>3, <2>4 DEF Typing
<1> QED
  BY <1>4, <1>5

LEMMA LoginDoneTyped ==
    ASSUME Typing, NEW h \in Handlers, LoginDone(h)
    PROVE  Typing'
<1>1. /\ Reset(KeysOf(h)) /\ Goes(h, "idle")
      /\ UNCHANGED <<accounts, sessions, issued, revoked, used, now>>
  BY DEF LoginDone, Unchanged
<1>2. TablesTyped'
  BY <1>1, SameTables DEF Typing
<1>3. LimiterTyped'
  BY <1>1, ResetTyped DEF Typing
<1>4. HandlersTyped'
  BY <1>1, GoesIdle DEF Typing, TablesTyped
<1> QED
  BY <1>2, <1>3, <1>4 DEF Typing

(***************************************************************************)
(* The rows that remain of a table are the rows they were.                 *)
(***************************************************************************)
LEMMA WithoutTyped ==
    ASSUME TablesTyped, NEW tokens, sessions' = Without(tokens),
           UNCHANGED <<accounts, issued, used, now>>, revoked' \subseteq 1..issued
    PROVE  TablesTyped'
<1>1. /\ DOMAIN sessions' = DOMAIN sessions \ tokens
      /\ \A t \in DOMAIN sessions' : sessions'[t] = sessions[t]
      /\ sessions' = [t \in DOMAIN sessions' |-> sessions'[t]]
  BY DEF Without
<1> QED
  BY <1>1 DEF TablesTyped

(***************************************************************************)
(* A new token: it names no row, no revoked session and no request.        *)
(***************************************************************************)
LEMMA CreateTyped ==
    ASSUME Typing, NEW h \in Handlers, CreateSession(h)
    PROVE  Typing'
<1>1. /\ At(h, "create") /\ issued' = issued + 1 /\ Goes(h, "reset")
      /\ UNCHANGED <<attempts, accounts, revoked, now>>
  BY DEF CreateSession, Unchanged
<1>2. handler[h] \in Serving /\ Asked(handler[h], issued) /\ Read(handler[h], DOMAIN accounts, now)
  BY <1>1, Busy DEF At
<1>3. /\ handler[h].req.name \in DOMAIN accounts /\ handler[h].stamp \in 0..now
      /\ handler[h].req.name \in Names
  BY <1>1, <1>2 DEF At, Read, Serving, Typing, TablesTyped
<1> DEFINE row == [user |-> handler[h].req.name, last_seen_at |-> now,
                   expires_at |-> handler[h].stamp + TTL]
<1>4. row \in Session /\ row.user \in DOMAIN accounts /\ row.last_seen_at <= now
  BY <1>3, SessionsAssumption DEF Session, Typing, TablesTyped
<1>5. /\ DOMAIN sessions' = DOMAIN sessions \cup {issued + 1}
      /\ \A t \in DOMAIN sessions' :
            sessions'[t] = IF t \in DOMAIN sessions THEN sessions[t] ELSE row
      /\ sessions' = [t \in DOMAIN sessions' |-> sessions'[t]]
  BY <1>1 DEF CreateSession
<1> HIDE DEF row
<1>6. sessions' \in [DOMAIN sessions' -> Session] /\ DOMAIN sessions' \subseteq 1..issued'
  BY <1>1, <1>4, <1>5 DEF Typing, TablesTyped
<1>7. \A t \in DOMAIN sessions' :
        sessions'[t].user \in DOMAIN accounts /\ sessions'[t].last_seen_at <= now
  BY <1>4, <1>5 DEF Typing, TablesTyped
<1>8. used' \in [1..issued' -> 0..now]
  <2>1. used' = [t \in 1..issued' |-> IF t = issued' THEN handler[h].stamp ELSE used[t]]
    BY DEF CreateSession
  <2>2. \A t \in 1..issued' : t # issued' => t \in 1..issued
    BY <1>1 DEF Typing, TablesTyped
  <2> QED
    BY <2>1, <2>2, <1>3 DEF Typing, TablesTyped
<1>9. TablesTyped'
  BY <1>1, <1>6, <1>7, <1>8 DEF Typing, TablesTyped
<1>10. LimiterTyped'
  BY <1>1, SameLimiter DEF Typing
<1>11. HandlersTyped'
  <2> DEFINE x == [handler[h] EXCEPT !.pc = "reset"]
  <2>1. handler' = [handler EXCEPT ![h] = x]
    BY <1>1 DEF Goes
  <2>2. issued' \in Nat /\ issued <= issued' /\ DOMAIN accounts \subseteq DOMAIN accounts'
    BY <1>1 DEF Typing, TablesTyped
  <2>3. Serves(x, issued, DOMAIN accounts, now)
    BY <1>1, <1>2 DEF At, Serves, Serving, Asked, Read, LoginStages, SessionStages
  <2> HIDE DEF x
  <2>4. Serves(x, issued', DOMAIN accounts', now')
    BY <2>2, <2>3, <1>1, ServesMonotone DEF Typing, TablesTyped
  <2> QED
    BY <1>1, <2>1, <2>2, <2>4, HandlerMoves
<1> QED
  BY <1>9, <1>10, <1>11 DEF Typing

LEMMA LookupSessionTyped ==
    ASSUME Typing, NEW h \in Handlers, LookupSession(h)
    PROVE  Typing'
<1> DEFINE t == handler[h].req.token
<1>1. At(h, "session") /\ UNCHANGED <<tables, now>>
  BY DEF LookupSession, Unchanged
<1>2. TablesTyped' /\ LimiterTyped'
  BY <1>1, SameTables, SameLimiter DEF Typing, tables
<1>3. handler[h] \in Serving /\ Asked(handler[h], issued) /\ Read(handler[h], DOMAIN accounts, now)
  BY <1>1, Busy DEF At
<1>4. CASE Goes(h, "idle")
  <2>1. HandlersTyped'
    BY <1>1, <1>4, GoesIdle DEF Typing, TablesTyped, tables
  <2> QED
    BY <1>2, <2>1 DEF Typing
<1>5. CASE Goes(h, "expire")
  <2> DEFINE x == [handler[h] EXCEPT !.pc = "expire"]
  <2>1. handler' = [handler EXCEPT ![h] = x]
    BY <1>5 DEF Goes
  <2>2. Serves(x, issued, DOMAIN accounts, now)
    BY <1>1, <1>3 DEF At, Serves, Serving, Asked, Read, LoginStages, SessionStages
  <2> HIDE DEF x
  <2>3. HandlersTyped'
    BY <1>1, <2>1, <2>2, HandlerGoesOn DEF tables
  <2> QED
    BY <1>2, <2>3 DEF Typing
<1>6. CASE /\ t \in DOMAIN sessions
           /\ handler' = [handler EXCEPT ![h].pc = "user", ![h].user = sessions[t].user,
                                         ![h].seen = sessions[t].last_seen_at]
  <2> DEFINE x == [handler[h] EXCEPT !.pc = "user", !.user = sessions[t].user,
                                     !.seen = sessions[t].last_seen_at]
  <2>1. handler' = [handler EXCEPT ![h] = x]
    BY <1>6 DEF Typing, HandlersTyped
  <2>2. /\ sessions[t].user \in DOMAIN accounts /\ sessions[t].user \in Names
        /\ sessions[t].last_seen_at \in Nat /\ sessions[t].last_seen_at <= now
    BY <1>6 DEF Typing, TablesTyped, Session
  <2>3. x \in Serving
    BY <1>3, <2>2 DEF Serving, SessionStages
  <2>4. Asked(x, issued)
    BY <1>1, <1>3 DEF At, Serving, Asked, LoginStages, SessionStages
  <2>5. Read(x, DOMAIN accounts, now)
    BY <1>1, <1>3, <2>2 DEF At, Serving, Read
  <2>6. Serves(x, issued, DOMAIN accounts, now)
    BY <2>3, <2>4, <2>5 DEF Serves
  <2> HIDE DEF x
  <2>7. HandlersTyped'
    BY <1>1, <2>1, <2>6, HandlerGoesOn DEF tables
  <2> QED
    BY <1>2, <2>7 DEF Typing
<1> QED
  BY <1>1, <1>4, <1>5, <1>6 DEF LookupSession

LEMMA ExpireSessionTyped ==
    ASSUME Typing, NEW h \in Handlers, ExpireSession(h)
    PROVE  Typing'
<1>1. Goes(h, "idle") /\ UNCHANGED <<attempts, accounts, issued, revoked, used, now>>
  BY DEF ExpireSession, Unchanged
<1>2. TablesTyped'
  <2>1. CASE UNCHANGED sessions
    BY <2>1, <1>1, SameTables DEF Typing
  <2>2. CASE sessions' = Without({handler[h].req.token})
    BY <2>2, <1>1, WithoutTyped DEF Typing, TablesTyped
  <2> QED
    BY <2>1, <2>2 DEF ExpireSession
<1>3. LimiterTyped'
  BY <1>1, SameLimiter DEF Typing
<1>4. HandlersTyped'
  BY <1>1, GoesIdle DEF Typing, TablesTyped
<1> QED
  BY <1>2, <1>3, <1>4 DEF Typing

LEMMA LogoutTyped ==
    ASSUME Typing, NEW h \in Handlers, Logout(h)
    PROVE  Typing'
<1>1. /\ At(h, "logout") /\ Goes(h, "idle")
      /\ UNCHANGED <<attempts, accounts, issued, used, now>>
  BY DEF Logout, Unchanged
<1>2. handler[h].req.token \in 1..issued
  BY <1>1, Busy DEF At, Asked
<1>3. TablesTyped'
  <2>1. CASE UNCHANGED <<sessions, revoked>>
    BY <2>1, <1>1, SameTables DEF Typing
  <2>2. CASE /\ sessions' = Without({handler[h].req.token})
             /\ revoked' = revoked \cup {handler[h].req.token}
    BY <2>2, <1>1, <1>2, WithoutTyped DEF Typing, TablesTyped
  <2> QED
    BY <2>1, <2>2 DEF Logout
<1>4. LimiterTyped'
  BY <1>1, SameLimiter DEF Typing
<1>5. HandlersTyped'
  BY <1>1, GoesIdle DEF Typing, TablesTyped
<1> QED
  BY <1>3, <1>4, <1>5 DEF Typing

LEMMA VerifyTyped ==
    ASSUME Typing, NEW h \in Handlers, Verify(h)
    PROVE  Typing'
<1>1. At(h, "verify") /\ UNCHANGED <<tables, now>>
  BY DEF Verify, Unchanged
<1>2. TablesTyped' /\ LimiterTyped'
  BY <1>1, SameTables, SameLimiter DEF Typing, tables
<1>3. handler[h] \in Serving /\ Asked(handler[h], issued) /\ Read(handler[h], DOMAIN accounts, now)
  BY <1>1, Busy DEF At
<1>4. CASE Goes(h, "idle")
  <2>1. HandlersTyped'
    BY <1>1, <1>4, GoesIdle DEF Typing, TablesTyped, tables
  <2> QED
    BY <1>2, <2>1 DEF Typing
<1>5. CASE Goes(h, "set")
  <2> DEFINE x == [handler[h] EXCEPT !.pc = "set"]
  <2>1. handler' = [handler EXCEPT ![h] = x]
    BY <1>5 DEF Goes
  <2>2. Serves(x, issued, DOMAIN accounts, now)
    BY <1>1, <1>3 DEF At, Serves, Serving, Asked, Read, LoginStages, SessionStages
  <2> HIDE DEF x
  <2>3. HandlersTyped'
    BY <1>1, <2>1, <2>2, HandlerGoesOn DEF tables
  <2> QED
    BY <1>2, <2>3 DEF Typing
<1> QED
  BY <1>4, <1>5 DEF Verify

(***************************************************************************)
(* sessionUser has answered: the request resolves its session again, goes  *)
(* on to its handler or is done.                                           *)
(***************************************************************************)
LEMMA ResolvedMoves ==
    ASSUME Typing, NEW h \in Handlers, At(h, "user") \/ At(h, "touch"), NEW hash, Resolved(h, hash)
    PROVE  \/ handler' = [handler EXCEPT ![h] = Idle]
           \/ handler' = [handler EXCEPT ![h] = [handler[h] EXCEPT !.pc = "session", !.again = 0]]
           \/ /\ handler' = [handler EXCEPT ![h] = [handler[h] EXCEPT !.pc = "verify", !.hash = hash]]
              /\ handler[h].req.op = "password"
<1> DEFINE y == handler[h]
           again == [y EXCEPT !.pc = "session", !.again = 0]
           goOn == [y EXCEPT !.pc = "verify", !.hash = hash]
           x == CASE y.again > 0 -> again
                  [] y.again = 0 /\ y.req.op = "password" -> goOn
                  [] y.again = 0 /\ y.req.op = "use" -> Idle
<1>1. handler' = [handler EXCEPT ![h] = x]
  BY DEF Resolved
<1>2. y.again \in {0, 1} /\ y.req.op \in {"use", "password"}
  BY Busy DEF At, Serving, Asked, SessionStages
<1>3. \/ x = Idle \/ x = again
      \/ (x = goOn /\ y.req.op = "password")
  <2> HIDE DEF y, again, goOn
  <2>1. CASE y.again > 0
    <3>1. x = again
      BY <1>2, <2>1
    <3> QED
      BY <3>1
  <2>2. CASE y.again = 0 /\ y.req.op = "password"
    <3>1. x = goOn
      BY <2>2
    <3> QED
      BY <2>2, <3>1
  <2>3. CASE y.again = 0 /\ y.req.op = "use"
    <3>1. x = Idle
      BY <2>3
    <3> QED
      BY <3>1
  <2> QED
    BY <1>2, <2>1, <2>2, <2>3
<1> HIDE DEF x, again, goOn
<1>4. \/ handler' = [handler EXCEPT ![h] = Idle]
      \/ handler' = [handler EXCEPT ![h] = again]
      \/ (handler' = [handler EXCEPT ![h] = goOn] /\ y.req.op = "password")
  BY <1>1, <1>3
<1> QED
  BY <1>4 DEF again, goOn

LEMMA ResolvedTyped ==
    ASSUME Typing, NEW h \in Handlers, At(h, "user") \/ At(h, "touch"),
           NEW hash \in Passwords \cup {NoHash}, Resolved(h, hash),
           UNCHANGED <<accounts, issued, now>>
    PROVE  HandlersTyped'
<1> DEFINE y == handler[h]
           again == [y EXCEPT !.pc = "session", !.again = 0]
           goOn == [y EXCEPT !.pc = "verify", !.hash = hash]
<1>1. y \in Serving /\ Asked(y, issued) /\ Read(y, DOMAIN accounts, now)
  BY Busy DEF At
<1>2. Serves(again, issued, DOMAIN accounts, now)
  <2>1. again \in Serving
    BY <1>1 DEF Serving, SessionStages
  <2>2. Asked(again, issued)
    BY <1>1 DEF At, Serving, Asked, LoginStages, SessionStages
  <2>3. Read(again, DOMAIN accounts, now)
    BY <1>1 DEF Serving, Read
  <2> QED
    BY <2>1, <2>2, <2>3 DEF Serves
<1>3. ASSUME y.req.op = "password" PROVE Serves(goOn, issued, DOMAIN accounts, now)
  <2>1. goOn \in Serving
    BY <1>1 DEF Serving, SessionStages
  <2>2. Asked(goOn, issued)
    BY <1>1, <1>3 DEF At, Serving, Asked, LoginStages, SessionStages
  <2>3. Read(goOn, DOMAIN accounts, now)
    BY <1>1 DEF At, Serving, Read
  <2> QED
    BY <2>1, <2>2, <2>3 DEF Serves
<1>4. Serves(Idle, issued, DOMAIN accounts, now)
  BY DEF Serves
<1>5. \/ handler' = [handler EXCEPT ![h] = Idle]
      \/ handler' = [handler EXCEPT ![h] = again]
      \/ (handler' = [handler EXCEPT ![h] = goOn] /\ y.req.op = "password")
  BY ResolvedMoves
<1> HIDE DEF again, goOn, y
<1> QED
  BY <1>2, <1>3, <1>4, <1>5, HandlerGoesOn

LEMMA UsesTyped ==
    ASSUME Typing, NEW t \in 1..issued, NEW at \in 0..now, Uses(t, at)
    PROVE  used' \in [1..issued -> 0..now]
BY DEF Uses, Typing, TablesTyped

LEMMA LookupOwnerTyped ==
    ASSUME Typing, NEW h \in Handlers, LookupOwner(h)
    PROVE  Typing'
<1>1. At(h, "user") /\ UNCHANGED <<attempts, accounts, sessions, issued, revoked, now>>
  BY DEF LookupOwner, Unchanged
<1>2. handler[h] \in Serving /\ Asked(handler[h], issued) /\ Read(handler[h], DOMAIN accounts, now)
  BY <1>1, Busy DEF At
<1>3. /\ handler[h].req.token \in 1..issued /\ now \in 0..now /\ now \in Nat
      /\ accounts[handler[h].user] \in Passwords
  BY <1>1, <1>2 DEF At, Asked, Read, SessionStages, Typing, TablesTyped
<1>4. LimiterTyped'
  BY <1>1, SameLimiter DEF Typing
<1>5. CASE now - handler[h].seen > RenewAfter
  <2> DEFINE x == [handler[h] EXCEPT !.pc = "touch", !.stamp = now,
                                     !.hash = accounts[handler[h].user]]
  <2>1. handler' = [handler EXCEPT ![h] = x] /\ UNCHANGED used
    BY <1>5 DEF LookupOwner, Typing, HandlersTyped
  <2>2. x \in Serving
    BY <1>2, <1>3 DEF Serving, SessionStages
  <2>3. Asked(x, issued)
    BY <1>1, <1>2 DEF At, Serving, Asked, LoginStages, SessionStages
  <2>4. Read(x, DOMAIN accounts, now)
    BY <1>1, <1>2, <1>3 DEF At, Serving, Read
  <2>5. Serves(x, issued, DOMAIN accounts, now)
    BY <2>2, <2>3, <2>4 DEF Serves
  <2> HIDE DEF x
  <2>6. HandlersTyped'
    BY <1>1, <2>1, <2>5, HandlerGoesOn
  <2>7. TablesTyped'
    BY <1>1, <2>1, SameTables DEF Typing
  <2> QED
    BY <1>4, <2>6, <2>7 DEF Typing
<1>6. CASE ~(now - handler[h].seen > RenewAfter)
  <2>1. Resolved(h, accounts[handler[h].user]) /\ Uses(handler[h].req.token, now)
    BY <1>6 DEF LookupOwner
  <2>2. HandlersTyped'
    BY <1>1, <1>3, <2>1, ResolvedTyped
  <2>3. used' \in [1..issued -> 0..now]
    BY <1>3, <2>1, UsesTyped
  <2>4. TablesTyped'
    BY <1>1, <2>3 DEF Typing, TablesTyped
  <2> QED
    BY <1>4, <2>2, <2>4 DEF Typing
<1> QED
  BY <1>5, <1>6

(***************************************************************************)
(* An UPDATE writes the row it finds and adds none.                        *)
(***************************************************************************)
LEMMA TouchedRows ==
    ASSUME Typing, NEW t, NEW at \in 0..now, NEW user, sessions' = Touched(t, at, user)
    PROVE  /\ DOMAIN sessions' = DOMAIN sessions
           /\ sessions' = [j \in DOMAIN sessions' |-> sessions'[j]]
           /\ \A j \in DOMAIN sessions : j # t => sessions'[j] = sessions[j]
           /\ t \in DOMAIN sessions =>
                /\ sessions'[t] \in Session /\ sessions'[t].user = sessions[t].user
                /\ sessions'[t].last_seen_at = now /\ sessions'[t].expires_at = at + TTL
<1>1. /\ DOMAIN sessions' = DOMAIN sessions
      /\ sessions' = [j \in DOMAIN sessions' |-> sessions'[j]]
      /\ \A j \in DOMAIN sessions : j # t => sessions'[j] = sessions[j]
      /\ t \in DOMAIN sessions => sessions'[t] = TouchedRow(sessions[t], at)
  BY DEF Touched
<1>2. ASSUME t \in DOMAIN sessions
      PROVE  /\ sessions'[t] \in Session /\ sessions'[t].user = sessions[t].user
             /\ sessions'[t].last_seen_at = now /\ sessions'[t].expires_at = at + TTL
  <2>1. sessions[t] \in Session /\ now \in Nat /\ at \in Nat
    BY <1>2 DEF Typing, TablesTyped
  <2> DEFINE row == sessions[t]
  <2>2. /\ TouchedRow(row, at).user = row.user
        /\ TouchedRow(row, at).last_seen_at = now /\ TouchedRow(row, at).expires_at = at + TTL
        /\ TouchedRow(row, at) \in Session
    <3>1. row \in Session /\ at + TTL \in Int
      BY <2>1, SessionsAssumption
    <3> HIDE DEF row
    <3> QED
      BY <3>1, <2>1 DEF TouchedRow, Session
  <2> QED
    BY <1>1, <1>2, <2>2
<1> QED
  BY <1>1, <1>2

LEMMA TouchSessionTyped ==
    ASSUME Typing, NEW h \in Handlers, TouchSession(h)
    PROVE  Typing'
<1> DEFINE t == handler[h].req.token
<1>1. /\ At(h, "touch") /\ Resolved(h, handler[h].hash)
      /\ UNCHANGED <<attempts, accounts, issued, revoked, now>>
  BY DEF TouchSession, Unchanged
<1>2. handler[h] \in Serving /\ Asked(handler[h], issued) /\ Read(handler[h], DOMAIN accounts, now)
  BY <1>1, Busy DEF At
<1>3. /\ t \in 1..issued /\ handler[h].stamp \in 0..now
      /\ handler[h].hash \in Passwords \cup {NoHash}
  BY <1>1, <1>2 DEF At, Asked, Read, Serving, SessionStages, Typing, TablesTyped
<1>4. LimiterTyped'
  BY <1>1, SameLimiter DEF Typing
<1>5. HandlersTyped'
  BY <1>1, <1>3, ResolvedTyped
<1>6. CASE UNCHANGED <<sessions, used>>
  <2>1. TablesTyped'
    BY <1>1, <1>6, SameTables DEF Typing
  <2> QED
    BY <1>4, <1>5, <2>1 DEF Typing
<1>7. CASE sessions' = Touched(t, handler[h].stamp, handler[h].user) /\ Uses(t, handler[h].stamp)
  <2>1. used' \in [1..issued -> 0..now]
    BY <1>3, <1>7, UsesTyped
  <2>2. /\ DOMAIN sessions' = DOMAIN sessions
        /\ sessions' = [j \in DOMAIN sessions' |-> sessions'[j]]
        /\ \A j \in DOMAIN sessions : j # t => sessions'[j] = sessions[j]
        /\ t \in DOMAIN sessions =>
            /\ sessions'[t] \in Session /\ sessions'[t].user = sessions[t].user
            /\ sessions'[t].last_seen_at = now
    <3> DEFINE at == handler[h].stamp
               user == handler[h].user
    <3>1. sessions' = Touched(t, at, user) /\ at \in 0..now
      BY <1>3, <1>7
    <3> HIDE DEF at, user, t
    <3> QED
      BY <3>1, TouchedRows
  <2> HIDE DEF t
  <2>3. TablesTyped'
    <3>1. sessions' \in [DOMAIN sessions' -> Session]
      BY <2>2 DEF Typing, TablesTyped
    <3>2. ASSUME NEW j \in DOMAIN sessions'
          PROVE  sessions'[j].user \in DOMAIN accounts /\ sessions'[j].last_seen_at <= now
      <4>1. /\ j \in DOMAIN sessions /\ sessions[j].user \in DOMAIN accounts
            /\ sessions[j].last_seen_at <= now /\ now \in Nat
        BY <2>2 DEF Typing, TablesTyped
      <4>2. CASE j = t
        BY <2>2, <4>1, <4>2
      <4>3. CASE j # t
        BY <2>2, <4>1, <4>3
      <4> QED
        BY <4>2, <4>3
    <3> QED
      BY <1>1, <2>1, <2>2, <3>1, <3>2 DEF Typing, TablesTyped
  <2> QED
    BY <1>4, <1>5, <2>3 DEF Typing
<1> QED
  BY <1>6, <1>7 DEF TouchSession

-----------------------------------------------------------------------------
(* Typing: passwords, new requests, new processes and time.                *)

LEMMA SetAdminPasswordTyped ==
    ASSUME Typing, NEW name \in Names, NEW password \in Passwords,
           SetAdminPassword(name, password), now' = now
    PROVE  TablesTyped' /\ LimiterTyped' /\ DOMAIN accounts \subseteq DOMAIN accounts'
<1>1. /\ accounts' = WithPassword(name, password) /\ sessions' = Without(TokensOf(name))
      /\ revoked' = revoked \cup TokensOf(name) /\ UNCHANGED <<attempts, issued, used>>
  BY DEF SetAdminPassword, SessionsAfterPassword
<1>2. /\ accounts' \in [DOMAIN accounts' -> Passwords] /\ DOMAIN accounts' \subseteq Names
      /\ DOMAIN accounts \subseteq DOMAIN accounts'
  BY <1>1 DEF WithPassword, Typing, TablesTyped
<1>3. TokensOf(name) \subseteq 1..issued
  BY DEF TokensOf, Typing, TablesTyped
<1>4. /\ DOMAIN sessions' \subseteq DOMAIN sessions
      /\ \A t \in DOMAIN sessions' : sessions'[t] = sessions[t]
      /\ sessions' = [t \in DOMAIN sessions' |-> sessions'[t]]
  BY <1>1 DEF Without
<1>5. TablesTyped'
  BY <1>1, <1>2, <1>3, <1>4 DEF Typing, TablesTyped
<1>6. LimiterTyped'
  BY <1>1, SameLimiter DEF Typing
<1> QED
  BY <1>2, <1>5, <1>6

LEMMA ChangePasswordTyped ==
    ASSUME Typing, NEW h \in Handlers, ChangePassword(h)
    PROVE  Typing'
<1>1. /\ At(h, "set") /\ SetAdminPassword(handler[h].user, handler[h].req.new)
      /\ Goes(h, "idle") /\ now' = now
  BY DEF ChangePassword, Unchanged
<1>2. handler[h] \in Serving /\ Asked(handler[h], issued) /\ Read(handler[h], DOMAIN accounts, now)
  BY <1>1, Busy DEF At
<1>3. handler[h].user \in Names
  BY <1>1, <1>2 DEF At, Read, Typing, TablesTyped
<1>4. handler[h].req.new \in Passwords
  BY <1>1, <1>2 DEF At, Asked
<1>5. TablesTyped' /\ LimiterTyped' /\ DOMAIN accounts \subseteq DOMAIN accounts'
  BY <1>1, <1>3, <1>4, SetAdminPasswordTyped
<1>6. issued' \in Nat /\ issued <= issued'
  BY <1>1 DEF SetAdminPassword, Typing, TablesTyped
<1>7. HandlersTyped'
  BY <1>1, <1>5, <1>6, GoesIdle
<1> QED
  BY <1>5, <1>7 DEF Typing

LEMMA SetPasswordTyped ==
    ASSUME Typing, NEW name \in Names, NEW password \in Passwords, SetPassword(name, password)
    PROVE  Typing'
<1>1. SetAdminPassword(name, password) /\ UNCHANGED <<handler, now>>
  BY DEF SetPassword
<1>2. TablesTyped' /\ LimiterTyped' /\ DOMAIN accounts \subseteq DOMAIN accounts'
  BY <1>1, SetAdminPasswordTyped
<1>3. issued' \in Nat /\ issued <= issued'
  BY <1>1 DEF SetAdminPassword, Typing, TablesTyped
<1>4. HandlersTyped'
  BY <1>1, <1>2, <1>3, AllStay
<1> QED
  BY <1>2, <1>4 DEF Typing

LEMMA AcceptTyped ==
    ASSUME Typing, NEW h \in Handlers, NEW req \in Request, Accept(h, req)
    PROVE  Typing'
<1> DEFINE x == [pc |-> Start(req.op), req |-> req, user |-> NoHash, hash |-> NoHash, seen |-> 0,
                 stamp |-> 0, since |-> now, again |-> IF req.op = "password" THEN 1 ELSE 0]
<1>1. handler' = [handler EXCEPT ![h] = x] /\ UNCHANGED <<tables, now>>
  BY DEF Accept
<1>2. TablesTyped' /\ LimiterTyped'
  BY <1>1, SameTables, SameLimiter DEF Typing, tables
<1>3. now \in Nat /\ issued \in Nat
  BY DEF Typing, TablesTyped
<1>4. /\ x.pc = Start(req.op) /\ x.req = req /\ x.since = now /\ x.user = NoHash
      /\ x.hash = NoHash /\ x.seen = 0 /\ x.stamp = 0
      /\ x.again = IF req.op = "password" THEN 1 ELSE 0
      /\ x = [pc |-> x.pc, req |-> x.req, user |-> x.user, hash |-> x.hash, seen |-> x.seen,
              stamp |-> x.stamp, since |-> x.since, again |-> x.again]
  OBVIOUS
<1> HIDE DEF x
<1>5. Serves(x, issued, DOMAIN accounts, now)
  <2>1. CASE req.op = "login"
    <3>1. req \in AnyRequest /\ req.name \in Names /\ req.addr \in Addrs /\ req.given \in Passwords
      BY <2>1, <1>3 DEF Request, AnyRequest
    <3>2. x.pc = "throttle"
      BY <1>4, <2>1 DEF Start
    <3> QED
      BY <1>3, <1>4, <2>1, <3>1, <3>2
         DEF Serves, Serving, Asked, Read, LoginStages, SessionStages
  <2>2. CASE req.op # "login"
    <3>1. /\ req \in AnyRequest /\ req.token \in 1..issued /\ req.op \in {"use", "logout", "password"}
          /\ req.op = "password" => req.given \in Passwords /\ req.new \in Passwords
      BY <2>2, <1>3 DEF Request, AnyRequest
    <3>2. x.pc = IF req.op = "logout" THEN "logout" ELSE "session"
      BY <1>4, <2>2 DEF Start
    <3> QED
      BY <1>3, <1>4, <2>2, <3>1, <3>2
         DEF Serves, Serving, Asked, Read, LoginStages, SessionStages
  <2> QED
    BY <2>1, <2>2
<1>6. HandlersTyped'
  BY <1>1, <1>5, HandlerGoesOn DEF tables
<1> QED
  BY <1>2, <1>6 DEF Typing

LEMMA RestartTyped ==
    ASSUME Typing, Restart
    PROVE  Typing'
<1>1. /\ attempts' = <<>> /\ handler' = [h \in Handlers |-> Idle]
      /\ UNCHANGED <<issued, revoked, used, now>>
  BY DEF Restart
<1>2. /\ accounts' \in [DOMAIN accounts' -> Passwords] /\ DOMAIN accounts' \subseteq Names
      /\ DOMAIN accounts \subseteq DOMAIN accounts'
  <2>1. CASE UNCHANGED accounts
    BY <2>1 DEF Typing, TablesTyped
  <2>2. ASSUME NEW name \in Names, NEW password \in Passwords,
               accounts' = WithPassword(name, password)
        PROVE  /\ accounts' \in [DOMAIN accounts' -> Passwords] /\ DOMAIN accounts' \subseteq Names
               /\ DOMAIN accounts \subseteq DOMAIN accounts'
    BY <2>2 DEF WithPassword, Typing, TablesTyped
  <2> QED
    BY <2>1, <2>2 DEF Restart, Seed
<1>3. /\ DOMAIN sessions' \subseteq DOMAIN sessions
      /\ \A t \in DOMAIN sessions' : sessions'[t] = sessions[t]
      /\ sessions' = [t \in DOMAIN sessions' |-> sessions'[t]]
  BY DEF Restart, Without, Typing, TablesTyped
<1>4. TablesTyped'
  BY <1>1, <1>2, <1>3 DEF Typing, TablesTyped
<1>5. LimiterTyped'
  BY <1>1 DEF LimiterTyped
<1>6. HandlersTyped'
  BY <1>1 DEF HandlersTyped, Serves
<1> QED
  BY <1>4, <1>5, <1>6 DEF Typing

LEMMA PassTypes ==
    ASSUME Typing, Pass
    PROVE  Typing'
<1>1. now' = now + 1 /\ UNCHANGED <<tables, handler>> /\ now \in Nat
  BY DEF Pass, Typing, TablesTyped
<1>2. TablesTyped'
  <2>1. \A t \in DOMAIN sessions : sessions[t].last_seen_at \in Nat
    BY DEF Typing, TablesTyped, Session
  <2>2. 0..now \subseteq 0..now'
    BY <1>1
  <2> QED
    BY <1>1, <2>1, <2>2 DEF Typing, TablesTyped, tables
<1>3. LimiterTyped'
  BY <1>1, PassTyped DEF Typing, tables
<1>4. ASSUME NEW h \in Handlers PROVE Serves(handler[h], issued, DOMAIN accounts, now + 1)
  <2>1. CASE At(h, "idle")
    BY <2>1 DEF At, Typing, HandlersTyped, Serves, Serving, LoginStages, SessionStages
  <2>2. CASE ~At(h, "idle")
    <3>1. handler[h] \in Serving /\ Asked(handler[h], issued) /\ Read(handler[h], DOMAIN accounts, now)
      BY <2>2, Busy
    <3>2. handler[h].since = now
      BY <2>2 DEF Pass
    <3>3. Read(handler[h], DOMAIN accounts, now + 1)
      BY <1>1, <3>1, <3>2 DEF Read, Serving
    <3> QED
      BY <3>1, <3>3 DEF Serves
  <2> QED
    BY <2>1, <2>2
<1>5. HandlersTyped'
  BY <1>1, <1>4 DEF HandlersTyped, tables, Typing
<1> QED
  BY <1>2, <1>3, <1>5 DEF Typing

-----------------------------------------------------------------------------
(* Typing holds.                                                           *)

LEMMA TypingInit ==
    ASSUME Init
    PROVE  Typing
<1>1. TablesTyped
  <2>1. DOMAIN <<>> = {} /\ \A S : <<>> \in [{} -> S]
    OBVIOUS
  <2>2. 1..0 = {}
    OBVIOUS
  <2>3. accounts \in [DOMAIN accounts -> Passwords] /\ DOMAIN accounts \subseteq Names
    <3>1. CASE accounts = <<>>
      BY <3>1, <2>1
    <3>2. CASE \E name \in Names, password \in Passwords : accounts = [n \in {name} |-> password]
      BY <3>2
    <3> QED
      BY <3>1, <3>2 DEF Init
  <2>4. sessions = <<>> /\ used = <<>> /\ issued = 0 /\ now = 0 /\ revoked = {}
    BY DEF Init
  <2> QED
    BY <2>1, <2>2, <2>3, <2>4 DEF TablesTyped
<1>2. HandlersTyped
  BY DEF Init, HandlersTyped, Serves
<1>3. LimiterTyped
  BY DEF Init, LimiterInit, LimiterTyped
<1> QED
  BY <1>1, <1>2, <1>3 DEF Typing

LEMMA TypingStep ==
    ASSUME Typing, [Next]_vars
    PROVE  Typing'
<1>1. ASSUME NEW h \in Handlers, HandlerStep(h) PROVE Typing'
  BY <1>1, RefuseTyped, ThrottleTyped, LookupUserTyped, CompareTyped, CreateTyped,
     LoginDoneTyped, LookupSessionTyped, ExpireSessionTyped, LookupOwnerTyped,
     TouchSessionTyped, LogoutTyped, VerifyTyped, ChangePasswordTyped DEF HandlerStep
<1>2. ASSUME NEW h \in Handlers, NEW req \in Request, Accept(h, req) PROVE Typing'
  BY <1>2, AcceptTyped
<1>3. ASSUME NEW name \in Names, NEW password \in Passwords, SetPassword(name, password)
      PROVE  Typing'
  BY <1>3, SetPasswordTyped
<1>4. CASE Restart
  BY <1>4, RestartTyped
<1>5. CASE Pass
  BY <1>5, PassTypes
<1>6. CASE UNCHANGED vars
  <2>1. UNCHANGED <<attempts, accounts, sessions, issued, revoked, used, handler, now>>
    BY <1>6 DEF vars
  <2>2. TablesTyped' /\ LimiterTyped' /\ HandlersTyped'
    BY <2>1, SameTables, SameLimiter DEF Typing, HandlersTyped
  <2> QED
    BY <2>2 DEF Typing
<1> QED
  BY <1>1, <1>2, <1>3, <1>4, <1>5, <1>6 DEF Next

(***************************************************************************)
(* The tables, the limiter and the requests keep their shape, and time     *)
(* passes at most once during a request (auth.go, storage/session.go).     *)
(***************************************************************************)
LEMMA TypingIsTypeOK ==
    ASSUME Typing
    PROVE  TypeOK
<1>1. LimiterTypeOK(now)
  BY DEF Typing, LimiterTyped, Ordered, LimiterTypeOK
<1>2. ASSUME NEW h \in Handlers PROVE At(h, "idle") \/ now - handler[h].since \in {0, 1}
  <2>1. CASE ~At(h, "idle")
    BY <2>1, Busy DEF Read, Serving, Typing, TablesTyped
  <2> QED
    BY <2>1
<1>3. /\ DOMAIN accounts \subseteq Names /\ \A n \in DOMAIN accounts : accounts[n] \in Passwords
      /\ DOMAIN sessions \subseteq 1..issued /\ revoked \subseteq 1..issued
      /\ \A t \in DOMAIN sessions : sessions[t] \in Session /\ sessions[t].user \in DOMAIN accounts
      /\ used \in [1..issued -> 0..now]
  BY DEF Typing, TablesTyped
<1> QED
  BY <1>1, <1>2, <1>3 DEF TypeOK

\* The tables keep their types: a session always belongs to an account that
\* exists, and a request in flight holds what it may have read.
THEOREM SessionsTyped == Spec => []TypeOK
<1>1. Init => Typing
  BY TypingInit
<1>2. Typing /\ [Next]_vars => Typing'
  BY TypingStep
<1>3. Typing => TypeOK
  BY TypingIsTypeOK
<1> QED
  BY <1>1, <1>2, <1>3, PTL DEF Spec

-----------------------------------------------------------------------------
(* Revoked sessions.                                                       *)

(***************************************************************************)
(* The only step that adds a row adds it under a token nobody had: an      *)
(* update cannot bring back what was deleted under it.                     *)
(***************************************************************************)
LEMMA RevokedStep ==
    ASSUME Typing, RevokedStaysOut, [Next]_vars
    PROVE  RevokedStaysOut'
<1> USE DEF RevokedStaysOut
<1>1. ASSUME NEW h \in Handlers,
             \/ Refuse(h) \/ Throttle(h) \/ LookupUser(h) \/ Compare(h) \/ LoginDone(h)
             \/ LookupSession(h) \/ LookupOwner(h) \/ Verify(h)
      PROVE  RevokedStaysOut'
  <2>1. UNCHANGED <<sessions, revoked>>
    BY <1>1 DEF Refuse, Throttle, LookupUser, Compare, LoginDone, LookupSession, LookupOwner,
                Verify, tables
  <2> QED
    BY <2>1
<1>2. ASSUME NEW h \in Handlers, CreateSession(h) PROVE RevokedStaysOut'
  <2>1. DOMAIN sessions' = DOMAIN sessions \cup {issued + 1} /\ revoked' = revoked
    BY <1>2 DEF CreateSession
  <2>2. issued + 1 \notin revoked
    BY DEF Typing, TablesTyped
  <2> QED
    BY <2>1, <2>2
<1>3. ASSUME NEW h \in Handlers, ExpireSession(h) \/ Logout(h) PROVE RevokedStaysOut'
  BY <1>3 DEF ExpireSession, Logout, Without
<1>4. ASSUME NEW h \in Handlers, TouchSession(h) PROVE RevokedStaysOut'
  <2>1. DOMAIN sessions' = DOMAIN sessions /\ revoked' = revoked
    BY <1>4 DEF TouchSession, Touched
  <2> QED
    BY <2>1
<1>5. ASSUME NEW name, NEW password, SetAdminPassword(name, password) PROVE RevokedStaysOut'
  <2>1. /\ DOMAIN sessions' = DOMAIN sessions \ TokensOf(name)
        /\ revoked' = revoked \cup TokensOf(name)
    BY <1>5 DEF SetAdminPassword, SessionsAfterPassword, Without
  <2> QED
    BY <2>1
<1>6. CASE Restart
  BY <1>6 DEF Restart, Without
<1>7. CASE Pass \/ UNCHANGED vars \/ \E h \in Handlers, req \in Request : Accept(h, req)
  <2>1. UNCHANGED <<sessions, revoked>>
    BY <1>7 DEF Pass, Accept, vars, tables
  <2> QED
    BY <2>1
<1> QED
  BY <1>1, <1>2, <1>3, <1>4, <1>5, <1>6, <1>7
     DEF Next, HandlerStep, ChangePassword, SetPassword

(***************************************************************************)
(* A session that was logged out or revoked is never a session again       *)
(* (session.go, SetAdminPassword), whatever requests were under way.       *)
(***************************************************************************)
THEOREM RevokedForGood == Spec => []RevokedStaysOut
<1>1. Init => Typing /\ RevokedStaysOut
  BY TypingInit DEF Init, RevokedStaysOut
<1>2. Typing /\ RevokedStaysOut /\ [Next]_vars => Typing' /\ RevokedStaysOut'
  BY TypingStep, RevokedStep
<1> QED
  BY <1>1, <1>2, PTL DEF Spec

-----------------------------------------------------------------------------
(* Expiry.                                                                 *)

\* Nobody has read a session in this step.
NobodyLooksUp == \A g \in Handlers : handler'[g].pc = "user" => handler'[g] = handler[g]

LEMMA MovesElsewhere ==
    ASSUME Typing, NEW h \in Handlers, NEW x, x.pc # "user",
           handler' = [handler EXCEPT ![h] = x]
    PROVE  NobodyLooksUp
BY DEF NobodyLooksUp, Typing, HandlersTyped

LEMMA GoesElsewhere ==
    ASSUME Typing, NEW h \in Handlers, NEW pc, pc # "user", Goes(h, pc)
    PROVE  NobodyLooksUp
<1>1. CASE pc = "idle"
  <2>1. handler' = [handler EXCEPT ![h] = Idle] /\ Idle.pc # "user"
    BY <1>1 DEF Goes, Idle
  <2> QED
    BY <2>1, MovesElsewhere
<1>2. CASE pc # "idle"
  <2> DEFINE x == [handler[h] EXCEPT !.pc = pc]
  <2>1. handler' = [handler EXCEPT ![h] = x]
    BY <1>2 DEF Goes
  <2>2. CASE At(h, "idle")
    <3>1. x.pc # "user"
      BY <2>2, Busy DEF Typing, HandlersTyped, Serves, At, Idle, Serving, LoginStages, SessionStages
    <3> HIDE DEF x
    <3> QED
      BY <2>1, <3>1, MovesElsewhere
  <2>3. CASE ~At(h, "idle")
    <3>1. x.pc # "user"
      BY <2>3, Busy DEF Serving
    <3> HIDE DEF x
    <3> QED
      BY <2>1, <3>1, MovesElsewhere
  <2> QED
    BY <2>2, <2>3
<1> QED
  BY <1>1, <1>2

LEMMA ResolvedElsewhere ==
    ASSUME Typing, NEW h \in Handlers, At(h, "user") \/ At(h, "touch"), NEW hash, Resolved(h, hash)
    PROVE  NobodyLooksUp
<1>1. handler[h] \in Serving
  BY Busy DEF At
<1> DEFINE again == [handler[h] EXCEPT !.pc = "session", !.again = 0]
           goOn == [handler[h] EXCEPT !.pc = "verify", !.hash = hash]
<1>2. again.pc # "user" /\ goOn.pc # "user" /\ Idle.pc # "user"
  BY <1>1 DEF Serving, Idle
<1>3. \/ handler' = [handler EXCEPT ![h] = Idle]
      \/ handler' = [handler EXCEPT ![h] = again]
      \/ handler' = [handler EXCEPT ![h] = goOn]
  BY ResolvedMoves
<1> HIDE DEF again, goOn
<1> QED
  BY <1>2, <1>3, MovesElsewhere

Expiry == Slides /\ ExpirySlides

(***************************************************************************)
(* Rows that stay what they are, or go, keep their expiry.                 *)
(***************************************************************************)
LEMMA ExpiryKept ==
    ASSUME Typing, Expiry, NobodyLooksUp, used' = used,
           DOMAIN sessions' \subseteq DOMAIN sessions,
           \A t \in DOMAIN sessions' : sessions'[t] = sessions[t]
    PROVE  Expiry'
<1>1. \A t \in DOMAIN sessions' :
        /\ sessions'[t].expires_at >= sessions'[t].last_seen_at + TTL - 1
        /\ sessions'[t].expires_at <= used'[t] + TTL
        /\ sessions'[t].expires_at >= used'[t] + TTL - RenewAfter - 1
  BY DEF Expiry, Slides, ExpirySlides
<1>2. ASSUME NEW h \in Handlers, handler'[h].pc = "user",
             handler'[h].req.token \in DOMAIN sessions'
      PROVE  handler'[h].seen <= sessions'[handler'[h].req.token].last_seen_at
  BY <1>2 DEF NobodyLooksUp, Expiry, Slides, At
<1> QED
  BY <1>1, <1>2 DEF Expiry, Slides, ExpirySlides, At

(***************************************************************************)
(* A new row's expiry is taken from the clock before its last_seen_at, by  *)
(* at most the unit a request may take.                                    *)
(***************************************************************************)
LEMMA CreateExpiry ==
    ASSUME Typing, Expiry, NEW h \in Handlers, CreateSession(h)
    PROVE  Expiry'
<1> DEFINE stamp == handler[h].stamp
<1>1. /\ At(h, "create") /\ issued' = issued + 1 /\ Goes(h, "reset")
      /\ issued \in Nat /\ now \in Nat
  BY DEF CreateSession, Typing, TablesTyped
<1>2. /\ handler[h].stamp \in Nat /\ handler[h].since \in Nat
      /\ handler[h].since <= stamp /\ stamp <= now /\ now <= handler[h].since + 1
  BY <1>1, Busy DEF At, Read, Serving
<1>3. /\ DOMAIN sessions' = DOMAIN sessions \cup {issued + 1}
      /\ \A t \in DOMAIN sessions : sessions'[t] = sessions[t] /\ used'[t] = used[t]
      /\ issued + 1 \notin DOMAIN sessions
      /\ sessions'[issued + 1] = [user |-> handler[h].req.name, last_seen_at |-> now,
                                  expires_at |-> stamp + TTL]
      /\ used'[issued + 1] = stamp
  <2>1. /\ DOMAIN sessions' = DOMAIN sessions \cup {issued + 1}
        /\ \A t \in DOMAIN sessions' : sessions'[t] =
                IF t \in DOMAIN sessions THEN sessions[t]
                ELSE [user |-> handler[h].req.name, last_seen_at |-> now,
                      expires_at |-> stamp + TTL]
    BY <1>1 DEF CreateSession
  <2>2. \A t \in 1..(issued + 1) : used'[t] = IF t = issued + 1 THEN stamp ELSE used[t]
    BY <1>1 DEF CreateSession
  <2>3. DOMAIN sessions \subseteq 1..issued
    BY DEF Typing, TablesTyped
  <2> QED
    BY <2>1, <2>2, <2>3, <1>1
<1> HIDE DEF stamp
<1>4. ASSUME NEW t \in DOMAIN sessions'
      PROVE  /\ sessions'[t].expires_at >= sessions'[t].last_seen_at + TTL - 1
             /\ sessions'[t].expires_at <= used'[t] + TTL
             /\ sessions'[t].expires_at >= used'[t] + TTL - RenewAfter - 1
  <2>1. CASE t \in DOMAIN sessions
    BY <1>3, <2>1 DEF Expiry, Slides, ExpirySlides
  <2>2. CASE t = issued + 1
    <3>1. /\ sessions'[t].expires_at = stamp + TTL /\ sessions'[t].last_seen_at = now
          /\ used'[t] = stamp /\ stamp \in Nat
      BY <1>3, <2>2, <1>2 DEF stamp
    <3> QED
      BY <3>1, <1>1, <1>2, SessionsAssumption
  <2> QED
    BY <1>3, <2>1, <2>2
<1>5. NobodyLooksUp
  BY <1>1, GoesElsewhere
<1>6. ASSUME NEW g \in Handlers, handler'[g].pc = "user", handler'[g].req.token \in DOMAIN sessions'
      PROVE  handler'[g].seen <= sessions'[handler'[g].req.token].last_seen_at
  <2>1. handler'[g] = handler[g]
    BY <1>5, <1>6 DEF NobodyLooksUp
  <2>2. handler[g].req.token \in 1..issued
    BY <2>1, <1>6, Busy DEF At, Asked, SessionStages
  <2>3. handler[g].req.token \in DOMAIN sessions
    BY <2>1, <2>2, <1>3, <1>1, <1>6
  <2> QED
    BY <2>1, <2>3, <1>3, <1>6 DEF Expiry, Slides, At
<1> QED
  BY <1>4, <1>6 DEF Expiry, Slides, ExpirySlides, At

LEMMA LookupSessionExpiry ==
    ASSUME Typing, Expiry, NEW h \in Handlers, LookupSession(h)
    PROVE  Expiry'
<1> DEFINE t == handler[h].req.token
<1>1. UNCHANGED <<sessions, used>>
  BY DEF LookupSession, tables
<1>2. CASE Goes(h, "idle") \/ Goes(h, "expire")
  BY <1>1, <1>2, GoesElsewhere, ExpiryKept
<1>3. CASE /\ t \in DOMAIN sessions
           /\ handler' = [handler EXCEPT ![h].pc = "user", ![h].user = sessions[t].user,
                                         ![h].seen = sessions[t].last_seen_at]
  <2>1. ASSUME NEW g \in Handlers, handler'[g].pc = "user", handler'[g].req.token \in DOMAIN sessions
        PROVE  handler'[g].seen <= sessions[handler'[g].req.token].last_seen_at
    <3>1. CASE g = h
      <4>1. handler[h] \in Serving
        BY Busy DEF LookupSession, At
      <4>2. handler'[h] = [handler[h] EXCEPT !.pc = "user", !.user = sessions[t].user,
                                             !.seen = sessions[t].last_seen_at]
        BY <1>3 DEF Typing, HandlersTyped
      <4>3. handler'[h].seen = sessions[t].last_seen_at /\ handler'[h].req = handler[h].req
        BY <4>1, <4>2 DEF Serving
      <4>4. sessions[t].last_seen_at \in Nat
        BY <1>3 DEF Typing, TablesTyped, Session
      <4> QED
        BY <3>1, <4>3, <4>4
    <3>2. CASE g # h
      <4>1. handler'[g] = handler[g]
        BY <1>3, <3>2 DEF Typing, HandlersTyped
      <4> QED
        BY <4>1, <2>1 DEF Expiry, Slides, At
    <3> QED
      BY <3>1, <3>2
  <2> QED
    BY <1>1, <2>1 DEF Expiry, Slides, ExpirySlides, At
<1> QED
  BY <1>2, <1>3 DEF LookupSession

(***************************************************************************)
(* A use that is not written down: what was read of last_seen_at is recent *)
(* enough, and the row can only have been seen later since.                *)
(***************************************************************************)
LEMMA LookupOwnerExpiry ==
    ASSUME Typing, Expiry, NEW h \in Handlers, LookupOwner(h)
    PROVE  Expiry'
<1> DEFINE t == handler[h].req.token
           seen == handler[h].seen
<1>1. At(h, "user") /\ UNCHANGED <<sessions, issued, now>>
  BY DEF LookupOwner, Unchanged
<1>2. handler[h] \in Serving /\ Asked(handler[h], issued) /\ Read(handler[h], DOMAIN accounts, now)
  BY <1>1, Busy DEF At
<1>3. t \in 1..issued /\ seen \in Nat /\ now \in Nat
  BY <1>1, <1>2 DEF At, Asked, Serving, SessionStages, Typing, TablesTyped
<1>4. CASE now - seen > RenewAfter
  <2> DEFINE x == [handler[h] EXCEPT !.pc = "touch", !.stamp = now,
                                     !.hash = accounts[handler[h].user]]
  <2>1. handler' = [handler EXCEPT ![h] = x] /\ UNCHANGED used
    BY <1>4 DEF LookupOwner, Typing, HandlersTyped
  <2>2. x.pc # "user"
    BY <1>2 DEF Serving
  <2> HIDE DEF x
  <2> QED
    BY <1>1, <2>1, <2>2, MovesElsewhere, ExpiryKept
<1>5. CASE ~(now - seen > RenewAfter)
  <2>1. Resolved(h, accounts[handler[h].user]) /\ Uses(t, now)
    BY <1>5 DEF LookupOwner
  <2>2. NobodyLooksUp
    BY <1>1, <2>1, ResolvedElsewhere
  <2>3. /\ used'[t] = now
        /\ \A j \in 1..issued : j # t => used'[j] = used[j]
    BY <2>1, <1>3 DEF Uses, Typing, TablesTyped
  <2>4. ASSUME t \in DOMAIN sessions
        PROVE  /\ sessions[t].expires_at <= now + TTL
               /\ sessions[t].expires_at >= now + TTL - RenewAfter - 1
    <3>1. /\ seen <= sessions[t].last_seen_at
          /\ sessions[t].expires_at >= sessions[t].last_seen_at + TTL - 1
          /\ sessions[t].expires_at <= used[t] + TTL
      BY <1>1, <2>4 DEF Expiry, Slides, ExpirySlides
    <3>2. /\ used[t] \in 0..now /\ sessions[t].last_seen_at \in Nat
          /\ sessions[t].expires_at \in Int
      BY <2>4, <1>3 DEF Typing, TablesTyped, Session
    <3> HIDE DEF seen, t
    <3> QED
      BY <3>1, <3>2, <1>3, <1>5, SessionsAssumption
  <2>5. ASSUME NEW j \in DOMAIN sessions
        PROVE  /\ sessions[j].expires_at <= used'[j] + TTL
               /\ sessions[j].expires_at >= used'[j] + TTL - RenewAfter - 1
    <3>1. j \in 1..issued
      BY DEF Typing, TablesTyped
    <3> HIDE DEF t
    <3>2. CASE j = t
      BY <3>2, <2>3, <2>4, <2>5
    <3>3. CASE j # t
      BY <3>1, <3>3, <2>3 DEF Expiry, ExpirySlides
    <3> QED
      BY <3>2, <3>3
  <2>6. Slides'
    BY <1>1, <2>2 DEF NobodyLooksUp, Expiry, Slides, At
  <2> QED
    BY <1>1, <2>5, <2>6 DEF Expiry, ExpirySlides
<1> QED
  BY <1>4, <1>5

(***************************************************************************)
(* Two requests may write in either order: each write is of a time in the  *)
(* last unit.                                                              *)
(***************************************************************************)
LEMMA TouchExpiry ==
    ASSUME Typing, Expiry, NEW h \in Handlers, TouchSession(h)
    PROVE  Expiry'
<1> DEFINE t == handler[h].req.token
           at == handler[h].stamp
           user == handler[h].user
<1>1. At(h, "touch") /\ UNCHANGED <<issued, now>> /\ Resolved(h, handler[h].hash)
  BY DEF TouchSession, Unchanged
<1>2. handler[h] \in Serving /\ Asked(handler[h], issued) /\ Read(handler[h], DOMAIN accounts, now)
  BY <1>1, Busy DEF At
<1>3. t \in 1..issued /\ now \in Nat /\ at \in 0..now /\ now <= at + 1
  BY <1>1, <1>2 DEF At, Asked, Read, Serving, SessionStages, Typing, TablesTyped
<1>4. NobodyLooksUp
  BY <1>1, ResolvedElsewhere
<1>5. CASE UNCHANGED <<sessions, used>>
  BY <1>4, <1>5, ExpiryKept
<1>6. CASE sessions' = Touched(t, at, user) /\ Uses(t, at)
  <2>1. used[t] \in 0..now
    BY <1>3 DEF Typing, TablesTyped
  <2>2. /\ used'[t] = IF at > used[t] THEN at ELSE used[t]
        /\ \A j \in 1..issued : j # t => used'[j] = used[j]
    BY <1>6, <1>3 DEF Uses, Typing, TablesTyped
  <2> HIDE DEF t, at, user
  <2>3. /\ DOMAIN sessions' = DOMAIN sessions
        /\ \A j \in DOMAIN sessions : j # t => sessions'[j] = sessions[j]
        /\ t \in DOMAIN sessions =>
            sessions'[t].last_seen_at = now /\ sessions'[t].expires_at = at + TTL
    BY <1>3, <1>6, TouchedRows
  <2>4. ASSUME NEW j \in DOMAIN sessions'
        PROVE  /\ sessions'[j].expires_at >= sessions'[j].last_seen_at + TTL - 1
               /\ sessions'[j].expires_at <= used'[j] + TTL
               /\ sessions'[j].expires_at >= used'[j] + TTL - RenewAfter - 1
    <3>1. CASE j = t
      <4>1. sessions'[j].last_seen_at = now /\ sessions'[j].expires_at = at + TTL
        BY <3>1, <2>3
      <4>2. used'[j] \in at..now
        BY <3>1, <2>1, <2>2, <1>3
      <4> QED
        BY <4>1, <4>2, <1>3, SessionsAssumption
    <3>2. CASE j # t
      <4>1. j \in DOMAIN sessions /\ j \in 1..issued
        BY <2>3 DEF Typing, TablesTyped
      <4> QED
        BY <4>1, <3>2, <2>2, <2>3 DEF Expiry, Slides, ExpirySlides
    <3> QED
      BY <3>1, <3>2
  <2>5. ASSUME NEW g \in Handlers, handler'[g].pc = "user",
               handler'[g].req.token \in DOMAIN sessions'
        PROVE  handler'[g].seen <= sessions'[handler'[g].req.token].last_seen_at
    <3> DEFINE j == handler[g].req.token
    <3>1. handler'[g] = handler[g] /\ j \in DOMAIN sessions /\ handler[g].pc = "user"
      BY <1>4, <2>3, <2>5 DEF NobodyLooksUp
    <3>2. handler[g].seen <= now
      BY <3>1, Busy DEF At, Read
    <3>3. handler[g].seen <= sessions[j].last_seen_at
      BY <3>1 DEF Expiry, Slides, At
    <3> HIDE DEF j
    <3>4. handler[g].seen <= sessions'[j].last_seen_at
      BY <3>1, <3>2, <3>3, <2>3
    <3> QED
      BY <3>1, <3>4 DEF j
  <2> QED
    BY <2>4, <2>5 DEF Expiry, Slides, ExpirySlides, At
<1> QED
  BY <1>5, <1>6 DEF TouchSession

LEMMA ExpiryStep ==
    ASSUME Typing, Expiry, [Next]_vars
    PROVE  Expiry'
<1>1. ASSUME NEW h \in Handlers,
             \/ CreateSession(h) \/ LookupSession(h) \/ LookupOwner(h) \/ TouchSession(h)
      PROVE  Expiry'
  BY <1>1, CreateExpiry, LookupSessionExpiry, LookupOwnerExpiry, TouchExpiry
<1>2. ASSUME NEW h \in Handlers, Refuse(h) \/ Throttle(h) \/ LoginDone(h) \/ Verify(h)
      PROVE  Expiry'
  <2>1. UNCHANGED <<sessions, used>>
    BY <1>2 DEF Refuse, Throttle, LoginDone, Verify, tables
  <2>2. Goes(h, "idle") \/ Goes(h, "lookup") \/ Goes(h, "set")
    BY <1>2 DEF Refuse, Throttle, LoginDone, Verify
  <2> QED
    BY <2>1, <2>2, GoesElsewhere, ExpiryKept
<1>3. ASSUME NEW h \in Handlers, LookupUser(h) \/ Compare(h) PROVE Expiry'
  <2>1. UNCHANGED <<sessions, used>> /\ handler[h] \in Serving
    BY <1>3, Busy DEF LookupUser, Compare, tables, At
  <2>2. CASE Goes(h, "idle")
    BY <2>1, <2>2, GoesElsewhere, ExpiryKept
  <2>3. CASE LookupUser(h)
    <3> DEFINE x == [handler[h] EXCEPT !.pc = "compare", !.hash = HashOf(handler[h].req.name)]
    <3>1. handler' = [handler EXCEPT ![h] = x]
      BY <2>3 DEF LookupUser, Typing, HandlersTyped
    <3>2. x.pc # "user"
      BY <2>1 DEF Serving
    <3> HIDE DEF x
    <3> QED
      BY <2>1, <3>1, <3>2, MovesElsewhere, ExpiryKept
  <2>4. CASE handler' = [handler EXCEPT ![h].pc = "create", ![h].stamp = now]
    <3> DEFINE x == [handler[h] EXCEPT !.pc = "create", !.stamp = now]
    <3>1. handler' = [handler EXCEPT ![h] = x]
      BY <2>4 DEF Typing, HandlersTyped
    <3>2. x.pc # "user"
      BY <2>1 DEF Serving
    <3> HIDE DEF x
    <3> QED
      BY <2>1, <3>1, <3>2, MovesElsewhere, ExpiryKept
  <2> QED
    BY <1>3, <2>2, <2>3, <2>4 DEF Compare
<1>4. ASSUME NEW h \in Handlers, ExpireSession(h) \/ Logout(h) PROVE Expiry'
  <2>1. Goes(h, "idle") /\ used' = used
    BY <1>4 DEF ExpireSession, Logout
  <2>2. /\ DOMAIN sessions' \subseteq DOMAIN sessions
        /\ \A t \in DOMAIN sessions' : sessions'[t] = sessions[t]
    BY <1>4 DEF ExpireSession, Logout, Without
  <2> QED
    BY <2>1, <2>2, GoesElsewhere, ExpiryKept
<1>5. ASSUME NEW name, NEW password, SetAdminPassword(name, password), NobodyLooksUp
      PROVE  Expiry'
  <2>1. /\ used' = used /\ DOMAIN sessions' \subseteq DOMAIN sessions
        /\ \A t \in DOMAIN sessions' : sessions'[t] = sessions[t]
    BY <1>5 DEF SetAdminPassword, SessionsAfterPassword, Without
  <2> QED
    BY <1>5, <2>1, ExpiryKept
<1>6. ASSUME NEW h \in Handlers, ChangePassword(h) PROVE Expiry'
  BY <1>5, <1>6, GoesElsewhere DEF ChangePassword
<1>7. ASSUME NEW name \in Names, NEW password \in Passwords, SetPassword(name, password)
      PROVE  Expiry'
  BY <1>5, <1>7 DEF SetPassword, NobodyLooksUp
<1>8. ASSUME NEW h \in Handlers, NEW req \in Request, Accept(h, req) PROVE Expiry'
  <2> DEFINE x == [pc |-> Start(req.op), req |-> req, user |-> NoHash, hash |-> NoHash,
                   seen |-> 0, stamp |-> 0, since |-> now,
                   again |-> IF req.op = "password" THEN 1 ELSE 0]
  <2>1. handler' = [handler EXCEPT ![h] = x] /\ UNCHANGED <<sessions, used>>
    BY <1>8 DEF Accept, tables
  <2>2. x.pc # "user"
    BY DEF Start
  <2> HIDE DEF x
  <2> QED
    BY <2>1, <2>2, MovesElsewhere, ExpiryKept
<1>9. CASE Restart
  <2>1. /\ used' = used /\ DOMAIN sessions' \subseteq DOMAIN sessions
        /\ \A t \in DOMAIN sessions' : sessions'[t] = sessions[t]
    BY <1>9 DEF Restart, Without
  <2>2. NobodyLooksUp
    BY <1>9 DEF Restart, NobodyLooksUp, Idle
  <2> QED
    BY <2>1, <2>2, ExpiryKept
<1>10. CASE Pass \/ UNCHANGED vars
  <2>1. UNCHANGED <<sessions, used, handler>>
    BY <1>10 DEF Pass, tables, vars
  <2> QED
    BY <2>1, ExpiryKept DEF NobodyLooksUp
<1> QED
  BY <1>1, <1>2, <1>3, <1>4, <1>6, <1>7, <1>8, <1>9, <1>10 DEF Next, HandlerStep

(***************************************************************************)
(* A session expires TTL after its last use or at most RenewAfter and a    *)
(* unit sooner (sessionUser, TouchSession).                                *)
(***************************************************************************)
THEOREM ExpiryFollowsUse == Spec => []ExpirySlides
<1>1. Init => Typing /\ Expiry
  <2>1. Init => Expiry
    BY DEF Init, Expiry, Slides, ExpirySlides, At, Idle
  <2> QED
    BY <2>1, TypingInit
<1>2. Typing /\ Expiry /\ [Next]_vars => Typing' /\ Expiry'
  BY TypingStep, ExpiryStep
<1>3. Expiry => ExpirySlides
  BY DEF Expiry
<1> QED
  BY <1>1, <1>2, <1>3, PTL DEF Spec

-----------------------------------------------------------------------------
(* The limiter.                                                            *)

LEMMA TimesTypedNext ==
    ASSUME LimiterTyped', NEW k
    PROVE  TimesOf(k)' \in Seq(0..now') /\ Ordered(TimesOf(k)')
<1>1. CASE k \in DOMAIN attempts'
  BY <1>1 DEF TimesOf, LimiterTyped
<1>2. CASE k \notin DOMAIN attempts'
  <2>1. <<>> \in Seq(0..now') /\ Len(<<>>) = 0
    BY EmptySeq
  <2>2. TimesOf(k)' = <<>>
    BY <1>2 DEF TimesOf
  <2> QED
    BY <2>1, <2>2 DEF Ordered
<1> QED
  BY <1>1, <1>2

LEMMA LiveNext ==
    ASSUME Typing', NEW k
    PROVE  /\ Live(k, now)' = LiveOf(TimesOf(k)', now' - Window)
           /\ Len(Live(k, now)') \in Nat /\ Len(Live(k, now)') <= Len(TimesOf(k)')
<1>1. now' \in Nat /\ now' - Window \in Int
  BY LimiterAssumption DEF Typing, TablesTyped
<1>2. TimesOf(k)' \in Seq(0..now') /\ Ordered(TimesOf(k)')
  BY TimesTypedNext DEF Typing
<1>3. Live(k, now)' = LiveOf(TimesOf(k)', now' - Window)
  BY DEF Live
<1> QED
  BY <1>1, <1>2, <1>3, LiveProperties

LEMMA HandlersCounted ==
    /\ Cardinality(Handlers) \in Nat
    /\ \A S \in SUBSET Handlers :
        /\ IsFiniteSet(S) /\ Cardinality(S) \in Nat /\ Cardinality(S) <= Cardinality(Handlers)
        /\ \A T \in SUBSET S : Cardinality(T) <= Cardinality(S)
        /\ \A h \in S : Cardinality(S \ {h}) = Cardinality(S) - 1
<1>1. IsFiniteSet(Handlers)
  BY SessionsAssumption
<1>2. Cardinality(Handlers) \in Nat
  BY <1>1, FS_CardinalityType
<1>3. ASSUME NEW S \in SUBSET Handlers
      PROVE  /\ IsFiniteSet(S) /\ Cardinality(S) \in Nat
             /\ Cardinality(S) <= Cardinality(Handlers)
  BY <1>1, FS_Subset, FS_CardinalityType
<1>4. ASSUME NEW S \in SUBSET Handlers, NEW T \in SUBSET S
      PROVE  Cardinality(T) <= Cardinality(S)
  BY <1>3, FS_Subset
<1>5. ASSUME NEW S \in SUBSET Handlers, NEW h \in S
      PROVE  Cardinality(S \ {h}) = Cardinality(S) - 1
  BY <1>3, FS_RemoveElement
<1> QED
  BY <1>2, <1>3, <1>4, <1>5

\* No login passes Allowed in this step.
Passed == {"lookup", "compare"}

NobodyPasses ==
    \A g \in Handlers : handler'[g].pc \in Passed =>
        handler[g].pc \in Passed /\ handler'[g].req = handler[g].req

LEMMA PendingShrinks ==
    ASSUME NobodyPasses, NEW k
    PROVE  Pending(k)' \subseteq Pending(k)
BY DEF NobodyPasses, Pending, Passed, KeysOf

LEMMA MovesPast ==
    ASSUME Typing, NEW h \in Handlers, NEW x, handler' = [handler EXCEPT ![h] = x],
           x.pc \in Passed => handler[h].pc \in Passed /\ x.req = handler[h].req
    PROVE  NobodyPasses
BY DEF NobodyPasses, Typing, HandlersTyped

LEMMA GoesPast ==
    ASSUME Typing, NEW h \in Handlers, ~At(h, "idle"), NEW pc, pc \notin Passed, Goes(h, pc)
    PROVE  NobodyPasses
<1>1. CASE pc = "idle"
  <2>1. handler' = [handler EXCEPT ![h] = Idle] /\ Idle.pc \notin Passed
    BY <1>1 DEF Goes, Idle, Passed
  <2> QED
    BY <2>1, MovesPast
<1>2. CASE pc # "idle"
  <2> DEFINE x == [handler[h] EXCEPT !.pc = pc]
  <2>1. handler' = [handler EXCEPT ![h] = x]
    BY <1>2 DEF Goes
  <2>2. x.pc = pc
    BY Busy DEF Serving
  <2> HIDE DEF x
  <2> QED
    BY <2>1, <2>2, MovesPast
<1> QED
  BY <1>1, <1>2

(***************************************************************************)
(* What keeps the bound: no login more, no live failure more.              *)
(***************************************************************************)
LEMMA ThrottledKept ==
    ASSUME Typing, Typing', Throttled, NobodyPasses,
           \A k \in LimiterKeys : Len(Live(k, now)') <= Len(Live(k, now))
    PROVE  Throttled'
<1> SUFFICES ASSUME NEW k \in LimiterKeys
             PROVE  Len(Live(k, now)') + Cardinality(Pending(k)')
                        <= MaxAttempts - 1 + Cardinality(Handlers)
  BY DEF Throttled
<1>1. /\ Len(Live(k, now)) + Cardinality(Pending(k)) <= MaxAttempts - 1 + Cardinality(Handlers)
      /\ Len(Live(k, now)') <= Len(Live(k, now))
  BY DEF Throttled
<1>2. Len(Live(k, now)') \in Nat /\ Len(Live(k, now)) \in Nat
  BY LiveNext, LiveTyped DEF Typing, TablesTyped
<1>3. Pending(k) \in SUBSET Handlers /\ Pending(k)' \in SUBSET Pending(k)
  BY PendingShrinks DEF Pending
<1>4. /\ Cardinality(Pending(k)') <= Cardinality(Pending(k))
      /\ Cardinality(Pending(k)) \in Nat /\ Cardinality(Pending(k)') \in Nat
      /\ Cardinality(Handlers) \in Nat
  <2>1. Pending(k)' \in SUBSET Handlers
    BY <1>3
  <2> QED
    BY <2>1, <1>3, HandlersCounted
<1> QED
  BY <1>1, <1>2, <1>4, LimiterAssumption

LEMMA LiveSame ==
    ASSUME Typing, UNCHANGED <<attempts, now>>
    PROVE  \A k \in LimiterKeys : Len(Live(k, now)') <= Len(Live(k, now))
<1> SUFFICES ASSUME NEW k \in LimiterKeys PROVE Len(Live(k, now)') <= Len(Live(k, now))
  OBVIOUS
<1>1. Live(k, now)' = Live(k, now)
  BY DEF Live, TimesOf
<1>2. Len(Live(k, now)) \in Nat
  BY LiveTyped DEF Typing, TablesTyped
<1> QED
  BY <1>1, <1>2

LEMMA ConsultLive ==
    ASSUME Typing, Typing', NEW keys, Consult(keys, now), now' = now
    PROVE  \A k \in LimiterKeys : Len(Live(k, now)') <= Len(Live(k, now))
<1> SUFFICES ASSUME NEW k \in LimiterKeys PROVE Len(Live(k, now)') <= Len(Live(k, now))
  OBVIOUS
<1>1. Len(Live(k, now)) \in Nat /\ now \in Nat
  BY LiveTyped DEF Typing, TablesTyped
<1>2. attempts' = Pruned(keys, now)
  BY DEF Consult
<1>3. Len(Live(k, now)') \in Nat /\ Len(Live(k, now)') <= Len(TimesOf(k)')
  BY LiveNext
<1>4. CASE k \notin DOMAIN attempts'
  <2>1. TimesOf(k)' = <<>>
    BY <1>4 DEF TimesOf
  <2> QED
    BY <2>1, <1>1, <1>3, EmptySeq
<1>5. CASE k \in DOMAIN attempts' /\ k \in keys
  <2>1. TimesOf(k)' = Live(k, now)
    BY <1>2, <1>5 DEF TimesOf, Pruned
  <2> QED
    BY <2>1, <1>3
<1>6. CASE k \in DOMAIN attempts' /\ k \notin keys
  <2>1. TimesOf(k)' = TimesOf(k)
    BY <1>2, <1>6 DEF TimesOf, Pruned
  <2>2. Live(k, now)' = Live(k, now)
    BY <2>1, LiveNext DEF Live
  <2> QED
    BY <2>2, <1>1
<1> QED
  BY <1>4, <1>5, <1>6

(***************************************************************************)
(* A login that Allowed lets pass finds its keys below the limit: were all *)
(* handlers past it, none could have counted more.                         *)
(***************************************************************************)
LEMMA ThrottleKeeps ==
    ASSUME Typing, Typing', Throttled, NEW h \in Handlers, Throttle(h)
    PROVE  Throttled'
<1>1. /\ At(h, "throttle") /\ Consult(KeysOf(h), now) /\ now' = now
      /\ Goes(h, IF Allowed(KeysOf(h), now) THEN "lookup" ELSE "idle")
  BY DEF Throttle, Unchanged
<1>2. \A k \in LimiterKeys : Len(Live(k, now)') <= Len(Live(k, now))
  BY <1>1, ConsultLive
<1>3. handler[h] \in Serving
  BY <1>1, Busy DEF At
<1>4. CASE ~Allowed(KeysOf(h), now)
  <2>1. NobodyPasses
    BY <1>1, <1>4, GoesPast DEF At, Passed
  <2> QED
    BY <2>1, <1>2, ThrottledKept
<1>5. CASE Allowed(KeysOf(h), now)
  <2> SUFFICES ASSUME NEW k \in LimiterKeys
               PROVE  Len(Live(k, now)') + Cardinality(Pending(k)')
                          <= MaxAttempts - 1 + Cardinality(Handlers)
    BY DEF Throttled
  <2>1. Len(Live(k, now)') \in Nat /\ Len(Live(k, now)) \in Nat
    BY LiveNext, LiveTyped DEF Typing, TablesTyped
  <2>2. Pending(k) \in SUBSET Handlers /\ Pending(k)' \in SUBSET Handlers
    BY DEF Pending
  <2>3. CASE k \in KeysOf(h)
    <3>1. Len(Live(k, now)) < MaxAttempts
      BY <1>5, <2>3 DEF Allowed
    <3> QED
      BY <3>1, <2>1, <2>2, <1>2, HandlersCounted, LimiterAssumption
  <2>4. CASE k \notin KeysOf(h)
    <3> DEFINE x == [handler[h] EXCEPT !.pc = "lookup"]
    <3>1. handler' = [handler EXCEPT ![h] = x]
      BY <1>1, <1>5 DEF Goes
    <3>2. x.req = handler[h].req
      BY <1>3 DEF Serving
    <3> HIDE DEF x
    <3>3. Pending(k)' \subseteq Pending(k)
      BY <2>4, <3>1, <3>2 DEF Pending, KeysOf, Typing, HandlersTyped
    <3>4. Cardinality(Pending(k)') <= Cardinality(Pending(k))
      BY <3>3, <2>2, HandlersCounted
    <3>5. Len(Live(k, now)) + Cardinality(Pending(k)) <= MaxAttempts - 1 + Cardinality(Handlers)
      BY DEF Throttled
    <3> QED
      BY <3>4, <3>5, <2>1, <2>2, <1>2, HandlersCounted, LimiterAssumption
  <2> QED
    BY <2>3, <2>4
<1> QED
  BY <1>4, <1>5

(***************************************************************************)
(* A login that fails adds one to its keys and is past Allowed no more.    *)
(***************************************************************************)
LEMMA CompareKeeps ==
    ASSUME Typing, Typing', Throttled, NEW h \in Handlers, Compare(h)
    PROVE  Throttled'
<1>1. At(h, "compare") /\ now' = now
  BY DEF Compare, Unchanged
<1>2. handler[h] \in Serving
  BY <1>1, Busy DEF At
<1>3. CASE handler[h].hash = handler[h].req.given
  <2> DEFINE x == [handler[h] EXCEPT !.pc = "create", !.stamp = now]
  <2>1. handler' = [handler EXCEPT ![h] = x] /\ UNCHANGED attempts
    BY <1>3 DEF Compare, Typing, HandlersTyped
  <2>2. x.pc \notin Passed
    BY <1>2 DEF Serving, Passed
  <2> HIDE DEF x
  <2> QED
    BY <1>1, <2>1, <2>2, MovesPast, LiveSame, ThrottledKept
<1>4. CASE handler[h].hash # handler[h].req.given
  <2>1. RecordFailure(KeysOf(h), now) /\ Goes(h, "idle")
    BY <1>4 DEF Compare
  <2>2. NobodyPasses
    BY <1>1, <2>1, GoesPast DEF At, Passed
  <2> SUFFICES ASSUME NEW k \in LimiterKeys
               PROVE  Len(Live(k, now)') + Cardinality(Pending(k)')
                          <= MaxAttempts - 1 + Cardinality(Handlers)
    BY DEF Throttled
  <2>3. /\ Len(Live(k, now)') \in Nat /\ Len(Live(k, now)) \in Nat /\ now \in 0..now
        /\ Live(k, now) \in Seq(0..now) /\ Len(Live(k, now)') <= Len(TimesOf(k)')
    BY LiveNext, LiveTyped DEF Typing, TablesTyped
  <2>4. /\ Pending(k) \in SUBSET Handlers /\ Pending(k)' \in SUBSET Pending(k)
        /\ Pending(k)' \in SUBSET Handlers
    BY <2>2, PendingShrinks DEF Pending
  <2>5. Len(Live(k, now)) + Cardinality(Pending(k)) <= MaxAttempts - 1 + Cardinality(Handlers)
    BY DEF Throttled
  <2>6. CASE k \in KeysOf(h)
    <3>1. TimesOf(k)' = Append(Live(k, now), now)
      BY <2>1, <2>6 DEF TimesOf, RecordFailure
    <3>2. Len(Live(k, now)') <= Len(Live(k, now)) + 1
      BY <3>1, <2>3, AppendProperties
    <3>3. h \in Pending(k) /\ h \notin Pending(k)'
      BY <1>1, <2>1, <2>6 DEF At, Pending, Goes, Idle, Typing, HandlersTyped
    <3>4. Cardinality(Pending(k) \ {h}) = Cardinality(Pending(k)) - 1
      BY <3>3, <2>4, HandlersCounted
    <3>5. Cardinality(Pending(k)') <= Cardinality(Pending(k) \ {h})
      <4>1. Pending(k)' \in SUBSET (Pending(k) \ {h}) /\ Pending(k) \ {h} \in SUBSET Handlers
        BY <3>3, <2>4
      <4> QED
        BY <4>1, HandlersCounted
    <3> QED
      BY <3>2, <3>4, <3>5, <2>3, <2>4, <2>5, HandlersCounted, LimiterAssumption
  <2>7. CASE k \notin KeysOf(h)
    <3>1. TimesOf(k)' = TimesOf(k)
      BY <2>1, <2>7 DEF TimesOf, RecordFailure
    <3>2. Live(k, now)' = Live(k, now)
      BY <3>1, <1>1, LiveNext DEF Live
    <3>3. Cardinality(Pending(k)') <= Cardinality(Pending(k))
      BY <2>4, HandlersCounted
    <3> QED
      BY <3>2, <3>3, <2>3, <2>4, <2>5, HandlersCounted, LimiterAssumption
  <2> QED
    BY <2>6, <2>7
<1> QED
  BY <1>3, <1>4

LEMMA ResetKeeps ==
    ASSUME Typing, Typing', Throttled, NEW h \in Handlers, LoginDone(h)
    PROVE  Throttled'
<1>1. Reset(KeysOf(h)) /\ Goes(h, "idle") /\ now' = now /\ ~At(h, "idle")
  BY DEF LoginDone, Unchanged, At
<1>2. NobodyPasses
  BY <1>1, GoesPast DEF Passed
<1>3. ASSUME NEW k \in LimiterKeys PROVE Len(Live(k, now)') <= Len(Live(k, now))
  <2>1. /\ Len(Live(k, now)') \in Nat /\ Len(Live(k, now)) \in Nat
        /\ Len(Live(k, now)') <= Len(TimesOf(k)')
    BY LiveNext, LiveTyped DEF Typing, TablesTyped
  <2>2. CASE k \in DOMAIN attempts'
    <3>1. TimesOf(k)' = TimesOf(k)
      BY <1>1, <2>2 DEF TimesOf, Reset
    <3>2. Live(k, now)' = Live(k, now)
      BY <3>1, <1>1, LiveNext DEF Live
    <3> QED
      BY <3>2, <2>1
  <2>3. CASE k \notin DOMAIN attempts'
    <3>1. TimesOf(k)' = <<>>
      BY <2>3 DEF TimesOf
    <3> QED
      BY <3>1, <2>1, EmptySeq
  <2> QED
    BY <2>2, <2>3
<1> QED
  BY <1>2, <1>3, ThrottledKept

LEMMA RestartKeeps ==
    ASSUME Typing, Typing', Throttled, Restart
    PROVE  Throttled'
<1>1. attempts' = <<>> /\ handler' = [h \in Handlers |-> Idle] /\ now' = now
  BY DEF Restart
<1>2. NobodyPasses
  BY <1>1 DEF NobodyPasses, Idle, Passed
<1>3. ASSUME NEW k \in LimiterKeys PROVE Len(Live(k, now)') <= Len(Live(k, now))
  <2>1. /\ Len(Live(k, now)') \in Nat /\ Len(Live(k, now)) \in Nat
        /\ Len(Live(k, now)') <= Len(TimesOf(k)')
    BY LiveNext, LiveTyped DEF Typing, TablesTyped
  <2>2. TimesOf(k)' = <<>>
    BY <1>1 DEF TimesOf
  <2> QED
    BY <2>1, <2>2, EmptySeq
<1> QED
  BY <1>2, <1>3, ThrottledKept

LEMMA PassKeeps ==
    ASSUME Typing, Typing', Throttled, Pass
    PROVE  Throttled'
<1>1. now' = now + 1 /\ UNCHANGED <<attempts, handler>> /\ now \in Nat
  BY DEF Pass, tables, Typing, TablesTyped
<1>2. NobodyPasses
  BY <1>1 DEF NobodyPasses
<1>3. ASSUME NEW k \in LimiterKeys PROVE Len(Live(k, now)') <= Len(Live(k, now))
  <2>1. TimesOf(k) \in Seq(0..now) /\ Ordered(TimesOf(k)) /\ TimesOf(k)' = TimesOf(k)
    BY <1>1, LiveTyped DEF Typing, TimesOf
  <2>2. /\ Live(k, now) = LiveOf(TimesOf(k), now - Window)
        /\ Live(k, now)' = LiveOf(TimesOf(k), now + 1 - Window)
    <3>1. Live(k, now)' = LiveOf(TimesOf(k)', now' - Window)
      BY LiveNext
    <3>2. Live(k, now)' = LiveOf(TimesOf(k), now + 1 - Window)
      <4>1. now' - Window = now + 1 - Window
        BY <1>1, LimiterAssumption
      <4>2. LiveOf(TimesOf(k)', now' - Window) = LiveOf(TimesOf(k), now + 1 - Window)
        BY Zenon, <4>1, <2>1
      <4> QED
        BY Zenon, <3>1, <4>2
    <3> QED
      BY <3>2 DEF Live
  <2>3. now - Window \in Int /\ now + 1 - Window \in Int /\ now - Window <= now + 1 - Window
    BY <1>1, LimiterAssumption
  <2> QED
    BY <2>1, <2>2, <2>3, <1>1, LaterCutoff
<1> QED
  BY <1>2, <1>3, ThrottledKept

LEMMA ThrottledStep ==
    ASSUME Typing, Typing', Throttled, [Next]_vars
    PROVE  Throttled'
<1>1. ASSUME NEW h \in Handlers, Throttle(h) \/ Compare(h) \/ LoginDone(h) PROVE Throttled'
  BY <1>1, ThrottleKeeps, CompareKeeps, ResetKeeps
<1>2. CASE Restart \/ Pass
  BY <1>2, RestartKeeps, PassKeeps
<1>3. ASSUME UNCHANGED <<attempts, now>>, NobodyPasses PROVE Throttled'
  BY <1>3, LiveSame, ThrottledKept
<1>4. ASSUME NEW h \in Handlers,
             \/ Refuse(h) \/ CreateSession(h) \/ ExpireSession(h) \/ Logout(h)
             \/ Verify(h) \/ ChangePassword(h)
      PROVE  Throttled'
  <2>1. UNCHANGED <<attempts, now>> /\ ~At(h, "idle")
    BY <1>4 DEF Refuse, CreateSession, ExpireSession, Logout, Verify, ChangePassword,
                SetAdminPassword, tables, Unchanged, At
  <2>2. Goes(h, "idle") \/ Goes(h, "reset") \/ Goes(h, "set")
    BY <1>4 DEF Refuse, CreateSession, ExpireSession, Logout, Verify, ChangePassword
  <2>3. NobodyPasses
    BY <2>1, <2>2, GoesPast DEF Passed
  <2> QED
    BY <1>3, <2>1, <2>3
<1>5. ASSUME NEW h \in Handlers, LookupUser(h) PROVE Throttled'
  <2> DEFINE x == [handler[h] EXCEPT !.pc = "compare", !.hash = HashOf(handler[h].req.name)]
  <2>1. /\ handler' = [handler EXCEPT ![h] = x] /\ UNCHANGED <<attempts, now>>
        /\ handler[h].pc \in Passed /\ handler[h] \in Serving
    BY <1>5, Busy DEF LookupUser, Typing, HandlersTyped, tables, Unchanged, At, Passed
  <2>2. x.req = handler[h].req
    BY <2>1 DEF Serving
  <2> HIDE DEF x
  <2> QED
    BY <1>3, <2>1, <2>2, MovesPast
<1>6. ASSUME NEW h \in Handlers, NEW hash, At(h, "user") \/ At(h, "touch"), Resolved(h, hash)
      PROVE  NobodyPasses
  <2>1. handler[h] \in Serving
    BY <1>6, Busy DEF At
  <2> DEFINE again == [handler[h] EXCEPT !.pc = "session", !.again = 0]
             goOn == [handler[h] EXCEPT !.pc = "verify", !.hash = hash]
  <2>2. again.pc \notin Passed /\ goOn.pc \notin Passed /\ Idle.pc \notin Passed
    BY <2>1 DEF Serving, Idle, Passed
  <2>3. \/ handler' = [handler EXCEPT ![h] = Idle]
        \/ handler' = [handler EXCEPT ![h] = again]
        \/ handler' = [handler EXCEPT ![h] = goOn]
    BY <1>6, ResolvedMoves
  <2> HIDE DEF again, goOn
  <2> QED
    BY <2>2, <2>3, MovesPast
<1>7. ASSUME NEW h \in Handlers, TouchSession(h) PROVE Throttled'
  BY <1>3, <1>6, <1>7 DEF TouchSession, Unchanged
<1>8. ASSUME NEW h \in Handlers, LookupOwner(h) PROVE Throttled'
  <2>1. At(h, "user") /\ UNCHANGED <<attempts, now>> /\ handler[h] \in Serving
    BY <1>8, Busy DEF LookupOwner, Unchanged, At
  <2>2. CASE Resolved(h, accounts[handler[h].user])
    BY <2>1, <2>2, <1>3, <1>6
  <2>3. CASE handler' = [handler EXCEPT ![h].pc = "touch", ![h].stamp = now,
                                        ![h].hash = accounts[handler[h].user]]
    <3> DEFINE x == [handler[h] EXCEPT !.pc = "touch", !.stamp = now,
                                       !.hash = accounts[handler[h].user]]
    <3>1. handler' = [handler EXCEPT ![h] = x]
      BY <2>3 DEF Typing, HandlersTyped
    <3>2. x.pc \notin Passed
      BY <2>1 DEF Serving, Passed
    <3> HIDE DEF x
    <3> QED
      BY <2>1, <3>1, <3>2, <1>3, MovesPast
  <2> QED
    BY <1>8, <2>2, <2>3 DEF LookupOwner
<1>9. ASSUME NEW h \in Handlers, LookupSession(h) PROVE Throttled'
  <2> DEFINE t == handler[h].req.token
  <2>1. UNCHANGED <<attempts, now>> /\ ~At(h, "idle") /\ handler[h] \in Serving
    BY <1>9, Busy DEF LookupSession, Unchanged, tables, At
  <2>2. CASE Goes(h, "idle") \/ Goes(h, "expire")
    BY <2>1, <2>2, <1>3, GoesPast DEF Passed
  <2>3. CASE handler' = [handler EXCEPT ![h].pc = "user", ![h].user = sessions[t].user,
                                        ![h].seen = sessions[t].last_seen_at]
    <3> DEFINE x == [handler[h] EXCEPT !.pc = "user", !.user = sessions[t].user,
                                       !.seen = sessions[t].last_seen_at]
    <3>1. handler' = [handler EXCEPT ![h] = x]
      BY <2>3 DEF Typing, HandlersTyped
    <3>2. x.pc \notin Passed
      BY <2>1 DEF Serving, Passed
    <3> HIDE DEF x
    <3> QED
      BY <2>1, <3>1, <3>2, <1>3, MovesPast
  <2> QED
    BY <1>9, <2>2, <2>3 DEF LookupSession
<1>10. ASSUME NEW h \in Handlers, NEW req \in Request, Accept(h, req) PROVE Throttled'
  <2> DEFINE x == [pc |-> Start(req.op), req |-> req, user |-> NoHash, hash |-> NoHash,
                   seen |-> 0, stamp |-> 0, since |-> now,
                   again |-> IF req.op = "password" THEN 1 ELSE 0]
  <2>1. handler' = [handler EXCEPT ![h] = x] /\ UNCHANGED <<attempts, now>>
    BY <1>10 DEF Accept, tables
  <2>2. x.pc \notin Passed
    BY DEF Start, Passed
  <2> HIDE DEF x
  <2> QED
    BY <2>1, <2>2, <1>3, MovesPast
<1>11. CASE \/ UNCHANGED vars
            \/ \E name \in Names, password \in Passwords : SetPassword(name, password)
  <2>1. UNCHANGED <<attempts, now, handler>>
    BY <1>11 DEF SetPassword, SetAdminPassword, vars
  <2> QED
    BY <2>1, <1>3 DEF NobodyPasses
<1> QED
  BY <1>1, <1>2, <1>4, <1>5, <1>7, <1>8, <1>9, <1>10, <1>11 DEF Next, HandlerStep

(***************************************************************************)
(* A key collects fewer failures than the limit within the window, and one *)
(* more for each concurrent login (Limiter.Allowed, RecordFailure).        *)
(***************************************************************************)
THEOREM FailuresBounded == Spec => []AttemptsAreBounded
<1>1. Init => Typing /\ Throttled
  <2> SUFFICES ASSUME Init, NEW k \in LimiterKeys
               PROVE  Len(Live(k, now)) + Cardinality(Pending(k))
                          <= MaxAttempts - 1 + Cardinality(Handlers)
    BY TypingInit DEF Throttled
  <2>1. Typing
    BY TypingInit
  <2>2. TimesOf(k) = <<>> /\ Len(<<>>) = 0
    BY EmptySeq DEF Init, LimiterInit, TimesOf
  <2>3. Len(Live(k, now)) \in Nat /\ Len(Live(k, now)) <= 0
    BY <2>1, <2>2, LiveTyped DEF Typing, TablesTyped
  <2>4. Cardinality(Pending(k)) \in Nat /\ Cardinality(Pending(k)) <= Cardinality(Handlers)
    BY HandlersCounted DEF Pending
  <2> QED
    BY <2>3, <2>4, HandlersCounted, LimiterAssumption
<1>2. Typing /\ Throttled /\ [Next]_vars => Typing' /\ Throttled'
  BY TypingStep, ThrottledStep
<1>3. Typing /\ Throttled => AttemptsAreBounded
  <2> SUFFICES ASSUME Typing, Throttled, NEW k \in LimiterKeys
               PROVE  Len(Live(k, now)) <= MaxAttempts - 1 + Cardinality(Handlers)
    BY DEF AttemptsAreBounded
  <2>1. Len(Live(k, now)) + Cardinality(Pending(k)) <= MaxAttempts - 1 + Cardinality(Handlers)
    BY DEF Throttled
  <2>2. Len(Live(k, now)) \in Nat /\ Cardinality(Pending(k)) \in Nat
    BY LiveTyped, HandlersCounted DEF Typing, TablesTyped, Pending
  <2> QED
    BY <2>1, <2>2, HandlersCounted, LimiterAssumption
<1> QED
  BY <1>1, <1>2, <1>3, PTL DEF Spec

(***************************************************************************)
(* With no further failure a limited key is live as long as its first      *)
(* live failure is (Limiter.RetryAfter).                                   *)
(***************************************************************************)
LEMMA WaitOfOne ==
    ASSUME Typing, NEW k, Len(Live(k, now)) <= MaxAttempts, NEW d \in Nat
    PROVE  /\ Wait(k, now) \in Nat
           /\ Wait(k, now) <= d => Len(Live(k, now + d)) < MaxAttempts
           /\ Wait(k, now) > d => ~(Len(Live(k, now + d)) < MaxAttempts)
<1> DEFINE live == Live(k, now)
           left == Live(k, now + d)
<1>1. now \in Nat /\ now - Window \in Int /\ now + d - Window \in Int
      /\ now - Window <= now + d - Window /\ now + d \in Int
      /\ MaxAttempts \in Nat /\ MaxAttempts > 0 /\ Window \in Nat
  BY LimiterAssumption DEF Typing, TablesTyped
<1>2. /\ TimesOf(k) \in Seq(0..now) /\ Ordered(TimesOf(k))
      /\ live \in Seq(0..now) /\ Len(live) \in Nat /\ Len(left) \in Nat
      /\ \A i \in 1..Len(live) : live[i] > now - Window
  BY <1>1, LiveTyped DEF Typing
<1>3. /\ Len(left) <= Len(live)
      /\ Len(live) > 0 /\ live[1] <= now + d - Window => Len(left) < Len(live)
      /\ Len(live) > 0 /\ now + d - Window < live[1] => Len(left) = Len(live)
  BY <1>1, <1>2, LaterCutoff DEF Live
<1>4. Len(live) > 0 => live[1] \in 0..now /\ live[1] > now - Window
  <2>1. Len(live) > 0 => 1 \in 1..Len(live)
    BY <1>2
  <2> HIDE DEF live
  <2> QED
    BY <1>2, <2>1, ElementOfSeq
<1>5. Wait(k, now) = IF Len(live) < MaxAttempts THEN 0 ELSE live[1] + Window - now
  BY DEF Wait
<1>6. Len(live) <= MaxAttempts
  OBVIOUS
<1> HIDE DEF live, left
<1>7. CASE Len(live) < MaxAttempts
  BY <1>1, <1>2, <1>3, <1>5, <1>7 DEF left
<1>8. CASE Len(live) = MaxAttempts
  BY <1>1, <1>2, <1>3, <1>4, <1>5, <1>8 DEF left
<1> QED
  BY <1>1, <1>2, <1>6, <1>7, <1>8

(***************************************************************************)
(* When the announced time has passed, and not before, the login is        *)
(* allowed.                                                                *)
(***************************************************************************)
THEOREM RetryAfterExact == Spec => []RetryAfterIsExact
<1>1. Init => Typing
  BY TypingInit
<1>2. Typing /\ [Next]_vars => Typing'
  BY TypingStep
<1>3. Typing => RetryAfterIsExact
  <2> SUFFICES ASSUME Typing, NEW name \in Names, NEW addr \in Addrs,
                      \A k \in {name, addr} : Len(Live(k, now)) <= MaxAttempts
               PROVE  LET keys == {name, addr}
                          d == RetryAfter(keys, now)
                      IN  /\ Allowed(keys, now + d)
                          /\ d > 0 => ~Allowed(keys, now + d - 1)
    BY DEF RetryAfterIsExact
  <2> DEFINE keys == {name, addr}
             d == RetryAfter(keys, now)
             waits == {Wait(k, now) : k \in keys}
  <2>1. \A k \in keys : Wait(k, now) \in Nat
    BY WaitOfOne
  <2>2. \E longest \in waits : \A e \in waits : e <= longest
    <3>1. CASE Wait(name, now) <= Wait(addr, now)
      BY <3>1, <2>1
    <3>2. CASE Wait(addr, now) <= Wait(name, now)
      BY <3>2, <2>1
    <3> QED
      BY <3>1, <3>2, <2>1
  <2>3. d \in waits /\ \A e \in waits : e <= d
    BY <2>2 DEF RetryAfter
  <2> HIDE DEF d
  <2>4. d \in Nat /\ (\A k \in keys : Wait(k, now) <= d) /\ \E k \in keys : Wait(k, now) = d
    BY <2>1, <2>3
  <2>5. Allowed(keys, now + d)
    <3> SUFFICES ASSUME NEW k \in keys PROVE Len(Live(k, now + d)) < MaxAttempts
      BY DEF Allowed
    <3>1. Len(Live(k, now)) <= MaxAttempts /\ Wait(k, now) <= d
      BY <2>4
    <3> QED
      BY <3>1, <2>4, WaitOfOne
  <2>6. ASSUME d > 0 PROVE ~Allowed(keys, now + d - 1)
    <3>1. PICK k \in keys : Wait(k, now) = d
      BY <2>4
    <3>2. d - 1 \in Nat /\ Wait(k, now) > d - 1 /\ Len(Live(k, now)) <= MaxAttempts
      BY <3>1, <2>4, <2>6
    <3>3. ~(Len(Live(k, now + (d - 1))) < MaxAttempts)
      BY <3>2, WaitOfOne
    <3>4. now + (d - 1) = now + d - 1
      BY <2>4 DEF Typing, TablesTyped
    <3>5. ~(Len(Live(k, now + d - 1)) < MaxAttempts)
      BY Zenon, <3>3, <3>4
    <3> QED
      BY <3>5 DEF Allowed
  <2> QED
    BY <2>5, <2>6 DEF d
<1> QED
  BY <1>1, <1>2, <1>3, PTL DEF Spec
=============================================================================

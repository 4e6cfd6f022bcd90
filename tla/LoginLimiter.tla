---------------------------- MODULE LoginLimiter ----------------------------
(***************************************************************************)
(* auth.Limiter: for each key, the times of its recent failed logins.  It  *)
(* lives in memory, and each of its methods is one critical section.       *)
(* "Pruning on read keeps the map from growing": no key without a failure  *)
(* stays in it (LimiterTypeOK).                                            *)
(***************************************************************************)
EXTENDS Integers, Sequences

CONSTANTS
    LimiterKeys,    \* user names and client addresses
    MaxAttempts,    \* Limiter.maxAttempts
    Window          \* Limiter.window

ASSUME LimiterAssumption ==
    /\ MaxAttempts \in Nat \ {0}
    /\ Window \in Nat \ {0}

VARIABLE attempts   \* the times of the failures, oldest first, by key

LimiterInit == attempts = <<>>

-----------------------------------------------------------------------------
TimesOf(k) == IF k \in DOMAIN attempts THEN attempts[k] ELSE <<>>

\* The loop of liveLocked: it passes over what the cutoff has overtaken and
\* stops at the first time after it.
Aged(times, cutoff) ==
    CHOOSE n \in 0..Len(times) :
        /\ \A i \in 1..n : times[i] <= cutoff
        /\ n < Len(times) => times[n + 1] > cutoff

LiveOf(times, cutoff) == SubSeq(times, Aged(times, cutoff) + 1, Len(times))

\* liveLocked: the failures newer than the cutoff.
Live(k, now) == LiveOf(TimesOf(k), now - Window)

PrunedInPlace(keys, now) ==
    [k \in DOMAIN attempts |-> IF k \in keys THEN Live(k, now) ELSE attempts[k]]

\* The map after liveLocked has visited keys.
Pruned(keys, now) ==
    [k \in {j \in DOMAIN attempts : j \in keys => Live(j, now) # <<>>} |->
        IF k \in keys THEN Live(k, now) ELSE attempts[k]]

AllowedAtLimit(keys, now) == \A k \in keys : Len(Live(k, now)) <= MaxAttempts

Allowed(keys, now) == \A k \in keys : Len(Live(k, now)) < MaxAttempts

\* Allowed and RetryAfter, as the login calls them, change the map only by
\* pruning it.
Consult(keys, now) == attempts' = Pruned(keys, now)

RecordFailure(keys, now) ==
    attempts' = [k \in DOMAIN attempts \cup keys |->
                    IF k \in keys THEN Append(Live(k, now), now) ELSE attempts[k]]

Reset(keys) == attempts' = [k \in DOMAIN attempts \ keys |-> attempts[k]]

WaitOfNewest(k, now) ==
    IF Len(Live(k, now)) < MaxAttempts THEN 0
    ELSE Live(k, now)[Len(Live(k, now))] + Window - now

\* How long until the oldest failure of k ages out, if k is limited.
Wait(k, now) ==
    IF Len(Live(k, now)) < MaxAttempts THEN 0 ELSE Live(k, now)[1] + Window - now

\* The longest wait of any of the keys.
RetryAfter(keys, now) ==
    LET waits == {Wait(k, now) : k \in keys}
    IN  CHOOSE d \in waits : \A e \in waits : e <= d

-----------------------------------------------------------------------------
LimiterTypeOK(now) ==
    /\ DOMAIN attempts \subseteq LimiterKeys
    /\ \A k \in DOMAIN attempts :
        /\ attempts[k] \in Seq(0..now) /\ attempts[k] # <<>>
        /\ \A i, j \in 1..Len(attempts[k]) : i <= j => attempts[k][i] <= attempts[k][j]
=============================================================================

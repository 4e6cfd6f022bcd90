----------------------------- MODULE AtMostOnce -----------------------------
(***************************************************************************)
(* What alerting promises about one dedupe key, free of queues, workers    *)
(* and processes: a key is claimed once, tried a bounded number of times,  *)
(* and once its outcome is recorded nothing more happens to it.  A key may *)
(* stay claimed without an outcome for ever: the promise is at most one    *)
(* episode, not at least one.                                              *)
(***************************************************************************)
EXTENDS Naturals

CONSTANT MaxTries

VARIABLES
    claimed,    \* the keys ever claimed
    tries,      \* tries[k]: attempts to send, for each claimed key
    settled     \* the claimed keys whose outcome is recorded

vars == <<claimed, tries, settled>>

Init == claimed = {} /\ tries = <<>> /\ settled = {}

Claim(k) ==
    /\ k \notin claimed
    /\ claimed' = claimed \cup {k}
    /\ tries' = [j \in claimed' |-> IF j = k THEN 0 ELSE tries[j]]
    /\ UNCHANGED settled

Try(k) ==
    /\ k \in claimed \ settled
    /\ tries[k] < MaxTries
    /\ tries' = [tries EXCEPT ![k] = @ + 1]
    /\ UNCHANGED <<claimed, settled>>

Settle(k) ==
    /\ k \in claimed \ settled
    /\ tries[k] > 0
    /\ settled' = settled \cup {k}
    /\ UNCHANGED <<claimed, tries>>

Next == \E k \in claimed' : Claim(k) \/ Try(k) \/ Settle(k)

Spec == Init /\ [][Next]_vars
=============================================================================

--------------------------- MODULE MCRecordTickTx ---------------------------
(* RecordTickTx with a reader beside it (SiteReads) on a small instance: a  *)
(* good tick, and a failing one that logs two errors.                       *)
EXTENDS SiteReads

OneQuantile == <<95>>

SomeOutcomes ==
    {[up |-> TRUE,  errors |-> 0, sslChecked |-> FALSE, sslExpiresAt |-> 0,
      response_ms |-> 1],
     [up |-> FALSE, errors |-> 2, sslChecked |-> TRUE,  sslExpiresAt |-> 9,
      response_ms |-> 2]}
=============================================================================

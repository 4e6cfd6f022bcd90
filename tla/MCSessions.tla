---------------------------- MODULE MCSessions ----------------------------
(* Sessions on small instances.                                          *)
EXTENDS Sessions, TLC

CONSTANTS h1, h2, p1, p2

Alike == Permutations({h1, h2}) \cup Permutations({p1, p2})
=============================================================================

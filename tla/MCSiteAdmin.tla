---------------------------- MODULE MCSiteAdmin ----------------------------
(* SiteAdmin on small instances.                                           *)
EXTENDS SiteAdmin

\* Two enabled configurations that differ, and a disabled one.
ThreeConfigs == [rev : {1, 2}, enabled : {TRUE}] \cup {[rev |-> 1, enabled |-> FALSE]}

OneConfig == {[rev |-> 1, enabled |-> TRUE]}

Enabling(rev) == [rev |-> rev, enabled |-> TRUE]
Disabling     == [rev |-> 1, enabled |-> FALSE]

Puts(op, s, config, key) ==
    [op |-> op, site |-> s, config |-> config, key |-> key, purge |-> FALSE]

Reads(s) == Puts("read", s, Enabling(1), Keep)

Deletes(s, purge) == [Puts("delete", s, Enabling(1), Keep) EXCEPT !.purge = purge]

\* A site is created with a key; changed, its key left out; disabled and its key
\* cleared; read; deleted with its data.
SomeRequests ==
    UNION { {Puts("create", s, Enabling(1), "k1"),
             Puts("update", s, Enabling(2), Keep), Puts("update", s, Disabling, NoKey),
             Reads(s), Deletes(s, TRUE)} : s \in Sites }

\* One configuration and no keys.
PlainRequests ==
    UNION { {Puts("create", s, Enabling(1), Keep), Puts("update", s, Enabling(1), Keep),
             Reads(s), Deletes(s, TRUE), Deletes(s, FALSE)} : s \in Sites }
=============================================================================

---------------------------- MODULE MCSiteStore ----------------------------
(* One check loop on a small instance (SiteHistory): a site checked every   *)
(* second, its certificate and its name every other one.                    *)
EXTENDS SiteHistory

\* One that is accepted, with the default cadence, and one that is not.
Site(slow) ==
    [id |-> "", name |-> [slug |-> "shop"], url |-> [scheme |-> "https", host |-> TRUE, slug |-> ""],
     interval_seconds |-> 0, slow_interval_seconds |-> slow,
     http    |-> [enabled |-> TRUE, expect_status |-> {}],
     latency |-> [enabled |-> TRUE, max_ms |-> 3],
     content |-> [enabled |-> TRUE, must_contain |-> {"welcome"}, must_not_contain |-> {"oops"}],
     ssl     |-> [enabled |-> TRUE, warn_days |-> 0],
     dns     |-> [enabled |-> TRUE]]

SomeSites == {Site(0), Site(9)}

World(reachable, status, ms, body, expiry) ==
    [resolves |-> TRUE, reachable |-> reachable, status |-> status, ms |-> ms,
     body |-> body, expiry |-> expiry]

\* A good page, a slower one that goes on while its name is gone, another
\* page, no answer, and a page whose certificate ends soon.
Good      == World(TRUE, 200, 1, {"welcome"}, 99)
NoName    == [World(TRUE, 302, 3, {"welcome"}, 99) EXCEPT !.resolves = FALSE]
NotFound  == World(TRUE, 404, 1, {"welcome"}, NoCertificate)
Down      == World(FALSE, 0, 2, {}, NoCertificate)
Expiring  == World(TRUE, 200, 1, {"welcome"}, 1)

SomeWorlds == {Good, NoName, NotFound, Down, Expiring}
SomeBroken == {NotFound, Down}
SomeHealthy == {Good}

\* What RunTick may make of them.
SomeOutcomes ==
    {o \in [up : BOOLEAN, errors : 0..5, sslChecked : BOOLEAN,
            sslExpiresAt : {0, 1, 99}, response_ms : 1..3] :
        /\ ~o.up => o.errors > 0
        /\ ~o.sslChecked => o.sslExpiresAt = 0}
=============================================================================

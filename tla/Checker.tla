------------------------------ MODULE Checker ------------------------------
(***************************************************************************)
(* RunTick: one DNS lookup (slow ticks), one request, and the checks made  *)
(* of its response.                                                        *)
(*                                                                         *)
(* A `world' is what the check meets: whether the name resolves, whether a *)
(* request gets an answer, its status, time and body, and when the         *)
(* certificate it came with ends.  The answer is the last one, after the   *)
(* redirects: whether it came over TLS is not the URL's to say.  A request *)
(* over a new connection verifies the certificate and fails when it has    *)
(* expired; over a connection kept alive from an earlier tick it does not  *)
(* look.                                                                   *)
(***************************************************************************)
EXTENDS Integers, FiniteSets

CONSTANT SecondsPerDay

NoCertificate == 0

statusAcceptable(code, expect) ==
    IF expect = {} THEN code >= 200 /\ code < 400 ELSE code \in expect

\* A text is missing or a forbidden one is there.
evalContent(body, c) ==
    \/ \E want \in c.must_contain : want # "" /\ want \notin body
    \/ \E bad \in c.must_not_contain : bad # "" /\ bad \in body

TooSlow(ms, c) == c.max_ms > 0 /\ ms > c.max_ms

Expired(now, expiry) == now > expiry

NearsExpiry(now, expiry, c) ==
    c.warn_days > 0 /\ now > expiry - c.warn_days * SecondsPerDay

-----------------------------------------------------------------------------
\* The answer came over TLS.
Presented(w) == w.expiry # NoCertificate

\* client.Do returns no error.
Responds(w, now, reused) ==
    /\ w.reachable
    /\ Presented(w) => reused \/ ~Expired(now, w.expiry)

\* What the request brings back.
Response(w, now, reused) == [w EXCEPT !.reachable = Responds(w, now, reused)]

\* The host of a site that Validate let in is never empty.
LooksUp(site, runSlow) == runSlow /\ site.dns.enabled

\* The checks every tick makes of a response, those that fail.
FastFailures(site, w) ==
    {check \in {"http", "latency", "content"} :
        \/ /\ check = "http" /\ site.http.enabled
           /\ ~statusAcceptable(w.status, site.http.expect_status)
        \/ /\ check = "latency" /\ site.latency.enabled
           /\ TooSlow(w.ms, site.latency)
        \/ /\ check = "content" /\ site.content.enabled
           /\ evalContent(w.body, site.content)}

\* evalSSL: an expired certificate fails the tick; none, or one that is about
\* to expire, is only logged.
SslFails(w, now) == Presented(w) /\ Expired(now, w.expiry)

SslWarns(site, w, now) ==
    \/ ~Presented(w)
    \/ ~Expired(now, w.expiry) /\ NearsExpiry(now, w.expiry, site.ssl)

Count(condition) == IF condition THEN 1 ELSE 0

\* A request that fails ends the tick there: on a slow one the certificate
\* counts as checked, with no expiry read.
TickWithoutResponse(site, resolved, w, runSlow) ==
    [up            |-> FALSE,
     errors        |-> 1 + Count(~resolved),
     sslChecked    |-> runSlow /\ site.ssl.enabled,
     sslExpiresAt  |-> 0,
     response_ms   |-> w.ms]

TickOfResponse(site, resolved, w, runSlow, now) ==
    LET ssl   == runSlow /\ site.ssl.enabled
        fails == Cardinality(FastFailures(site, w))
                 + Count(~resolved)
                 + Count(ssl /\ SslFails(w, now))
    IN  [up           |-> fails = 0,
         errors       |-> fails + Count(ssl /\ SslWarns(site, w, now)),
         sslChecked   |-> ssl,
         sslExpiresAt |-> IF ssl /\ Presented(w) THEN w.expiry ELSE 0,
         response_ms  |-> w.ms]

\* What RunTick returns: resolved, unless a lookup failed, and w, the response.
RunTick(site, resolved, w, runSlow, now) ==
    IF w.reachable
    THEN TickOfResponse(site, resolved, w, runSlow, now)
    ELSE TickWithoutResponse(site, resolved, w, runSlow)
=============================================================================

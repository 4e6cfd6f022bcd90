----------------------------- MODULE SiteConfig -----------------------------
(***************************************************************************)
(* internal/config: what a submitted site becomes before it is scheduled.  *)
(* Durations are in the model's seconds, so the limits are constants.      *)
(*                                                                         *)
(* A text is abstracted to what is asked of it: a URL to its scheme and    *)
(* whether it names a host, a name to the slug Slugify makes of it, an id  *)
(* to itself.  "" is the missing one.  The body of a page is the set of    *)
(* the texts it contains.                                                  *)
(***************************************************************************)
EXTENDS Integers

CONSTANTS
    DefaultIntervalSeconds, DefaultSlowIntervalSeconds,
    MinIntervalSeconds, MaxIntervalSeconds, DefaultSSLWarnDays,
    Slugs       \* the ids slugRe matches

\* The bounds Validate sets on the two cadences.
Limits(c) ==
    /\ c.interval_seconds >= MinIntervalSeconds
    /\ c.interval_seconds <= MaxIntervalSeconds
    /\ c.slow_interval_seconds >= c.interval_seconds
    /\ c.slow_interval_seconds <= MaxIntervalSeconds

OrDefault(value, default) == IF value = 0 THEN default ELSE value

ApplyDefaults(c) ==
    [c EXCEPT
        !.interval_seconds      = OrDefault(@, DefaultIntervalSeconds),
        !.slow_interval_seconds = OrDefault(@, DefaultSlowIntervalSeconds),
        !.ssl.warn_days         = IF c.ssl.enabled THEN OrDefault(@, DefaultSSLWarnDays)
                                  ELSE @,
        !.id = CASE @ # ""           -> @
                 [] c.name.slug # "" -> c.name.slug
                 [] OTHER            -> c.url.slug]

\* No error.
Validate(c) ==
    /\ c.url.scheme \in {"http", "https"}
    /\ c.url.host
    /\ Limits(c)
    /\ c.latency.max_ms >= 0
    /\ c.ssl.warn_days >= 0
    /\ c.id \in Slugs

\* What a create or an update stores and schedules, of the sites submitted.
Accepted(submitted) ==
    {c \in {ApplyDefaults(s) : s \in submitted} : Validate(c)}
=============================================================================

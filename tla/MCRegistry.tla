----------------------------- MODULE MCRegistry -----------------------------
(* The registry's start and its alert configuration on a small instance.   *)
EXTENDS AlertConfig

Channel(enabled) == [enabled |-> enabled]

SomeChannels == {Channel({}), Channel({TRUE}), Channel({FALSE})}

Rule(site, channel, enabled, confirm) ==
    [site |-> site, channel |-> channel, kind |-> "site_down",
     enabled |-> enabled, confirm |-> confirm]

\* A body that says nothing it need not; one that says everything; one out of
\* range; and one for the channel that takes over an id.
SomeRules ==
    {Rule(AnySite, 1, {}, {}), Rule("shop", 1, {FALSE}, {3}),
     Rule("shop", 1, {TRUE}, {0}), Rule("shop", 2, {TRUE}, {})}
=============================================================================

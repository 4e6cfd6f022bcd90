----------------------------- MODULE MCAlerting -----------------------------
(* Alerting on small instances; each configuration picks its rules.         *)
EXTENDS Alerting, TLC

CONSTANTS s1, c1

\* Sound for the invariants and action properties of the run that uses it.
WorkersAlike == Permutations(Workers)

Good == [up |-> TRUE,  errors |-> 0, sslChecked |-> FALSE, sslExpiresAt |-> 0, response_ms |-> 0]
Bad  == [up |-> FALSE, errors |-> 1, sslChecked |-> FALSE, sslExpiresAt |-> 0, response_ms |-> 0]
Cert(e) == [up |-> TRUE, errors |-> 0, sslChecked |-> TRUE, sslExpiresAt |-> e, response_ms |-> 0]

GoodOrBad == {Good, Bad}

\* The good ticks all check one certificate, near its expiry: repeated keys.
BadOrCert == {Bad, Cert(3)}

DownRule(ch, n) == [kind |-> "down", site |-> AnySite, channel |-> ch, confirm |-> n]
UpRule(ch)      == [kind |-> "up",   site |-> AnySite, channel |-> ch, confirm |-> 2]
SslRule(ch)     == [kind |-> "ssl",  site |-> AnySite, channel |-> ch, confirm |-> 2]

\* A channel with both rules, on the first failure or on the default second.
PairedFirst   == {DownRule(c1, 1), UpRule(c1)}
PairedDefault == {DownRule(c1, 2), UpRule(c1)}

AllKinds   == {DownRule(c1, 1), UpRule(c1), SslRule(c1)}
DownAndSsl == {DownRule(c1, 1), SslRule(c1)}

\* One certificate expires soon, and so does the one that replaces it.
BadOrTwoCerts == {Bad, Cert(3), Cert(4)}
=============================================================================

---------------------------- MODULE MCNodeSession ----------------------------
(***************************************************************************)
(* NodeSession with three servers: DNS_DOMAIN has all of them in the order *)
(* of their priority, HOSTS the last two; or there is DNS_DOMAIN only.     *)
(***************************************************************************)
EXTENDS NodeSession

CONSTANTS h1, h2, h3

MCHosts == {h1, h2, h3}

Looked == [rrs |-> <<h1, h2, h3>>, failed |-> FALSE]

HostsAnswers == {Looked, [rrs |-> <<h2, h3>>, failed |-> TRUE]}

DnsAnswers == {Looked, [rrs |-> <<>>, failed |-> TRUE]}
=============================================================================

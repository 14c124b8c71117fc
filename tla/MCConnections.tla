--------------------------- MODULE MCConnections ----------------------------
(* Connections for TLC: five connections from two hosts.                    *)
EXTENDS Connections

Conns == 1..5
Hosts == {"a", "b"}
HostsOf == <<"a", "a", "b", "a", "b">>
=============================================================================

---------------------------- MODULE Connections -----------------------------
(* The connection table of the Stratum server (internal/stratum/server.go:   *)
(* Serve, client.close, remove): the set of clients and the count of each IP *)
(* address that the limits are checked against.                              *)
(*                                                                           *)
(* A connection can be closed by its own reader, by a failed write of any    *)
(* goroutine that sends to it, and by templateLoop before activation, at     *)
(* once; sync.Once lets one of them through.                                 *)
EXTENDS Integers, FiniteSets

CONSTANTS
    Conn,          \* connections at any one time, refused ones included
    IP,            \* hosts
    HostOf,        \* host of a connection
    Thread,        \* goroutines that may close a connection
    MaxMiners,
    MaxMinersPerIP

ASSUME ConnectionAssumption ==
    /\ IsFiniteSet(Conn)
    /\ HostOf \in [Conn -> IP]
    /\ MaxMiners \in Nat \ {0}
    /\ MaxMinersPerIP \in 1..MaxMiners

VARIABLES
    arrived,   \* connections the listener has accepted
    clients,   \* s.clients
    ipClients, \* s.ipClients, 0 for no entry
    once,      \* connections whose close has been entered
    closing,   \* goroutines inside the body of once, before remove
    called     \* goroutines that have called close

vars == <<arrived, clients, ipClients, once, closing, called>>

Of(ip) == {c \in clients : HostOf[c] = ip}

Init ==
    /\ arrived = {} /\ clients = {} /\ once = {}
    /\ ipClients = [ip \in IP |-> 0]
    /\ closing = [c \in Conn |-> {}]
    /\ called = [c \in Conn |-> {}]

\* Slip: only the host is limited.
FullByHost(ip) == ipClients[ip] >= MaxMinersPerIP

Full(ip) == Cardinality(clients) >= MaxMiners \/ ipClients[ip] >= MaxMinersPerIP

\* Under s.mu: refused at a limit, otherwise listed and counted.
Accept(c) ==
    /\ c \notin arrived
    /\ arrived' = arrived \cup {c}
    /\ IF Full(HostOf[c]) THEN UNCHANGED <<clients, ipClients>>
       ELSE /\ clients' = clients \cup {c}
            /\ ipClients' = [ipClients EXCEPT ![HostOf[c]] = @ + 1]
    /\ UNCHANGED <<once, closing, called>>

\* Slips: every caller runs the body; the body closes the socket only.
EnterAlways(c, t) == closing' = [closing EXCEPT ![c] = @ \cup {t}] /\ once' = once \cup {c}
EnterSocketOnly(c, t) == once' = once \cup {c} /\ UNCHANGED closing

\* once.Do: the first caller closes the socket and goes on to remove.
Enter(c, t) ==
    IF c \in once THEN UNCHANGED <<once, closing>>
    ELSE closing' = [closing EXCEPT ![c] = @ \cup {t}] /\ once' = once \cup {c}

\* A client that was never listed has no goroutine to close it; one that was
\* may still be on the list of a goroutine after it was removed.
Close(c, t) ==
    /\ c \in clients \cup once
    /\ t \notin called[c]
    /\ called' = [called EXCEPT ![c] = @ \cup {t}]
    /\ Enter(c, t)
    /\ UNCHANGED <<arrived, clients, ipClients>>

\* The entry of the last client of a host is deleted.
Uncount(ip) == [ipClients EXCEPT ![ip] = IF @ <= 1 THEN 0 ELSE @ - 1]

\* remove, under s.mu.
Remove(c, t) ==
    /\ t \in closing[c]
    /\ closing' = [closing EXCEPT ![c] = @ \ {t}]
    /\ clients' = clients \ {c}
    /\ ipClients' = Uncount(HostOf[c])
    /\ UNCHANGED <<arrived, once, called>>

\* The client is garbage, nobody holds it; the peer may connect anew.
Forget(c) ==
    /\ c \in arrived /\ c \notin clients
    /\ c \in once => called[c] = Thread /\ closing[c] = {}
    /\ arrived' = arrived \ {c}
    /\ once' = once \ {c}
    /\ called' = [called EXCEPT ![c] = {}]
    /\ UNCHANGED <<clients, ipClients, closing>>

Next ==
    \E c \in Conn :
        \/ Accept(c) \/ Forget(c)
        \/ \E t \in Thread : Close(c, t) \/ Remove(c, t)

Spec == Init /\ [][Next]_vars

\* A goroutine inside close goes on.
FairSpec == Spec /\ \A c \in Conn, t \in Thread : WF_vars(Remove(c, t))
-----------------------------------------------------------------------------
TypeOK ==
    /\ arrived \subseteq Conn /\ clients \subseteq arrived /\ once \subseteq arrived
    /\ ipClients \in [IP -> 0..MaxMinersPerIP]
    /\ closing \in [Conn -> SUBSET Thread]
    /\ called \in [Conn -> SUBSET Thread]

\* Each count is the number of clients of the host, whoever closes what and
\* when: a count that runs high locks a host out, one that runs low lets it in
\* beyond the limit (server.go:441-449 called through once at :534-539).
CountsAreExact == \A ip \in IP : ipClients[ip] = Cardinality(Of(ip))

\* Neither limit is ever exceeded (server.go:213-218).
WithinLimits ==
    /\ Cardinality(clients) <= MaxMiners
    /\ \A ip \in IP : Cardinality(Of(ip)) <= MaxMinersPerIP

\* A closed connection gives its place back.
PlaceIsFreed == \A c \in Conn : c \in once ~> c \notin clients
=============================================================================

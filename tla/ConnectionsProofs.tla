------------------------- MODULE ConnectionsProofs --------------------------
(* Proofs about Connections, for any number of connections, hosts and        *)
(* goroutines and for all limits.                                            *)
EXTENDS Connections, FiniteSetTheorems, TLAPS

\* At most one goroutine is between entering close and remove, and the client
\* it removes is still listed.
BodyOK ==
    \A c \in Conn : \A t \in closing[c] :
        c \in clients /\ c \in once /\ closing[c] = {t}

\* The inductive invariant of Connections.
IInv == TypeOK /\ BodyOK /\ CountsAreExact /\ WithinLimits

\* The sets that are counted are finite.
LEMMA FiniteClients ==
    ASSUME TypeOK
    PROVE  /\ IsFiniteSet(clients)
           /\ \A ip \in IP : IsFiniteSet(Of(ip))
  <1>1. clients \subseteq Conn
    BY DEF TypeOK
  <1>2. \A ip \in IP : Of(ip) \subseteq clients
    BY DEF Of
  <1> QED
    BY <1>1, <1>2, FS_Subset, ConnectionAssumption

\* The table starts empty.
LEMMA InitIInv == Init => IInv
  <1> SUFFICES ASSUME Init PROVE IInv
    OBVIOUS
  <1> USE ConnectionAssumption DEF Init
  <1>1. \A ip \in IP : Of(ip) = {}
    BY DEF Of
  <1>2. Cardinality({}) = 0
    BY FS_EmptySet
  <1>3. CountsAreExact
    BY <1>1, <1>2 DEF CountsAreExact
  <1>4. WithinLimits
    <2>1. \A ip \in IP : Cardinality(Of(ip)) = 0
      BY <1>1, <1>2
    <2> QED
      BY <1>2, <2>1 DEF WithinLimits
  <1>5. TypeOK /\ BodyOK
    BY DEF TypeOK, BodyOK
  <1> QED
    BY <1>3, <1>4, <1>5 DEF IInv

\* An accepted connection is one client more, of its own host only.
LEMMA AcceptKeeps ==
    ASSUME IInv, NEW c \in Conn, Accept(c)
    PROVE  IInv'
  <1> USE ConnectionAssumption
  <1> DEFINE h == HostOf[c]
  <1>1. CASE Full(h)
    <2>1. UNCHANGED <<clients, ipClients, once, closing, called>>
      BY <1>1 DEF Accept
    <2>2. Of(h)' = Of(h) /\ \A ip \in IP : Of(ip)' = Of(ip)
      BY <2>1 DEF Of
    <2> QED
      BY <2>1, <2>2 DEF Accept, IInv, TypeOK, BodyOK, CountsAreExact, WithinLimits
  <1>2. CASE ~Full(h)
    <2>1. /\ clients' = clients \cup {c}
          /\ ipClients' = [ipClients EXCEPT ![h] = @ + 1]
          /\ arrived' = arrived \cup {c}
          /\ UNCHANGED <<once, closing, called>>
      BY <1>2 DEF Accept
    <2>2. c \notin clients
      BY DEF Accept, IInv, TypeOK
    <2>3. h \in IP
      OBVIOUS
    <2>4. Cardinality(clients') = Cardinality(clients) + 1
      BY <2>1, <2>2, FiniteClients, FS_AddElement DEF IInv
    <2>5. Of(h)' = Of(h) \cup {c} /\ c \notin Of(h)
      BY <2>1, <2>2 DEF Of
    <2>6. Cardinality(Of(h)') = Cardinality(Of(h)) + 1
      BY <2>3, <2>5, FiniteClients, FS_AddElement DEF IInv
    <2>7. \A ip \in IP \ {h} : Of(ip)' = Of(ip)
      BY <2>1 DEF Of
    <2>8. ipClients[h] = Cardinality(Of(h)) /\ ipClients[h] < MaxMinersPerIP
      BY <1>2, <2>3 DEF Full, IInv, TypeOK, CountsAreExact
    <2>9. Cardinality(clients) < MaxMiners
      BY <1>2, FiniteClients, FS_CardinalityType DEF Full, IInv
    <2>10. CountsAreExact'
      BY <2>1, <2>3, <2>6, <2>7, <2>8 DEF CountsAreExact, IInv, TypeOK
    <2>11. WithinLimits'
      <3>1. Cardinality(clients') <= MaxMiners
        BY <2>4, <2>9, FiniteClients, FS_CardinalityType DEF IInv
      <3>2. \A ip \in IP : Cardinality(Of(ip)') <= MaxMinersPerIP
        BY <2>6, <2>7, <2>8 DEF IInv, WithinLimits, TypeOK
      <3> QED
        BY <3>1, <3>2 DEF WithinLimits
    <2>12. TypeOK'
      BY <2>1, <2>3, <2>8 DEF IInv, TypeOK
    <2>13. BodyOK'
      BY <2>1 DEF IInv, BodyOK
    <2> QED
      BY <2>10, <2>11, <2>12, <2>13 DEF IInv
  <1> QED
    BY <1>1, <1>2

\* A call of close changes neither the table nor the counts.
LEMMA CloseKeeps ==
    ASSUME IInv, NEW c \in Conn, NEW t \in Thread, Close(c, t)
    PROVE  IInv'
  <1> USE ConnectionAssumption
  <1>1. UNCHANGED <<arrived, clients, ipClients>>
    BY DEF Close
  <1>2. \A ip \in IP : Of(ip)' = Of(ip)
    BY <1>1 DEF Of
  <1>3. CountsAreExact' /\ WithinLimits'
    BY <1>1, <1>2 DEF IInv, CountsAreExact, WithinLimits
  <1>4. TypeOK'
    BY DEF Close, Enter, IInv, TypeOK
  <1>5. CASE c \in once
    <2>1. UNCHANGED <<once, closing>>
      BY <1>5 DEF Close, Enter
    <2>2. BodyOK'
      BY <1>1, <2>1 DEF IInv, BodyOK
    <2> QED
      BY <1>3, <1>4, <2>2 DEF IInv
  <1>6. CASE c \notin once
    <2>1. closing[c] = {} /\ c \in clients
      BY <1>6 DEF Close, IInv, BodyOK
    <2>2. closing' = [closing EXCEPT ![c] = @ \cup {t}] /\ once' = once \cup {c}
      BY <1>6 DEF Close, Enter
    <2>3. BodyOK'
      BY <1>1, <2>1, <2>2 DEF IInv, BodyOK, TypeOK
    <2> QED
      BY <1>3, <1>4, <2>3 DEF IInv
  <1> QED
    BY <1>5, <1>6

\* remove takes one listed client away, and one from the count of its host.
LEMMA RemoveKeeps ==
    ASSUME IInv, NEW c \in Conn, NEW t \in Thread, Remove(c, t)
    PROVE  IInv'
  <1> USE ConnectionAssumption
  <1> DEFINE h == HostOf[c]
  <1>1. h \in IP /\ c \in clients /\ closing[c] = {t}
    BY DEF Remove, IInv, BodyOK
  <1>2. /\ clients' = clients \ {c}
        /\ closing' = [closing EXCEPT ![c] = @ \ {t}]
        /\ ipClients' = [ipClients EXCEPT ![h] = IF @ <= 1 THEN 0 ELSE @ - 1]
        /\ UNCHANGED <<arrived, once, called>>
    BY DEF Remove, Uncount
  <1>3. Cardinality(clients') = Cardinality(clients) - 1
    BY <1>1, <1>2, FiniteClients, FS_RemoveElement DEF IInv
  <1>4. Of(h)' = Of(h) \ {c} /\ c \in Of(h)
    BY <1>1, <1>2 DEF Of
  <1>a. IsFiniteSet(Of(h))
    BY <1>1, FiniteClients DEF IInv
  <1>5. Cardinality(Of(h) \ {c}) = Cardinality(Of(h)) - 1
    BY <1>4, <1>a, FS_RemoveElement
  <1>6. Cardinality(Of(h)') \in Nat
    BY <1>4, <1>a, FS_RemoveElement, FS_CardinalityType
  <1>7. \A ip \in IP \ {h} : Of(ip)' = Of(ip)
    BY <1>2 DEF Of
  <1>8. ipClients[h] = Cardinality(Of(h)) /\ ipClients[h] \in 0..MaxMinersPerIP
    BY <1>1 DEF IInv, CountsAreExact, TypeOK
  <1>9. ipClients'[h] = Cardinality(Of(h)')
    <2>1. Cardinality(Of(h)) = Cardinality(Of(h)') + 1
      BY <1>4, <1>5, <1>6, <1>8
    <2>2. ipClients'[h] = IF ipClients[h] <= 1 THEN 0 ELSE ipClients[h] - 1
      BY <1>1, <1>2 DEF IInv, TypeOK
    <2> QED
      BY <1>6, <1>8, <2>1, <2>2
  <1>10. CountsAreExact'
    BY <1>2, <1>7, <1>9 DEF IInv, TypeOK, CountsAreExact
  <1>11. WithinLimits'
    <2>1. Cardinality(clients') <= MaxMiners
      BY <1>3, FiniteClients, FS_CardinalityType DEF IInv, WithinLimits
    <2>2. \A ip \in IP : Cardinality(Of(ip)') <= MaxMinersPerIP
      BY <1>4, <1>5, <1>7, <1>8, <1>9 DEF IInv, WithinLimits
    <2> QED
      BY <2>1, <2>2 DEF WithinLimits
  <1>12. TypeOK'
    BY <1>1, <1>2, <1>8 DEF IInv, TypeOK
  <1>13. BodyOK'
    BY <1>1, <1>2 DEF IInv, BodyOK, TypeOK
  <1> QED
    BY <1>10, <1>11, <1>12, <1>13 DEF IInv

\* A forgotten client was in neither table.
LEMMA ForgetKeeps ==
    ASSUME IInv, NEW c \in Conn, Forget(c)
    PROVE  IInv'
  <1>1. UNCHANGED <<clients, ipClients, closing>>
    BY DEF Forget
  <1>2. \A ip \in IP : Of(ip)' = Of(ip)
    BY <1>1 DEF Of
  <1>3. CountsAreExact' /\ WithinLimits'
    BY <1>1, <1>2 DEF IInv, CountsAreExact, WithinLimits
  <1>4. TypeOK' /\ BodyOK'
    BY DEF Forget, IInv, TypeOK, BodyOK
  <1> QED
    BY <1>3, <1>4 DEF IInv

\* The inductive invariant holds: accept, close and remove preserve it.
THEOREM Invariance == Spec => []IInv
  <1>1. IInv /\ [Next]_vars => IInv'
    <2> SUFFICES ASSUME IInv, [Next]_vars PROVE IInv'
      OBVIOUS
    <2>1. CASE UNCHANGED vars
      <3>1. \A ip \in IP : Of(ip)' = Of(ip)
        BY <2>1 DEF vars, Of
      <3> QED
        BY <2>1, <3>1 DEF vars, IInv, TypeOK, BodyOK, CountsAreExact, WithinLimits
    <2>2. CASE Next
      BY <2>2, AcceptKeeps, CloseKeeps, RemoveKeeps, ForgetKeeps DEF Next
    <2> QED
      BY <2>1, <2>2
  <1> QED
    BY <1>1, InitIInv, PTL DEF Spec

\* However many goroutines close a connection, every count of s.ipClients is
\* the number of its clients (server.go:534-539, :441-449).
THEOREM ExactCounts == Spec => []CountsAreExact
  <1>1. IInv => CountsAreExact
    BY DEF IInv
  <1> QED
    BY <1>1, Invariance, PTL

\* Neither connection limit is ever exceeded (server.go:213-218).
THEOREM LimitsHold == Spec => []WithinLimits
  <1>1. IInv => WithinLimits
    BY DEF IInv
  <1> QED
    BY <1>1, Invariance, PTL
=============================================================================

---------------------------- MODULE PayoutsProofs ----------------------------
(* Proofs about Payouts: no credit is promised or paid twice, for every set  *)
(* of addresses, blocks, allocations, policies and limits.                   *)
EXTENDS Payouts, TotalsProofs

InFlight == stray \cup (IF pc = "await" THEN {wire} ELSE {})

\* Requests repeat the row they were built from, early or late.
RequestsOK ==
    /\ pc = "await" => wire \in Request
    /\ \A r \in InFlight : /\ paystat[r.id] # "absent"
                           /\ r.items = item[r.id]
                           /\ r.fee = fee[r.id]

\* The pass works on active rows, and prepares only when there is none.
PassOK ==
    /\ batch \subseteq Active
    /\ pc = "prepare" => Active = {}
    /\ pc = "await" => wire.id \in batch

\* A good answer is about a request the node signed.
ReplyOK ==
    pc = "await" /\ reply \in {"submitted", "confirmed"} =>
        /\ wire.id \in Signed
        /\ reply = "confirmed" => wire.id \in final

\* The inductive invariant: what keeps late requests harmless (RequestsOK),
\* the pass on active rows (PassOK) and its answers true (ReplyOK), next to
\* the properties themselves.
IInv ==
    /\ TypeOK
    /\ RequestsOK
    /\ PassOK
    /\ ReplyOK
    /\ final \subseteq Signed
    /\ BooksFollowNode
    /\ AtMostOneActive
    /\ NeverOverReserved

\* There are finitely many payouts, and hence finitely many in any subset.
LEMMA FinitePayouts == \A S \in SUBSET PayoutId : IsFiniteSet(S)
  <1>1. IsFiniteSet(PayoutId)
    BY LedgerAssumption, FS_Interval DEF PayoutId
  <1> QED
    BY <1>1, FS_Subset

LEMMA FiniteBlocks == \A S \in SUBSET Block : IsFiniteSet(S)
  BY LedgerAssumption, FS_Subset

\* Balances are naturals.
LEMMA BalancesType ==
    ASSUME TypeOK, NEW a \in Address
    PROVE  Mature(a) \in Nat /\ Reserved(a) \in Nat
  <1>1. IsFiniteSet(Matured) /\ IsFiniteSet(Reserving)
    BY FinitePayouts, FiniteBlocks DEF Matured, Reserving
  <1>2. \A b \in Matured : [c \in Block |-> award[c].credit[a]][b] \in Nat
    BY DEF Matured, TypeOK
  <1>3. \A p \in Reserving : [q \in PayoutId |-> item[q][a]][p] \in Nat
    BY DEF Reserving, TypeOK
  <1> QED
    BY <1>1, <1>2, <1>3, TotalType DEF Mature, Reserved

LEMMA InitIInv == Init => IInv
  <1> SUFFICES ASSUME Init PROVE IInv
    OBVIOUS
  <1>1. TypeOK
    BY LedgerAssumption DEF Init, TypeOK, NoAward, Unit
  <1>2. RequestsOK /\ PassOK /\ ReplyOK /\ final \subseteq Signed
           /\ BooksFollowNode /\ AtMostOneActive
    BY DEF Init, RequestsOK, InFlight, PassOK, ReplyOK, Signed, BooksFollowNode,
           AtMostOneActive, Active
  <1>3. NeverOverReserved
    <2> SUFFICES ASSUME NEW a \in Address PROVE Reserved(a) <= Mature(a)
      BY DEF NeverOverReserved
    <2>1. Reserving = {}
      BY DEF Init, Reserving
    <2>2. Reserved(a) = 0
      BY <2>1, TotalEmpty DEF Reserved
    <2> QED
      BY <1>1, <2>2, BalancesType
  <1> QED
    BY <1>1, <1>2, <1>3 DEF IInv

\* A step that leaves rows and blocks alone leaves balances alone.
LEMMA BalancesKept ==
    ASSUME TypeOK, NeverOverReserved, status' = status, award' = award,
           item' = item, Reserving' = Reserving
    PROVE  NeverOverReserved'
  BY DEF NeverOverReserved, Reserved, Mature, Matured

\* What a recipient gets is what is available, a natural.
LEMMA RecipientsType ==
    ASSUME TypeOK, NeverOverReserved, NEW a \in Address
    PROVE  /\ Available(a) \in Nat
           /\ (IF a \in Recipients THEN Available(a) ELSE 0) \in Nat
  BY BalancesType DEF NeverOverReserved, Available

LEMMA StepTypeOK == IInv /\ [Next]_vars => TypeOK'
  <1> SUFFICES ASSUME IInv, [Next]_vars PROVE TypeOK'
    OBVIOUS
  <1> USE LedgerAssumption DEF IInv, TypeOK
  <1>1. ASSUME NEW b \in Block, AllocateBlock(b) \/ SettleBlock(b) PROVE TypeOK'
    BY <1>1 DEF AllocateBlock, SettleBlock, payVars, nodeVars, passVars
  <1>2. CASE ReadStatus \/ StoreFails \/ PrepareNothing \/ EndPass
    BY <1>2 DEF ReadStatus, StoreFails, PrepareNothing, EndPass, ledgerVars, payVars,
           nodeVars
  <1>3. CASE ListActive
    <2>1. /\ batch' \subseteq PayoutId /\ pc' \in {"prepare", "send"}
          /\ UNCHANGED <<ledgerVars, payVars, nodeVars, seen, wire, reply, stray, crashes>>
      BY <1>3 DEF ListActive, Active
    <2> QED
      BY <2>1 DEF ledgerVars, payVars, nodeVars
  <1>4. ASSUME NEW p \in PayoutId, PreparePayouts(p) PROVE TypeOK'
    <2>1. [a \in Address |-> IF a \in Recipients THEN Available(a) ELSE 0]
              \in [Address -> Nat]
      BY RecipientsType
    <2>2. item' \in [PayoutId -> [Address -> Nat]]
      BY <1>4, <2>1 DEF PreparePayouts
    <2>3. fee' \in [PayoutId -> Nat]
      BY <1>4 DEF PreparePayouts
    <2> QED
      BY <1>4, <2>2, <2>3 DEF PreparePayouts, ledgerVars, nodeVars
  <1>5. ASSUME NEW p \in PayoutId, SendPayout(p) PROVE TypeOK'
    <2>1. RequestOf(p) \in Request
      BY DEF RequestOf, Request
    <2> QED
      BY <1>5, <2>1 DEF SendPayout, ledgerVars, payVars, nodeVars
  <1>6. CASE PayoutAnswered \/ AccountingFails \/ PayoutRefused \/ PayoutTimesOut
    BY <1>6 DEF PayoutAnswered, AccountingFails, PayoutRefused, PayoutTimesOut,
           NextPayout, SetPayoutState, ledgerVars, payVars, nodeVars, RequestsOK
  <1>7. CASE NodeSigns
    <2>1. PICK r \in Arriving : signed' = [signed EXCEPT ![r.id] = r]
      BY <1>7 DEF NodeSigns
    <2>2. r \in Request
      BY DEF Arriving, RequestsOK
    <2> QED
      BY <1>7, <2>1, <2>2 DEF NodeSigns, ledgerVars, payVars, passVars
  <1>8. CASE NodeAnswers
    BY <1>8 DEF NodeAnswers, ledgerVars, payVars, nodeVars
  <1>9. ASSUME NEW p \in PayoutId, NodeFinalizes(p) PROVE TypeOK'
    BY <1>9 DEF NodeFinalizes, ledgerVars, payVars, passVars
  <1>10. CASE PQDay
    BY <1>10 DEF PQDay, Unit, ledgerVars, payVars, passVars
  <1>11. CASE Crash
    BY <1>11 DEF Crash, RequestsOK, ledgerVars, payVars, nodeVars
  <1>12. CASE UNCHANGED vars
    BY <1>12 DEF vars, ledgerVars, payVars, nodeVars, passVars
  <1> QED
    BY <1>1, <1>2, <1>3, <1>4, <1>5, <1>6, <1>7, <1>8, <1>9, <1>10, <1>11,
       <1>12 DEF Next

\* The part of the invariant that relates rows, requests and answers.
RowsInv ==
    /\ RequestsOK /\ PassOK /\ ReplyOK
    /\ final \subseteq Signed
    /\ BooksFollowNode /\ AtMostOneActive

LEMMA StepRows == IInv /\ [Next]_vars => RowsInv'
  <1> SUFFICES ASSUME IInv, [Next]_vars PROVE RowsInv'
    OBVIOUS
  <1>t. TypeOK /\ TypeOK' /\ RowsInv
    BY StepTypeOK DEF IInv, RowsInv
  <1> DEFINE kept == <<ledgerVars, payVars, nodeVars, stray, crashes>>
  <1> USE <1>t DEF RowsInv, RequestsOK, InFlight, PassOK, ReplyOK, Signed,
          BooksFollowNode, AtMostOneActive, Active
  <1>1. ASSUME NEW b \in Block, AllocateBlock(b) \/ SettleBlock(b)
        PROVE  RowsInv'
    BY <1>1 DEF AllocateBlock, SettleBlock, payVars, nodeVars, passVars
  <1>2. CASE ReadStatus \/ StoreFails \/ PrepareNothing \/ EndPass
    BY <1>2 DEF ReadStatus, StoreFails, PrepareNothing, EndPass, ledgerVars,
           payVars, nodeVars
  <1>3. CASE ListActive
    <2>1. /\ batch' \subseteq Active
          /\ pc' \in {"prepare", "send"} /\ (pc' = "prepare" => Active = {})
          /\ UNCHANGED <<ledgerVars, payVars, nodeVars, seen, wire, reply, stray, crashes>>
      BY ONLY <1>3 DEF ListActive
    <2> QED
      BY <1>3, <2>1 DEF ListActive, ledgerVars, payVars, nodeVars
  <1>4. ASSUME NEW p \in PayoutId, PreparePayouts(p) PROVE RowsInv'
    <2>1. /\ pc = "prepare" /\ pc' = "send" /\ batch' = {p}
          /\ paystat[p] = "absent" /\ Active = {}
          /\ paystat' = [paystat EXCEPT ![p] = "prepared"]
          /\ \A q \in PayoutId : q # p => item'[q] = item[q] /\ fee'[q] = fee[q]
          /\ UNCHANGED <<ledgerVars, nodeVars, seen, wire, reply, stray, crashes>>
      BY <1>4 DEF PreparePayouts, TypeOK
    <2>2. /\ p \notin Signed /\ Active' = {p}
          /\ \A r \in stray : r.id \in PayoutId /\ r.id # p
      BY <2>1 DEF TypeOK, Request
    <2>3. RequestsOK' /\ PassOK' /\ ReplyOK' /\ (final \subseteq Signed)'
             /\ AtMostOneActive'
      BY <2>1, <2>2 DEF nodeVars, TypeOK, Request
    <2>4. \A q \in Signed : q \in PayoutId /\ q # p /\ paystat'[q] = paystat[q]
      BY <2>1, <2>2 DEF TypeOK
    <2>5. BooksFollowNode'
      BY <2>1, <2>2, <2>4 DEF nodeVars, TypeOK
    <2> QED
      BY <2>3, <2>5
  <1>5. ASSUME NEW p \in PayoutId, SendPayout(p) PROVE RowsInv'
    <2>1. /\ pc' = "await" /\ reply' = "none" /\ p \in batch
          /\ wire' = RequestOf(p)
          /\ UNCHANGED <<ledgerVars, payVars, nodeVars, seen, batch, stray, crashes>>
      BY <1>5 DEF SendPayout
    <2>2. /\ wire'.id = p /\ wire'.items = item[p] /\ wire'.fee = fee[p]
          /\ RequestOf(p) \in Request /\ paystat[p] # "absent"
      BY <2>1 DEF RequestOf, TypeOK, Request
    <2> QED
      BY <2>1, <2>2 DEF payVars, nodeVars
  <1>6. CASE PayoutAnswered
    <2>1. wire.id \in batch /\ wire.id \in Active /\ wire.id \in Signed
             /\ (reply = "confirmed" => wire.id \in final)
      BY <1>6 DEF PayoutAnswered
    <2>2. /\ paystat' = [paystat EXCEPT ![wire.id] = reply]
          /\ reply \in {"submitted", "confirmed"}
          /\ batch' = batch \ {wire.id} /\ pc' = "send"
          /\ UNCHANGED <<ledgerVars, item, fee, nodeVars, seen, stray, crashes>>
      BY <1>6, <2>1 DEF PayoutAnswered, SetPayoutState, NextPayout
    <2>3. \A q \in PayoutId : q # wire.id => paystat'[q] = paystat[q]
      BY <2>2 DEF TypeOK
    <2>4. paystat'[wire.id] = reply
      BY <2>1, <2>2 DEF TypeOK
    <2>5. BooksFollowNode' /\ AtMostOneActive' /\ PassOK'
      BY <2>1, <2>2, <2>3, <2>4 DEF nodeVars
    <2>6. RequestsOK' /\ ReplyOK' /\ (final \subseteq Signed)'
      BY <2>1, <2>2, <2>3, <2>4 DEF nodeVars, TypeOK, Request
    <2> QED
      BY <2>5, <2>6
  <1>7. CASE AccountingFails \/ PayoutRefused
    BY <1>7 DEF AccountingFails, PayoutRefused, NextPayout, ledgerVars, payVars,
           nodeVars
  <1>8. CASE PayoutTimesOut
    BY <1>8 DEF PayoutTimesOut, NextPayout, ledgerVars, payVars, nodeVars
  <1>9. CASE NodeSigns
    <2>1. PICK r \in Arriving : signed[r.id] = NoRequest
                                  /\ signed' = [signed EXCEPT ![r.id] = r]
      BY <1>9 DEF NodeSigns
    <2>2. /\ r \in Request /\ r.id \in PayoutId /\ r # NoRequest
          /\ r.items = item[r.id] /\ r.fee = fee[r.id]
          /\ paystat[r.id] # "absent"
      BY NoRequestAssumption DEF Arriving, Request, TypeOK
    <2>3. /\ \A q \in PayoutId : q # r.id => signed'[q] = signed[q]
          /\ signed'[r.id] = r
      BY <2>1, <2>2 DEF TypeOK
    <2>4. UNCHANGED <<ledgerVars, payVars, unit, final, passVars, stray, crashes>>
      BY <1>9 DEF NodeSigns
    <2>5. Signed' = Signed \cup {r.id}
      BY <2>2, <2>3
    <2>6. BooksFollowNode'
      BY <2>2, <2>3, <2>4, <2>5 DEF payVars
    <2>7. RequestsOK' /\ PassOK' /\ ReplyOK' /\ (final \subseteq Signed)'
             /\ AtMostOneActive'
      BY <2>4, <2>5 DEF payVars, passVars
    <2> QED
      BY <2>6, <2>7
  <1>10. CASE NodeAnswers
    <2>1. wire \in Request /\ wire.id \in PayoutId /\ wire # NoRequest
      BY <1>10, NoRequestAssumption DEF NodeAnswers, Request
    <2>2. /\ reply' \in {"submitted", "confirmed"} => wire.id \in Signed
          /\ reply' = "confirmed" => wire.id \in final
      BY <1>10, <2>1 DEF NodeAnswers
    <2> QED
      BY <1>10, <2>1, <2>2 DEF NodeAnswers, payVars, nodeVars
  <1>11. ASSUME NEW p \in PayoutId, NodeFinalizes(p) PROVE RowsInv'
    BY <1>11 DEF NodeFinalizes, payVars, passVars
  <1>12. CASE PQDay
    BY <1>12 DEF PQDay, payVars, passVars
  <1>13. CASE Crash
    BY <1>13 DEF Crash, payVars, nodeVars
  <1>14. CASE UNCHANGED vars
    BY <1>14 DEF vars, payVars, nodeVars, passVars
  <1> QED
    BY <1>1, <1>2, <1>3, <1>4, <1>5, <1>6, <1>7, <1>8, <1>9, <1>10, <1>11,
       <1>12, <1>13, <1>14 DEF Next

\* The balances: they change only when a block is settled and when one
\* transaction reserves what is available.
LEMMA StepReserved == IInv /\ [Next]_vars => NeverOverReserved'
  <1> SUFFICES ASSUME IInv, [Next]_vars PROVE NeverOverReserved'
    OBVIOUS
  <1>t. TypeOK /\ TypeOK' /\ NeverOverReserved
    BY StepTypeOK DEF IInv
  <1>1. ASSUME NEW b \in Block, AllocateBlock(b) PROVE NeverOverReserved'
    <2>1. Matured' = Matured /\ b \notin Matured /\ Reserving' = Reserving
      BY <1>1, <1>t DEF AllocateBlock, Matured, Reserving, TypeOK, payVars
    <2>2. \A c \in Matured : award'[c] = award[c]
      BY <1>1, <1>t, <2>1 DEF AllocateBlock, Matured, TypeOK
    <2>3. item' = item
      BY <1>1 DEF AllocateBlock, payVars
    <2> SUFFICES ASSUME NEW a \in Address PROVE Reserved(a)' <= Mature(a)'
      BY DEF NeverOverReserved
    <2> DEFINE f == [c \in Block |-> award[c].credit[a]]
               g == [c \in Block |-> award'[c].credit[a]]
    <2>4. \A c \in Matured : f[c] = g[c]
      BY <2>2 DEF Matured
    <2> HIDE DEF f, g
    <2>5. Total(Matured, f) = Total(Matured, g)
      BY <2>4, TotalSame
    <2>6. Mature(a)' = Mature(a)
      BY <2>1, <2>5 DEF Mature, f, g
    <2>7. Reserved(a)' = Reserved(a)
      BY <2>1, <2>3 DEF Reserved
    <2> QED
      BY <1>t, <2>6, <2>7 DEF NeverOverReserved
  <1>2. ASSUME NEW b \in Block, SettleBlock(b) PROVE NeverOverReserved'
    <2>1. Matured \subseteq Matured' /\ Reserving' = Reserving
             /\ item' = item /\ award' = award
      BY <1>2, <1>t DEF SettleBlock, Matured, Reserving, TypeOK, payVars
    <2> SUFFICES ASSUME NEW a \in Address PROVE Reserved(a)' <= Mature(a)'
      BY DEF NeverOverReserved
    <2> DEFINE f == [c \in Block |-> award[c].credit[a]]
               M == Matured'
    <2>2. \A c \in M : f[c] \in Nat
      BY <1>t DEF TypeOK, Matured
    <2>3. IsFiniteSet(M) /\ Matured \in SUBSET M
      BY <2>1, FiniteBlocks DEF Matured
    <2> HIDE DEF f, M
    <2>4. Total(Matured, f) <= Total(M, f)
      BY <2>2, <2>3, TotalMonotone
    <2>5. Mature(a) <= Mature(a)'
      BY <2>1, <2>4 DEF Mature, f, M
    <2>6. Reserved(a)' = Reserved(a) /\ Reserved(a) <= Mature(a)
      BY <2>1, <1>t DEF Reserved, NeverOverReserved
    <2>7. Mature(a)' = Total(M, f)
      BY <2>1 DEF Mature, f, M
    <2>8. Reserved(a) \in Nat /\ Mature(a) \in Nat /\ Mature(a)' \in Nat
      BY <1>t, <2>2, <2>3, <2>7, BalancesType, TotalType
    <2> QED
      BY <2>5, <2>6, <2>8
  <1>3. ASSUME NEW p \in PayoutId, PreparePayouts(p) PROVE NeverOverReserved'
    <2>1. /\ Reserving' = Reserving \cup {p} /\ p \notin Reserving
          /\ status' = status /\ award' = award
          /\ \A q \in PayoutId : q # p => item'[q] = item[q]
          /\ item'[p] = [a \in Address |->
                            IF a \in Recipients THEN Available(a) ELSE 0]
      BY <1>3, <1>t DEF PreparePayouts, Reserving, TypeOK, ledgerVars
    <2> SUFFICES ASSUME NEW a \in Address PROVE Reserved(a)' <= Mature(a)'
      BY DEF NeverOverReserved
    <2> DEFINE f == [q \in PayoutId |-> item[q][a]]
               g == [q \in PayoutId |-> item'[q][a]]
    <2>2. \A q \in Reserving : f[q] = g[q]
      BY <2>1 DEF Reserving
    <2>3. \A q \in Reserving \cup {p} : g[q] \in Nat
      BY <1>t DEF TypeOK, Reserving
    <2>4. g[p] <= Available(a)
      BY <1>t, <2>1, RecipientsType
    <2>5. IsFiniteSet(Reserving)
      BY FinitePayouts DEF Reserving
    <2> HIDE DEF f, g
    <2>6. Total(Reserving \cup {p}, g) = Total(Reserving, g) + g[p]
      BY <2>1, <2>3, <2>5, TotalAdd
    <2>7. Total(Reserving, g) = Total(Reserving, f)
      BY <2>2, TotalSame
    <2>8. Reserved(a)' = Reserved(a) + g[p]
      BY <2>1, <2>6, <2>7 DEF Reserved, f, g
    <2>9. Mature(a)' = Mature(a)
      BY <2>1 DEF Mature, Matured
    <2>10. Reserved(a) \in Nat /\ Mature(a) \in Nat /\ g[p] \in Nat
      BY <1>t, <2>3, BalancesType
    <2> QED
      BY <2>4, <2>8, <2>9, <2>10 DEF Available
  <1>4. CASE PayoutAnswered
    <2>1. wire.id \in Active
      BY <1>4 DEF IInv, PassOK, PayoutAnswered
    <2>2. paystat' = [paystat EXCEPT ![wire.id] = reply]
             /\ reply \in {"submitted", "confirmed"}
      BY <1>4, <2>1 DEF PayoutAnswered, SetPayoutState
    <2>3. Reserving' = Reserving
      BY <1>t, <2>1, <2>2 DEF Reserving, Active, TypeOK
    <2> QED
      BY <1>4, <1>t, <2>3, BalancesKept DEF PayoutAnswered, ledgerVars
  <1>5. CASE UNCHANGED <<ledgerVars, payVars>>
    <2>1. Reserving' = Reserving
      BY <1>5 DEF Reserving, payVars
    <2> QED
      BY <1>5, <1>t, <2>1, BalancesKept DEF ledgerVars, payVars
  <1> QED
    BY <1>1, <1>2, <1>3, <1>4, <1>5
    DEF Next, vars, ReadStatus, ListActive, StoreFails, PrepareNothing, SendPayout,
        NodeFinalizes, AccountingFails, PayoutRefused, PayoutTimesOut, EndPass,
        NodeSigns, NodeAnswers, PQDay, Crash

\* The inductive invariant holds throughout.
THEOREM Invariance == Spec => []IInv
  <1>1. IInv /\ [Next]_vars => IInv'
    BY StepTypeOK, StepRows, StepReserved DEF IInv, RowsInv
  <1> QED
    BY InitIInv, <1>1, PTL DEF Spec

\* Types, for every set of addresses and blocks and every policy.
THEOREM TypeCorrect == Spec => []TypeOK
  BY Invariance, PTL DEF IInv

\* Payouts never reserve more than an address earned in mature blocks.
THEOREM NoDoubleReservation == Spec => []NeverOverReserved
  BY Invariance, PTL DEF IInv

\* There is at most one batch between preparation and confirmation.
THEOREM OneBatchAtATime == Spec => []AtMostOneActive
  BY Invariance, PTL DEF IInv

\* The books never run ahead of the node.
THEOREM BooksSafe == Spec => []BooksFollowNode
  BY Invariance, PTL DEF IInv

\* What the node signed for an address is within its mature credit: signed
\* batches carry the items of their rows, and those are within the credit.
THEOREM NoDoublePayment == Spec => []PaidWithinCredit
  <1>1. IInv => PaidWithinCredit
    <2> SUFFICES ASSUME IInv, NEW a \in Address
                 PROVE  Total(Signed, [p \in Signed |-> signed[p].items[a]])
                          <= Mature(a)
      BY DEF PaidWithinCredit
    <2> DEFINE f == [p \in Signed |-> signed[p].items[a]]
               g == [p \in PayoutId |-> item[p][a]]
    <2>1. /\ TypeOK /\ NeverOverReserved
          /\ \A p \in Signed : signed[p].items = item[p] /\ p \in Reserving
      BY DEF IInv, BooksFollowNode, TypeOK, Signed, Reserving
    <2>2. \A p \in Signed : f[p] = g[p]
      BY <2>1 DEF Signed
    <2>3. \A p \in Reserving : g[p] \in Nat
      BY <2>1 DEF TypeOK, Reserving
    <2>4. IsFiniteSet(Reserving) /\ Signed \in SUBSET Reserving
      BY <2>1, FinitePayouts DEF Reserving
    <2>5. IsFiniteSet(Signed) /\ \A p \in Signed : g[p] \in Nat
      BY <2>3, <2>4, FS_Subset
    <2> HIDE DEF f, g
    <2>6. Total(Signed, f) = Total(Signed, g)
      BY <2>2, TotalSame
    <2>7. Total(Signed, g) <= Total(Reserving, g)
      BY <2>3, <2>4, TotalMonotone
    <2>8. Total(Signed, g) \in Nat
      BY <2>5, TotalType
    <2>9. Total(Reserving, g) = Reserved(a)
      BY DEF g, Reserved
    <2>10. Reserved(a) <= Mature(a) /\ Reserved(a) \in Nat /\ Mature(a) \in Nat
      BY <2>1, BalancesType DEF NeverOverReserved
    <2>11. Total(Signed, f) <= Mature(a)
      BY <2>6, <2>7, <2>8, <2>9, <2>10
    <2> QED
      BY <2>11 DEF f
  <1> QED
    BY Invariance, <1>1, PTL

\* Outputs and fee of a prepared batch never change, and a confirmed batch
\* stays confirmed.
THEOREM BatchesAreFrozen == Spec => BatchIsFrozen
  <1> DEFINE Frozen == \A p \in PayoutId : paystat[p] # "absent" =>
                 /\ item'[p] = item[p] /\ fee'[p] = fee[p]
                 /\ paystat'[p] # "absent"
                 /\ paystat[p] = "confirmed" => paystat'[p] = "confirmed"
  <1>1. IInv /\ [Next]_vars => [Frozen]_vars
    <2> SUFFICES ASSUME IInv, Next PROVE Frozen
      OBVIOUS
    <2>1. ASSUME NEW q \in PayoutId, PreparePayouts(q) PROVE Frozen
      BY <2>1 DEF PreparePayouts, IInv, TypeOK
    <2>2. CASE PayoutAnswered
      BY <2>2 DEF PayoutAnswered, SetPayoutState, IInv, PassOK, TypeOK, Active
    <2>3. CASE UNCHANGED payVars
      BY <2>3 DEF payVars
    <2> QED
      BY <2>1, <2>2, <2>3
      DEF Next, AllocateBlock, SettleBlock, ReadStatus, ListActive, StoreFails,
          PrepareNothing, SendPayout, NodeFinalizes, AccountingFails, PayoutRefused,
          PayoutTimesOut, EndPass, NodeSigns, NodeAnswers, PQDay, Crash
  <1> QED
    BY <1>1, Invariance, PTL DEF Spec, BatchIsFrozen

\* The amounts of an account are naturals.
LEMMA AccountType ==
    ASSUME TypeOK, NEW a \in Address
    PROVE  Announced(a) \in Nat /\ InQueue(a) \in Nat /\ PaidOut(a) \in Nat
  <1>1. IsFiniteSet(Pending) /\ IsFiniteSet(Queued) /\ IsFiniteSet(Paid)
    BY FinitePayouts, FiniteBlocks DEF Pending, Queued, Paid
  <1>2. \A b \in Pending : [c \in Block |-> award[c].credit[a]][b] \in Nat
    BY DEF Pending, TypeOK
  <1>3. \A p \in Queued \cup Paid : [q \in PayoutId |-> item[q][a]][p] \in Nat
    BY DEF Queued, Paid, TypeOK
  <1> QED
    BY <1>1, <1>2, <1>3, TotalType DEF Announced, InQueue, PaidOut

\* What a set of blocks that excludes a new one is worth does not depend on it.
LEMMA AwardKept ==
    ASSUME NEW S \in SUBSET Block, NEW a, \A c \in S : award'[c] = award[c]
    PROVE  Total(S, [c \in Block |-> award'[c].credit[a]])
             = Total(S, [c \in Block |-> award[c].credit[a]])
  <1> DEFINE f == [c \in Block |-> award[c].credit[a]]
             g == [c \in Block |-> award'[c].credit[a]]
  <1>1. \A c \in S : g[c] = f[c]
    OBVIOUS
  <1> HIDE DEF f, g
  <1>2. Total(S, g) = Total(S, f)
    BY <1>1, TotalSame
  <1> QED
    BY <1>2 DEF f, g

\* A new block announces its credit, and changes nothing else.
LEMMA FoundStep ==
    ASSUME TypeOK, TypeOK', NEW b \in Block, AllocateBlock(b), NEW a \in Address
    PROVE  /\ Announced(a)' >= Announced(a) /\ Available(a)' = Available(a)
           /\ InQueue(a)' = InQueue(a) /\ PaidOut(a)' = PaidOut(a)
  <1> DEFINE g == [c \in Block |-> award'[c].credit[a]]
  <1>1. /\ Pending' = Pending \cup {b} /\ b \notin Pending
        /\ Matured' = Matured /\ b \notin Matured
        /\ item' = item /\ paystat' = paystat
    BY DEF AllocateBlock, Pending, Matured, TypeOK, payVars
  <1>2. \A c \in Pending \cup Matured : award'[c] = award[c]
    BY <1>1 DEF AllocateBlock, Pending, Matured, TypeOK
  <1>3. \A c \in Pending \cup {b} : g[c] \in Nat
    BY DEF Pending, TypeOK
  <1>4. IsFiniteSet(Pending) /\ Pending \in SUBSET Block /\ Matured \in SUBSET Block
    BY FiniteBlocks DEF Pending, Matured
  <1>5. Total(Pending, g) = Announced(a) /\ Total(Matured, g) = Mature(a)
    <2>1. \A c \in Pending : award'[c] = award[c]
      BY <1>2
    <2>2. \A c \in Matured : award'[c] = award[c]
      BY <1>2
    <2>3. Total(Pending, g) = Total(Pending, [c \in Block |-> award[c].credit[a]])
      BY <1>4, <2>1, AwardKept, Zenon
    <2>4. Total(Matured, g) = Total(Matured, [c \in Block |-> award[c].credit[a]])
      BY <1>4, <2>2, AwardKept, Zenon
    <2> QED
      BY <2>3, <2>4 DEF Announced, Mature
  <1>6. Announced(a)' = Total(Pending \cup {b}, g) /\ Mature(a)' = Total(Matured, g)
    BY <1>1 DEF Announced, Mature
  <1> HIDE DEF g
  <1>7. Total(Pending \cup {b}, g) = Total(Pending, g) + g[b] /\ g[b] \in Nat
    BY <1>1, <1>3, <1>4, TotalAdd
  <1>8. Announced(a)' >= Announced(a)
    BY <1>5, <1>6, <1>7, AccountType
  <1>9. Reserved(a)' = Reserved(a) /\ InQueue(a)' = InQueue(a) /\ PaidOut(a)' = PaidOut(a)
    BY <1>1 DEF Reserved, Reserving, InQueue, Queued, PaidOut, Paid
  <1> QED
    BY <1>5, <1>6, <1>8, <1>9 DEF Available

\* A settled block takes its credit out of what is announced, and adds it to
\* the balance if it matured.
LEMMA SettledStep ==
    ASSUME TypeOK, NEW b \in Block, SettleBlock(b), NEW a \in Address
    PROVE  /\ award[b].credit[a] \in Nat
           /\ Announced(a) = Announced(a)' + award[b].credit[a]
           /\ Announced(a)' \in Nat
           /\ Available(a)' = Available(a)
                + (IF status'[b] = "mature" THEN award[b].credit[a] ELSE 0)
           /\ InQueue(a)' = InQueue(a) /\ PaidOut(a)' = PaidOut(a)
  <1> DEFINE f == [c \in Block |-> award[c].credit[a]]
             P == Pending \ {b}
  <1>1. /\ Pending' = P /\ Pending = P \cup {b} /\ b \notin P /\ b \notin Matured
        /\ Matured' = IF status'[b] = "mature" THEN Matured \cup {b} ELSE Matured
        /\ award' = award /\ item' = item /\ paystat' = paystat
    BY DEF SettleBlock, Pending, Matured, TypeOK, payVars
  <1>2. \A c \in Block : f[c] \in Nat
    BY DEF TypeOK
  <1>3. IsFiniteSet(P) /\ P \in SUBSET Block /\ IsFiniteSet(Matured) /\ Matured \in SUBSET Block
    BY FiniteBlocks DEF Pending, Matured
  <1>4. Announced(a) = Total(P \cup {b}, f) /\ Announced(a)' = Total(P, f)
    BY <1>1 DEF Announced
  <1>5. Mature(a) = Total(Matured, f) /\ Mature(a)' = Total(Matured', f)
    BY <1>1 DEF Mature
  <1>6. f[b] = award[b].credit[a] /\ f[b] \in Nat
    BY <1>2
  <1> HIDE DEF f, P
  <1>7. Total(P \cup {b}, f) = Total(P, f) + f[b] /\ Total(P, f) \in Nat
    BY <1>1, <1>2, <1>3, TotalAdd, TotalType
  <1>8. Total(Matured \cup {b}, f) = Total(Matured, f) + f[b]
    BY <1>1, <1>2, <1>3, TotalAdd
  <1>9. Mature(a)' = Mature(a) + (IF status'[b] = "mature" THEN f[b] ELSE 0)
    BY <1>1, <1>5, <1>8, BalancesType
  <1>10. Reserved(a)' = Reserved(a) /\ InQueue(a)' = InQueue(a) /\ PaidOut(a)' = PaidOut(a)
    BY <1>1 DEF Reserved, Reserving, InQueue, Queued, PaidOut, Paid
  <1>11. Available(a)' = Available(a) + (IF status'[b] = "mature" THEN f[b] ELSE 0)
    BY <1>6, <1>9, <1>10, BalancesType DEF Available
  <1> QED
    BY <1>4, <1>6, <1>7, <1>10, <1>11

\* A prepared batch is all that is queued, and takes whole balances.
LEMMA ReservedStep ==
    ASSUME TypeOK, TypeOK', PassOK, NeverOverReserved,
           NEW p \in PayoutId, PreparePayouts(p), NEW a \in Address
    PROVE  /\ InQueue(a) = 0
           /\ InQueue(a)' = IF a \in Recipients THEN Available(a) ELSE 0
           /\ Available(a)' = Available(a) - InQueue(a)'
           /\ Announced(a)' = Announced(a) /\ PaidOut(a)' = PaidOut(a)
  <1> DEFINE f == [q \in PayoutId |-> item[q][a]]
             g == [q \in PayoutId |-> item'[q][a]]
             none == {}
  <1>1. /\ Queued = none /\ Queued' = none \cup {p}
        /\ Reserving' = Reserving \cup {p} /\ p \notin Reserving
        /\ Paid' = Paid /\ p \notin Paid
        /\ status' = status /\ award' = award
        /\ \A q \in PayoutId : q # p => item'[q] = item[q]
        /\ item'[p] = [x \in Address |-> IF x \in Recipients THEN Available(x) ELSE 0]
    BY DEF PreparePayouts, PassOK, Active, Queued, Reserving, Paid, TypeOK, ledgerVars
  <1>2. \A q \in PayoutId : g[q] \in Nat
    BY DEF TypeOK
  <1>3. /\ IsFiniteSet(none) /\ IsFiniteSet(Reserving) /\ p \notin none
        /\ none \in SUBSET PayoutId
        /\ Reserving \in SUBSET PayoutId /\ Paid \in SUBSET PayoutId
    BY FinitePayouts, FS_EmptySet DEF Reserving, Paid
  <1>4. \A q \in Reserving \cup Paid : g[q] = f[q]
    BY <1>1, <1>3
  <1>5. g[p] = IF a \in Recipients THEN Available(a) ELSE 0
    BY <1>1
  <1>6. /\ InQueue(a) = Total(none, f) /\ InQueue(a)' = Total(none \cup {p}, g)
        /\ Reserved(a) = Total(Reserving, f) /\ Reserved(a)' = Total(Reserving \cup {p}, g)
        /\ PaidOut(a) = Total(Paid, f) /\ PaidOut(a)' = Total(Paid, g)
    BY <1>1 DEF InQueue, Reserved, PaidOut
  <1> HIDE DEF f, g
  <1>7. Total(none, f) = 0 /\ Total(none, g) = 0
    BY TotalEmpty
  <1> HIDE DEF none
  <1>8. Total(none \cup {p}, g) = Total(none, g) + g[p]
    BY <1>2, <1>3, TotalAdd
  <1>9. Total(Reserving \cup {p}, g) = Total(Reserving, g) + g[p]
    BY <1>1, <1>2, <1>3, TotalAdd
  <1>10. Total(Reserving, g) = Total(Reserving, f) /\ Total(Paid, g) = Total(Paid, f)
    BY <1>4, TotalSame
  <1>11. Mature(a)' = Mature(a) /\ Announced(a)' = Announced(a)
    BY <1>1 DEF Mature, Matured, Announced, Pending
  <1>12. g[p] \in Nat /\ Mature(a) \in Nat /\ Reserved(a) \in Nat
    BY <1>2, BalancesType
  <1>13. InQueue(a)' = g[p] /\ Reserved(a)' = Reserved(a) + g[p]
    BY <1>6, <1>7, <1>8, <1>9, <1>10, <1>12
  <1>14. Available(a)' = Available(a) - g[p]
    BY <1>11, <1>12, <1>13 DEF Available
  <1> QED
    BY <1>5, <1>6, <1>7, <1>10, <1>11, <1>13, <1>14

\* The wallet's answer pays all that is queued, or changes nothing.
LEMMA PaidStep ==
    ASSUME TypeOK, PassOK, AtMostOneActive, PayoutAnswered, NEW a \in Address
    PROVE  /\ Announced(a)' = Announced(a) /\ Available(a)' = Available(a)
           /\ \/ paystat[wire.id] = "prepared" /\ InQueue(a)' = 0
                                 /\ PaidOut(a)' = PaidOut(a) + InQueue(a)
              \/ paystat[wire.id] # "prepared" /\ InQueue(a)' = InQueue(a)
                                 /\ PaidOut(a)' = PaidOut(a)
  <1> DEFINE f == [q \in PayoutId |-> item[q][a]]
             w == wire.id
             none == {}
  <1>1. /\ w \in Active /\ w \in PayoutId
        /\ paystat' = [paystat EXCEPT ![w] = reply] /\ reply \in {"submitted", "confirmed"}
        /\ item' = item /\ status' = status /\ award' = award
    BY DEF PassOK, PayoutAnswered, SetPayoutState, Active, ledgerVars
  <1>2. Reserving' = Reserving
    BY <1>1 DEF Reserving, Active, TypeOK
  <1>3. Announced(a)' = Announced(a) /\ Available(a)' = Available(a)
    BY <1>1, <1>2 DEF Announced, Pending, Available, Mature, Matured, Reserved
  <1>4. CASE paystat[w] = "prepared"
    <2>1. /\ Queued = none \cup {w} /\ Queued' = none
          /\ Paid' = Paid \cup {w} /\ w \notin Paid
      BY <1>1, <1>4 DEF Queued, Paid, AtMostOneActive, Active, TypeOK
    <2>2. \A q \in PayoutId : f[q] \in Nat
      BY DEF TypeOK
    <2>3. /\ IsFiniteSet(none) /\ IsFiniteSet(Paid) /\ w \notin none
          /\ none \in SUBSET PayoutId /\ Paid \in SUBSET PayoutId
      BY FinitePayouts, FS_EmptySet DEF Paid
    <2>4. /\ InQueue(a) = Total(none \cup {w}, f) /\ InQueue(a)' = Total(none, f)
          /\ PaidOut(a) = Total(Paid, f) /\ PaidOut(a)' = Total(Paid \cup {w}, f)
      BY <1>1, <2>1 DEF InQueue, PaidOut
    <2> HIDE DEF f
    <2>5. Total(none, f) = 0
      BY TotalEmpty
    <2> HIDE DEF none, w
    <2>6. /\ Total(none \cup {w}, f) = Total(none, f) + f[w]
          /\ Total(Paid \cup {w}, f) = Total(Paid, f) + f[w]
      BY <1>1, <2>1, <2>2, <2>3, TotalAdd
    <2>7. f[w] \in Nat
      BY <1>1, <2>2
    <2> QED
      BY <1>3, <1>4, <2>4, <2>5, <2>6, <2>7 DEF w
  <1>5. CASE paystat[w] # "prepared"
    <2>1. Queued' = Queued /\ Paid' = Paid
      BY <1>1, <1>5 DEF Queued, Paid, Active, TypeOK
    <2>2. InQueue(a)' = InQueue(a) /\ PaidOut(a)' = PaidOut(a)
      BY <1>1, <2>1 DEF InQueue, PaidOut
    <2> QED
      BY <1>3, <1>5, <2>2
  <1> QED
    BY <1>4, <1>5

\* The ledger implements the accounts: every step of a handler, of the pass,
\* of the wallet or of a crash is a step of the accounts or leaves them alone.
THEOREM ImplementsAccounts == Spec => AccountSpec
  <1>1. Init => Books!Init
    <2> SUFFICES ASSUME Init, NEW a \in Address
                 PROVE  Announced(a) = 0 /\ Available(a) = 0 /\ InQueue(a) = 0 /\ PaidOut(a) = 0
      BY DEF Books!Init, Books!Nothing
    <2>1. Pending = {} /\ Matured = {} /\ Reserving = {} /\ Queued = {} /\ Paid = {}
      BY DEF Init, Pending, Matured, Reserving, Queued, Paid
    <2> QED
      BY <2>1, TotalEmpty DEF Announced, Available, Mature, Reserved, InQueue, PaidOut
  <1>2. IInv /\ IInv' /\ [Next]_vars => [Books!Next]_(Books!vars)
    <2> SUFFICES ASSUME IInv, IInv', [Next]_vars PROVE [Books!Next]_(Books!vars)
      OBVIOUS
    <2>t. TypeOK /\ TypeOK' /\ PassOK /\ AtMostOneActive /\ NeverOverReserved
      BY DEF IInv
    <2>1. ASSUME NEW b \in Block, AllocateBlock(b) PROVE Books!Found
      BY <2>1, <2>t, FoundStep DEF Books!Found
    <2>2. ASSUME NEW b \in Block, SettleBlock(b) PROVE Books!Mature \/ Books!WriteOff
      <3>1. CASE status'[b] = "mature"
        <4>1. \A a \in Address : /\ Available(a)' = Available(a) + award[b].credit[a]
                                 /\ Announced(a) = Announced(a)' + award[b].credit[a]
                                 /\ award[b].credit[a] \in Nat /\ Announced(a)' \in Nat
                                 /\ InQueue(a)' = InQueue(a) /\ PaidOut(a)' = PaidOut(a)
          BY <2>2, <2>t, <3>1, SettledStep
        <4>2. \A a \in Address : Available(a) \in Nat
          BY <2>t, BalancesType DEF NeverOverReserved, Available
        <4> QED
          BY <4>1, <4>2 DEF Books!Mature
      <3>2. CASE status'[b] # "mature"
        <4>1. \A a \in Address : /\ Available(a)' = Available(a) + 0
                                 /\ Announced(a) = Announced(a)' + award[b].credit[a]
                                 /\ award[b].credit[a] \in Nat /\ Announced(a)' \in Nat
                                 /\ InQueue(a)' = InQueue(a) /\ PaidOut(a)' = PaidOut(a)
          BY <2>2, <2>t, <3>2, SettledStep
        <4>2. \A a \in Address : Available(a) \in Nat
          BY <2>t, BalancesType DEF NeverOverReserved, Available
        <4> QED
          BY <4>1, <4>2 DEF Books!WriteOff
      <3> QED
        BY <3>1, <3>2
    <2>3. ASSUME NEW p \in PayoutId, PreparePayouts(p) PROVE Books!Reserve
      <3>1. \A a \in Address : /\ InQueue(a) = 0
                               /\ \/ InQueue(a)' = Available(a)
                                  \/ InQueue(a)' = 0
                               /\ Available(a)' = Available(a) - InQueue(a)'
                               /\ Announced(a)' = Announced(a) /\ PaidOut(a)' = PaidOut(a)
        BY <2>3, <2>t, ReservedStep
      <3>2. \A a \in Address : Available(a) \in Nat
        BY <2>t, BalancesType DEF NeverOverReserved, Available
      <3> QED
        BY <3>1, <3>2 DEF Books!Reserve, Books!Nothing
    <2>4. CASE PayoutAnswered
      <3>1. CASE paystat[wire.id] = "prepared"
        <4>1. \A a \in Address : /\ InQueue(a)' = 0 /\ PaidOut(a)' = PaidOut(a) + InQueue(a)
                                 /\ Announced(a)' = Announced(a) /\ Available(a)' = Available(a)
          BY <2>4, <2>t, <3>1, PaidStep
        <4>2. Books!Pay
          BY <4>1 DEF Books!Pay, Books!Nothing
        <4> QED
          BY <4>2 DEF Books!Next
      <3>2. CASE paystat[wire.id] # "prepared"
        BY <2>4, <2>t, <3>2, PaidStep DEF Books!vars
      <3> QED
        BY <3>1, <3>2 DEF Books!Next
    <2>5. CASE UNCHANGED <<ledgerVars, payVars>>
      <3>1. \A a \in Address : /\ Announced(a)' = Announced(a) /\ Available(a)' = Available(a)
                               /\ InQueue(a)' = InQueue(a) /\ PaidOut(a)' = PaidOut(a)
        BY <2>5 DEF ledgerVars, payVars, Announced, Pending, Available, Mature, Matured,
               Reserved, Reserving, InQueue, Queued, PaidOut, Paid
      <3> QED
        BY <3>1 DEF Books!vars
    <2>6. CASE Next
      <3>1. \/ \E b \in Block : AllocateBlock(b) \/ SettleBlock(b)
            \/ \E p \in PayoutId : PreparePayouts(p)
            \/ PayoutAnswered
            \/ UNCHANGED <<ledgerVars, payVars>>
        BY <2>6
        DEF Next, ReadStatus, ListActive, StoreFails, PrepareNothing, SendPayout,
            NodeFinalizes, AccountingFails, PayoutRefused, PayoutTimesOut, EndPass,
            NodeSigns, NodeAnswers, PQDay, Crash
      <3> QED
        BY <3>1, <2>1, <2>2, <2>3, <2>4, <2>5 DEF Books!Next
    <2>7. CASE UNCHANGED vars
      BY <2>5, <2>7 DEF vars
    <2> QED
      BY <2>6, <2>7
  <1> QED
    BY <1>1, <1>2, Invariance, PTL DEF Spec, AccountSpec, Books!Spec
------------------------------------------------------------------------------
(* The reserve.                                                              *)

\* Blocks keep their part, and batches cost no more than theirs.
Covered(part, whole) ==
    /\ \A b \in Block : part * Total(Address, award[b].credit) <= whole * award[b].poolFee
    /\ \A p \in PayoutId : paystat[p] # "absent" =>
          fee[p] * whole <= part * Total(Address, item[p])

\* Somebody eligible is first in the order, and receives.
LEMMA SomeoneReceives ==
    ASSUME TypeOK, NeverOverReserved, Eligible # {}
    PROVE  Recipients # {}
  <1> DEFINE Below(a) == {b \in Eligible : Before(b, a)}
             Good == {T \in SUBSET Eligible :
                         T # {} => \E a \in T : \A b \in T : ~Before(b, a)}
  <1>1. IsFiniteSet(Eligible) /\ Eligible \subseteq Address
    BY LedgerAssumption, FS_Subset DEF Eligible
  <1>2. \A a \in Eligible : a \in Nat /\ Available(a) \in Nat
    BY <1>1, RecipientsType, LedgerAssumption
  <1>3. /\ \A a \in Eligible : ~Before(a, a)
        /\ \A a, b \in Eligible : Before(a, b) => ~Before(b, a)
        /\ \A a, b, c \in Eligible : Before(a, b) /\ Before(b, c) => Before(a, c)
    BY <1>2 DEF Before
  <1>4. {} \in Good
    OBVIOUS
  <1>5. ASSUME NEW T \in SUBSET Eligible, NEW x \in Eligible \ T, T \in Good
        PROVE  T \cup {x} \in Good
    <2>1. CASE T = {}
      BY <1>3, <2>1
    <2>2. CASE T # {}
      <3>1. PICK a \in T : \A b \in T : ~Before(b, a)
        BY <1>5, <2>2
      <3>2. CASE Before(x, a)
        <4>1. \A b \in T \cup {x} : ~Before(b, x)
          BY <1>3, <3>1, <3>2
        <4> QED
          BY <4>1
      <3>3. CASE ~Before(x, a)
        BY <3>1, <3>3
      <3> QED
        BY <3>2, <3>3
    <2> QED
      BY <2>1, <2>2
  <1>6. Eligible \in Good
    <2> HIDE DEF Good
    <2> QED
      BY <1>1, <1>4, <1>5, SetInduction
  <1>7. PICK a \in Eligible : \A b \in Eligible : ~Before(b, a)
    BY <1>6
  <1>8. Below(a) = {}
    BY <1>7
  <1>9. Cardinality(Below(a)) = 0
    BY <1>8, FS_EmptySet
  <1> QED
    BY <1>9, LedgerAssumption DEF Recipients

\* A new batch pays somebody a minimum payout or more.
LEMMA BatchIsWorthIt ==
    ASSUME IInv, NEW p \in PayoutId, PreparePayouts(p)
    PROVE  /\ \A q \in PayoutId \ {p} : item'[q] = item[q]
           /\ Minimum[seen] <= Total(Address, item'[p])
           /\ Total(Address, item'[p]) \in Nat
  <1> DEFINE f == [a \in Address |-> IF a \in Recipients THEN Available(a) ELSE 0]
  <1>1. TypeOK /\ NeverOverReserved /\ Eligible # {}
    BY DEF IInv, PreparePayouts
  <1>2. item' = [item EXCEPT ![p] = f]
    BY DEF PreparePayouts
  <1>3. item'[p] = f /\ \A q \in PayoutId \ {p} : item'[q] = item[q]
    BY <1>1, <1>2 DEF TypeOK
  <1>4. \A a \in Address : f[a] \in Nat
    BY <1>1, RecipientsType
  <1>5. PICK a \in Recipients : TRUE
    BY <1>1, SomeoneReceives
  <1>6. a \in Address /\ Available(a) >= Minimum[seen] /\ f[a] = Available(a)
    BY <1>5 DEF Recipients, Eligible
  <1>7. Minimum[seen] \in Nat
    BY <1>1, LedgerAssumption DEF TypeOK
  <1> HIDE DEF f
  <1>8. f[a] <= Total(Address, f) /\ Total(Address, f) \in Nat
    BY <1>4, <1>6, LedgerAssumption, TotalPart, TotalType
  <1>9. Minimum[seen] <= Total(Address, f)
    BY <1>4, <1>6, <1>7, <1>8
  <1> QED
    BY <1>3, <1>8, <1>9

\* Nothing is owed at first.
LEMMA InitCovered ==
    ASSUME NEW part \in Nat, NEW whole \in Nat \ {0}, Init
    PROVE  Covered(part, whole)
  <1>1. \A b \in Block : award[b] = NoAward
    BY DEF Init
  <1> DEFINE f == NoAward.credit
  <1>2. Total(Address, f) = 0
    <2>1. \A a \in Address \ {} : f[a] = 0
      BY DEF NoAward
    <2> HIDE DEF f
    <2> QED
      BY <2>1, TotalNonZero, TotalEmpty
  <1>3. NoAward.poolFee = 0
    BY DEF NoAward
  <1> HIDE DEF f
  <1>4. part * Total(Address, f) <= whole * 0
    BY <1>2
  <1>5. \A p \in PayoutId : paystat[p] = "absent"
    BY DEF Init
  <1> QED
    BY <1>1, <1>3, <1>4, <1>5 DEF Covered, f

\* Only a new block and a new batch matter.
LEMMA StepCovered ==
    ASSUME NEW part \in Nat, NEW whole \in Nat \ {0}, FeesCovered(part, whole),
           IInv, Covered(part, whole), [Next]_vars
    PROVE  Covered(part, whole)'
  <1>t. TypeOK
    BY DEF IInv
  <1>1. ASSUME NEW b \in Block, AllocateBlock(b)
        PROVE  Covered(part, whole)'
    <2>1. PICK w \in Award : award' = [award EXCEPT ![b] = w]
      BY <1>1 DEF AllocateBlock
    <2>2. \A c \in Block : award'[c] = award[c] \/ award'[c] = w
      BY <1>t, <2>1 DEF TypeOK
    <2>3. part * Total(Address, w.credit) <= whole * w.poolFee
      BY DEF FeesCovered
    <2>4. UNCHANGED <<paystat, item, fee>>
      BY <1>1 DEF AllocateBlock, payVars
    <2> QED
      BY <2>2, <2>3, <2>4 DEF Covered
  <1>2. ASSUME NEW p \in PayoutId, PreparePayouts(p)
        PROVE  Covered(part, whole)'
    <2>1. /\ \A q \in PayoutId \ {p} : item'[q] = item[q]
          /\ Minimum[seen] <= Total(Address, item'[p])
          /\ Total(Address, item'[p]) \in Nat
      BY <1>2, BatchIsWorthIt
    <2>2. /\ fee'[p] = PayoutFee[seen]
          /\ \A q \in PayoutId \ {p} : fee'[q] = fee[q] /\ paystat'[q] = paystat[q]
          /\ award' = award
      BY <1>2, <1>t DEF PreparePayouts, TypeOK, ledgerVars
    <2>3. seen \in Unit /\ Minimum[seen] \in Nat
      BY <1>t, LedgerAssumption DEF TypeOK
    <2>4. PayoutFee[seen] * whole <= part * Minimum[seen] /\ PayoutFee[seen] \in Nat
      BY <2>3, LedgerAssumption DEF FeesCovered
    <2> DEFINE t == Total(Address, item'[p])
               m == Minimum[seen]
               c == PayoutFee[seen]
    <2>5. t \in Nat /\ m \in Nat /\ c \in Nat /\ m <= t /\ c * whole <= part * m
      BY <2>1, <2>3, <2>4
    <2> HIDE DEF t, m, c
    <2>6. c * whole <= part * t
      <3>1. part * m <= part * t
        BY <2>5
      <3>2. part * m \in Nat /\ part * t \in Nat /\ c * whole \in Nat
        BY <2>5
      <3> QED
        BY <2>5, <3>1, <3>2
    <2>7. fee'[p] * whole <= part * Total(Address, item'[p])
      BY <2>2, <2>6 DEF t, c
    <2> QED
      BY <2>1, <2>2, <2>7 DEF Covered
  <1>3. CASE PayoutAnswered
    <2>1. UNCHANGED <<award, item, fee>>
      BY <1>3 DEF PayoutAnswered, ledgerVars
    <2>2. \A p \in PayoutId : paystat[p] = "absent" => paystat'[p] = "absent"
      BY <1>3, <1>t DEF PayoutAnswered, SetPayoutState, Active, TypeOK
    <2> QED
      BY <2>1, <2>2 DEF Covered
  <1>4. CASE UNCHANGED <<award, paystat, item, fee>>
    BY <1>4 DEF Covered
  <1>5. ASSUME NEW b \in Block, SettleBlock(b)
        PROVE  Covered(part, whole)'
    BY <1>4, <1>5 DEF SettleBlock, payVars
  <1> QED
    BY <1>1, <1>2, <1>3, <1>4, <1>5
    DEF Next, vars, ReadStatus, ListActive, StoreFails, PrepareNothing, SendPayout,
        NodeFinalizes, AccountingFails, PayoutRefused, PayoutTimesOut, EndPass,
        NodeSigns, NodeAnswers, PQDay, Crash, ledgerVars, payVars

\* What was signed in all is within what matured in all.
LEMMA SignedWithinCredit ==
    ASSUME IInv, PaidWithinCredit
    PROVE  /\ IsFiniteSet(Signed) /\ IsFiniteSet(Matured)
           /\ \A p \in Signed : Total(Address, item[p]) \in Nat
           /\ \A b \in Matured : Total(Address, award[b].credit) \in Nat
           /\ Total(Signed, [p \in Signed |-> Total(Address, item[p])])
                <= Total(Matured, [b \in Matured |-> Total(Address, award[b].credit)])
  <1> DEFINE c == [b \in Block |-> award[b].credit]
             paid == [a \in Address |-> Total(Signed, [p \in Signed |-> item[p][a]])]
             ripe == [a \in Address |-> Total(Matured, [b \in Matured |-> c[b][a]])]
             sent == [p \in Signed |-> Total(Address, item[p])]
             owed == [b \in Matured |-> Total(Address, award[b].credit)]
  <1>1. /\ TypeOK /\ IsFiniteSet(Signed) /\ IsFiniteSet(Matured) /\ IsFiniteSet(Address)
        /\ Signed \subseteq PayoutId /\ Matured \subseteq Block
        /\ \A p \in Signed : signed[p].items = item[p]
    BY FinitePayouts, FiniteBlocks, LedgerAssumption DEF IInv, Signed, Matured, BooksFollowNode
  <1>2. \A p \in Signed : \A a \in Address : item[p][a] \in Nat
    BY <1>1 DEF TypeOK
  <1>3. \A b \in Matured : c[b] = award[b].credit /\ \A a \in Address : c[b][a] \in Nat
    BY <1>1 DEF TypeOK
  <1>4. \A a \in Address : paid[a] \in Nat /\ ripe[a] \in Nat /\ paid[a] <= ripe[a]
    <2> SUFFICES ASSUME NEW a \in Address
                 PROVE  paid[a] \in Nat /\ ripe[a] \in Nat /\ paid[a] <= ripe[a]
      OBVIOUS
    <2> DEFINE f == [p \in Signed |-> item[p][a]]
               g == [p \in Signed |-> signed[p].items[a]]
               h == [b \in Matured |-> c[b][a]]
               k == [b \in Block |-> award[b].credit[a]]
    <2>1. \A p \in Signed : f[p] = g[p] /\ f[p] \in Nat
      BY <1>1, <1>2
    <2>2. \A b \in Matured : h[b] = k[b] /\ h[b] \in Nat
      BY <1>1, <1>3
    <2>3. paid[a] = Total(Signed, f) /\ ripe[a] = Total(Matured, h)
      OBVIOUS
    <2>4. Total(Signed, g) <= Mature(a) /\ Mature(a) = Total(Matured, k)
      BY DEF PaidWithinCredit, Mature
    <2> HIDE DEF f, g, h, k, paid, ripe
    <2>5. Total(Signed, f) = Total(Signed, g) /\ Total(Matured, h) = Total(Matured, k)
      BY <2>1, <2>2, TotalSame
    <2>6. Total(Signed, f) \in Nat /\ Total(Matured, h) \in Nat
      BY <1>1, <2>1, <2>2, TotalType
    <2> QED
      BY <2>3, <2>4, <2>5, <2>6
  <1>5. Total(Signed, sent) = Total(Address, paid)
    <2> DEFINE rows == [p \in Signed |-> item[p]]
               cols == [a \in Address |-> [p \in Signed |-> item[p][a]]]
    <2>1. \A p \in Signed : \A a \in Address : rows[p][a] \in Nat /\ cols[a][p] = rows[p][a]
      BY <1>2
    <2>2. \A p \in Signed : sent[p] = Total(Address, rows[p])
      OBVIOUS
    <2>3. \A a \in Address : paid[a] = Total(Signed, cols[a])
      OBVIOUS
    <2>4. IsFiniteSet(Signed) /\ IsFiniteSet(Address)
      BY <1>1
    <2>5. Table(Signed, Address, rows, cols, sent, paid)
      BY <2>1, <2>2, <2>3 DEF Table
    <2> HIDE DEF rows, cols, paid, sent
    <2> QED
      BY <2>4, <2>5, TotalSwap
  <1>6. Total(Matured, owed) = Total(Address, ripe)
    <2> DEFINE cols == [a \in Address |-> [b \in Matured |-> c[b][a]]]
    <2>1. \A b \in Matured : \A a \in Address : c[b][a] \in Nat /\ cols[a][b] = c[b][a]
      BY <1>3
    <2>2. \A b \in Matured : owed[b] = Total(Address, c[b])
      BY <1>3
    <2>3. \A a \in Address : ripe[a] = Total(Matured, cols[a])
      OBVIOUS
    <2>4. Table(Matured, Address, c, cols, owed, ripe)
      BY <2>1, <2>2, <2>3 DEF Table
    <2> HIDE DEF c, cols, ripe, owed
    <2> QED
      BY <1>1, <2>4, TotalSwap
  <1>7. /\ \A p \in Signed : Total(Address, item[p]) \in Nat
        /\ \A b \in Matured : Total(Address, award[b].credit) \in Nat
    <2>1. \A b \in Matured : \A a \in Address : award[b].credit[a] \in Nat
      BY <1>3
    <2> QED
      BY <1>1, <1>2, <2>1, TotalType
  <1>8. Total(Address, paid) <= Total(Address, ripe)
    <2> HIDE DEF paid, ripe
    <2> QED
      BY <1>1, <1>4, TotalPointwise
  <1> QED
    BY <1>1, <1>5, <1>6, <1>7, <1>8

\* Within the whole: what the rows cost is what their blocks keep.
LEMMA CoveredSuffices ==
    ASSUME NEW part \in Nat, NEW whole \in Nat \ {0},
           IInv, PaidWithinCredit, Covered(part, whole)
    PROVE  ReserveCoversFees
  <1> DEFINE kept == [b \in Block |-> award[b].poolFee]
             paid == [p \in Signed |-> Total(Address, item[p])]
             ripe == [b \in Matured |-> Total(Address, award[b].credit)]
             costs == [p \in Signed |-> whole * fee[p]]
             parts == [p \in Signed |-> part * paid[p]]
             owed == [b \in Matured |-> part * ripe[b]]
             keeps == [b \in Matured |-> whole * kept[b]]
  <1>1. /\ TypeOK /\ Signed \subseteq PayoutId /\ Matured \subseteq Block
        /\ \A p \in Signed : paystat[p] # "absent"
    BY DEF IInv, Signed, Matured, BooksFollowNode
  <1>2. /\ IsFiniteSet(Signed) /\ IsFiniteSet(Matured)
        /\ \A p \in Signed : Total(Address, item[p]) \in Nat
        /\ \A b \in Matured : Total(Address, award[b].credit) \in Nat
        /\ Total(Signed, paid) <= Total(Matured, ripe)
    BY SignedWithinCredit
  <1>3. \A p \in Signed : /\ fee[p] \in Nat /\ paid[p] \in Nat
                          /\ costs[p] = whole * fee[p] /\ parts[p] = part * paid[p]
                          /\ costs[p] \in Nat /\ parts[p] \in Nat /\ costs[p] <= parts[p]
    <2> SUFFICES ASSUME NEW p \in Signed
                 PROVE  /\ fee[p] \in Nat /\ paid[p] \in Nat
                        /\ costs[p] = whole * fee[p] /\ parts[p] = part * paid[p]
                        /\ costs[p] \in Nat /\ parts[p] \in Nat /\ costs[p] <= parts[p]
      OBVIOUS
    <2>1. fee[p] \in Nat /\ paid[p] = Total(Address, item[p]) /\ paid[p] \in Nat
      BY <1>1, <1>2 DEF TypeOK
    <2>2. fee[p] * whole <= part * paid[p]
      BY <1>1, <2>1 DEF Covered
    <2>3. costs[p] = whole * fee[p] /\ parts[p] = part * paid[p]
      OBVIOUS
    <2> HIDE DEF paid, costs, parts
    <2>4. fee[p] * whole = whole * fee[p] /\ whole * fee[p] \in Nat /\ part * paid[p] \in Nat
      BY <2>1
    <2> QED
      BY <2>1, <2>2, <2>3, <2>4
  <1>4. \A b \in Matured : /\ kept[b] \in Nat /\ ripe[b] \in Nat
                           /\ owed[b] = part * ripe[b] /\ keeps[b] = whole * kept[b]
                           /\ owed[b] \in Nat /\ keeps[b] \in Nat /\ owed[b] <= keeps[b]
    <2> SUFFICES ASSUME NEW b \in Matured
                 PROVE  /\ kept[b] \in Nat /\ ripe[b] \in Nat
                        /\ owed[b] = part * ripe[b] /\ keeps[b] = whole * kept[b]
                        /\ owed[b] \in Nat /\ keeps[b] \in Nat /\ owed[b] <= keeps[b]
      OBVIOUS
    <2>1. /\ kept[b] = award[b].poolFee /\ kept[b] \in Nat
          /\ ripe[b] = Total(Address, award[b].credit) /\ ripe[b] \in Nat
      BY <1>1, <1>2 DEF TypeOK
    <2>2. part * ripe[b] <= whole * kept[b]
      BY <1>1, <2>1 DEF Covered
    <2>3. owed[b] = part * ripe[b] /\ keeps[b] = whole * kept[b]
      OBVIOUS
    <2> HIDE DEF kept, ripe, owed, keeps
    <2>4. part * ripe[b] \in Nat /\ whole * kept[b] \in Nat
      BY <2>1
    <2> QED
      BY <2>1, <2>2, <2>3, <2>4
  <1> HIDE DEF kept, paid, ripe, costs, parts, owed, keeps
  <1> DEFINE spent == Total(Signed, fee)
             earned == Total(Matured, kept)
             p1 == Total(Signed, paid)
             r1 == Total(Matured, ripe)
  <1>5. spent \in Nat /\ earned \in Nat /\ p1 \in Nat /\ r1 \in Nat
    BY <1>2, <1>3, <1>4, TotalType
  <1>6. Total(Signed, costs) = whole * spent /\ Total(Signed, parts) = part * p1
    BY <1>2, <1>3, TotalTimes
  <1>7. Total(Matured, owed) = part * r1 /\ Total(Matured, keeps) = whole * earned
    BY <1>2, <1>4, TotalTimes
  <1>8. Total(Signed, costs) <= Total(Signed, parts)
    BY <1>2, <1>3, TotalPointwise
  <1>9. Total(Matured, owed) <= Total(Matured, keeps)
    BY <1>2, <1>4, TotalPointwise
  <1>10. p1 <= r1
    BY <1>2
  <1> HIDE DEF spent, earned, p1, r1
  <1>11. part * p1 <= part * r1
    BY <1>5, <1>10
  <1>12. whole * spent <= whole * earned
    <2>1. /\ whole * spent \in Nat /\ part * p1 \in Nat /\ part * r1 \in Nat
          /\ whole * earned \in Nat
      BY <1>5
    <2> QED
      BY <1>6, <1>7, <1>8, <1>9, <1>11, <2>1
  <1>13. spent <= earned
    <2> SUFFICES ASSUME spent >= earned + 1 PROVE FALSE
      BY <1>5
    <2>1. whole * spent >= whole * (earned + 1)
      BY <1>5
    <2>2. whole * (earned + 1) = whole * earned + whole
      BY <1>5
    <2>3. whole * spent \in Nat /\ whole * earned \in Nat
      BY <1>5
    <2> QED
      BY <1>12, <2>1, <2>2, <2>3
  <1> QED
    BY <1>13 DEF ReserveCoversFees, spent, earned, kept

\* With a policy that covers its fees, the pool never pays a batch's fee with
\* the miners' money.
THEOREM FeesPaidByReserve ==
    ASSUME NEW part \in Nat, NEW whole \in Nat \ {0}, FeesCovered(part, whole)
    PROVE  Spec => []ReserveCoversFees
  <1>1. Init => Covered(part, whole)
    BY InitCovered
  <1>2. IInv /\ Covered(part, whole) /\ [Next]_vars => Covered(part, whole)'
    BY StepCovered
  <1>3. IInv /\ PaidWithinCredit /\ Covered(part, whole) => ReserveCoversFees
    BY CoveredSuffices
  <1> QED
    BY Invariance, NoDoublePayment, <1>1, <1>2, <1>3, PTL DEF Spec
==============================================================================

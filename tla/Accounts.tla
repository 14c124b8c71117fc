------------------------------ MODULE Accounts ------------------------------
(* What the ledger promises an address: the four amounts of its account     *)
(* (internal/store/store.go balances, Account), and how they move.  Credit   *)
(* of a block waits until the block is settled; a settled block turns it     *)
(* into balance or takes it back; a batch takes whole balances; and a batch  *)
(* is paid once the pool has recorded that the wallet took it.  Nothing else *)
(* moves, and nothing moves back.  What the wallet itself has signed, maybe  *)
(* before the pool records it, is not an amount of the account.              *)
EXTENDS Integers

CONSTANT Address

VARIABLES
    pending,  \* PendingAtomic: credit of blocks not settled yet
    balance,  \* BalanceAtomic: mature credit not reserved
    queued,   \* reserved by a batch not recorded as sent, signed or not
    paid      \* PaidAtomic: reserved by a batch recorded as sent or confirmed

vars == <<pending, balance, queued, paid>>

Nothing == [a \in Address |-> 0]

Init == pending = Nothing /\ balance = Nothing /\ queued = Nothing /\ paid = Nothing

\* A block is allocated: credit is announced.
Found ==
    /\ \A a \in Address : pending'[a] >= pending[a]
    /\ UNCHANGED <<balance, queued, paid>>

\* A block matures: the credit it announced becomes balance, unit by unit.
Mature ==
    /\ \A a \in Address : /\ balance'[a] >= balance[a]
                          /\ balance'[a] + pending'[a] = balance[a] + pending[a]
    /\ UNCHANGED <<queued, paid>>

\* A block is written off: the credit it announced goes, and no other.
WriteOff ==
    /\ \A a \in Address : pending'[a] <= pending[a]
    /\ UNCHANGED <<balance, queued, paid>>

\* A batch is prepared: the whole balance of some addresses is reserved, while
\* nothing else is queued.
Reserve ==
    /\ queued = Nothing
    /\ \A a \in Address :
          \/ balance'[a] = 0 /\ queued'[a] = balance[a]
          \/ balance'[a] = balance[a] /\ queued'[a] = 0
    /\ UNCHANGED <<pending, paid>>

\* The pool records that the wallet signed the batch, be it at the first answer
\* or at that to a later retry: all that was queued is paid, at once.
Pay ==
    /\ queued' = Nothing
    /\ \A a \in Address : paid'[a] = paid[a] + queued[a]
    /\ UNCHANGED <<pending, balance>>

Next == Found \/ Mature \/ WriteOff \/ Reserve \/ Pay

Spec == Init /\ [][Next]_vars
=============================================================================

------------------------------- MODULE Pplns -------------------------------
(* The arithmetic of Store.AllocateBlock (internal/store/store.go): the      *)
(* PPLNS window over accepted shares and the division of a block reward by   *)
(* largest remainder.  All integers are unbounded in the source (big.Int).   *)
EXTENDS Integers, FiniteSets, SequencesExt, Totals

CONSTANTS
    Address,   \* payout addresses, named so that < is their string order
    FeeBase,   \* 10000
    FeeBPS     \* Config.PoolFeeBPS

ASSUME FeeAssumption ==
    /\ Address \subseteq Nat /\ IsFiniteSet(Address)
    /\ FeeBase \in Nat \ {0}
    /\ FeeBPS \in 0..FeeBase
-----------------------------------------------------------------------------
(* The window over rows of the shares table; credit is what each row has of  *)
(* address and work.                                                         *)

NoWork == [selected |-> 0, work |-> [a \in Address |-> 0]]

\* One turn of the loop: nothing once the window is full, and no more of the
\* oldest share than reaches the boundary.
Take(share, acc, window) ==
    IF acc.selected >= window THEN acc
    ELSE LET remaining == window - acc.selected
             work == IF share.work > remaining THEN remaining ELSE share.work
         IN [selected |-> acc.selected + work,
             work |-> [acc.work EXCEPT ![share.address] = @ + work]]

\* The loop runs newest first (ORDER BY id DESC): the oldest row comes last.
Oldest(rows) == CHOOSE row \in rows : \A other \in rows : row.id <= other.id
Window(rows, credit, window) ==
    MapThenFoldSet(LAMBDA share, acc : Take(share, acc, window),
                   NoWork, LAMBDA row : credit[row], Oldest, rows)
-----------------------------------------------------------------------------
(* The division of a reward among the grouped work of a window.             *)

Distributable(reward) == (reward * (FeeBase - FeeBPS)) \div FeeBase
PoolFee(reward) == reward - Distributable(reward)

Grouped(work) == {a \in Address : work[a] > 0}
Selected(work) == Total(Address, work)

Quotient(d, work, a) == (d * work[a]) \div Selected(work)
Remainder(d, work, a) == (d * work[a]) % Selected(work)

Left(d, work) ==
    d - Total(Grouped(work), [a \in Address |-> Quotient(d, work, a)])

\* Slip: the sort forgets the remainders.
BeforeByAddress(d, work, a, b) == a < b

\* The order in which left-over units are handed out.
Before(d, work, a, b) ==
    \/ Remainder(d, work, a) > Remainder(d, work, b)
    \/ Remainder(d, work, a) = Remainder(d, work, b) /\ a < b

Rank(d, work, a) ==
    Cardinality({b \in Grouped(work) : Before(d, work, b, a)})

\* Slip: the loop over the left-over units starts at one.
UnitsShort(d, work, a) ==
    Cardinality({i \in 1..(Left(d, work) - 1) :
                    i % Cardinality(Grouped(work)) = Rank(d, work, a)})

\* Left-over units go round the sorted addresses one by one.
Units(d, work, a) ==
    Cardinality({i \in 0..(Left(d, work) - 1) :
                    i % Cardinality(Grouped(work)) = Rank(d, work, a)})

Amount(d, work, a) ==
    IF work[a] = 0 THEN 0 ELSE Quotient(d, work, a) + Units(d, work, a)

\* The allocations of a block worth reward, by address.
Allocations(reward, work) ==
    [a \in Address |-> Amount(Distributable(reward), work, a)]
-----------------------------------------------------------------------------
\* No atomic unit is lost or made, and the fee is what the miners do not get:
\* at least the configured part of the reward.
SumsExactly(reward, work) ==
    /\ Total(Address, Allocations(reward, work)) = Distributable(reward)
    /\ Distributable(reward) + PoolFee(reward) = reward
    /\ PoolFee(reward) * FeeBase >= reward * FeeBPS

\* Nobody is off their exact share by a whole atomic unit, more work never
\* earns less, and equal work differs by a unit at most, in favour of the
\* smaller address.
IsFair(reward, work) ==
    LET paid == Allocations(reward, work)
        exact(a) == Distributable(reward) * work[a]
    IN \A a, b \in Address :
          /\ paid[a] * Selected(work) - exact(a) \in (1 - Selected(work))..(Selected(work) - 1)
          /\ work[a] > work[b] => paid[a] >= paid[b]
          /\ work[a] = work[b] /\ a < b => paid[a] \in paid[b]..(paid[b] + 1)
=============================================================================

-------------------------------- MODULE Pool --------------------------------
(* The accounting core of the pool put together: BlockWatch and Payouts     *)
(* share the blocks table, and the two loops of the controller share one    *)
(* goroutine (internal/pool/controller.go Run), while submit handlers, the  *)
(* node and the network run beside it.                                      *)
EXTENDS Integers, FiniteSets, Totals

CONSTANTS
    Block, MaturityBlocks, OrphanDepth, PendingLimit, MaxReorg, MaxLag,
    MaxHeight, NoObs,
    Address, Award, MaxUnit, Minimum, PayoutFee, MaxOutputs, ActiveLimit,
    MaxPayouts, NoRequest,
    MaxCrashes

VARIABLES
    status, height, sub, tip, known, canon, syncpc, todo, obs,
    award, paystat, item, fee, unit, signed, final, paypc, seen, batch, wire,
    stray, reply,
    crashes

\* The blocks, the node's chain and the polling loop.
W == INSTANCE BlockWatch WITH pc <- syncpc

\* The ledger, the node's wallet and the payout loop.
P == INSTANCE Payouts WITH pc <- paypc

ASSUME PoolAssumption ==
    /\ W!ChainAssumption /\ W!NoObsAssumption
    /\ P!LedgerAssumption /\ P!NoRequestAssumption

\* What only the chain and the polling loop write, and what only the ledger
\* and the payout loop write.
watchVars == <<height, sub, tip, known, canon, syncpc, todo, obs>>
payoutVars == <<award, paystat, item, fee, unit, signed, final, paypc, seen,
                batch, wire, stray, reply>>
vars == <<status, watchVars, payoutVars, crashes>>

Init == W!Init /\ P!Init

\* The transaction that inserts the block also inserts its allocations.
AllocateBlock(b) == W!AllocateBlock(b) /\ P!AllocateBlock(b)

\* Submit handlers and the chain do not touch the ledger.
ChainStep ==
    /\ \/ \E b \in Block : \/ W!AllocationFails(b) \/ W!SubmitBlock(b)
                           \/ W!SubmissionLost(b) \/ W!NodeExtendsWith(b)
                           \/ W!NodeStores(b)
       \/ W!Extend \/ W!Reorg
    /\ UNCHANGED payoutVars

\* The select of Run takes the block ticker: no payout pass is under way.
SyncTick ==
    /\ paypc = "idle"
    /\ W!ListPending
    /\ UNCHANGED payoutVars

SyncStep ==
    /\ \/ \E b \in Block : W!BlockStatus(b) \/ W!BlockStatusFails(b)
                              \/ W!SetBlockStateFails(b)
       \/ W!EndSync
    /\ UNCHANGED payoutVars

\* The new status releases or forfeits the block's allocations.
SetBlockState(b) ==
    /\ W!SetBlockState(b)
    /\ UNCHANGED payoutVars

\* Slip: the loops run in goroutines of their own.
PayTickAnyTime ==
    /\ P!ReadStatus
    /\ UNCHANGED watchVars

\* Slip: no payouts while a block is pending.
PayTickWhenSettled ==
    /\ syncpc = "idle"
    /\ \A b \in Block : status[b] # "pending"
    /\ P!ReadStatus
    /\ UNCHANGED watchVars

\* The select of Run takes the payout ticker: no polling pass is under way.
PayTick ==
    /\ syncpc = "idle"
    /\ P!ReadStatus
    /\ UNCHANGED watchVars

\* The payout pass and the node's wallet do not touch blocks.
PayStep ==
    /\ \/ P!ListActive \/ P!StoreFails \/ P!PrepareNothing
       \/ \E p \in P!PayoutId : \/ P!PreparePayouts(p) \/ P!SendPayout(p)
                                \/ P!NodeFinalizes(p)
       \/ P!PayoutAnswered \/ P!AccountingFails \/ P!PayoutRefused
       \/ P!PayoutTimesOut \/ P!EndPass
       \/ P!NodeSigns \/ P!NodeAnswers \/ P!PQDay
    /\ UNCHANGED watchVars

\* One process: both loops and every handler die together.
Crash == W!Crash /\ P!Crash

Next ==
    \/ \E b \in Block : AllocateBlock(b) \/ SetBlockState(b)
    \/ ChainStep \/ SyncTick \/ SyncStep \/ PayTick \/ PayStep
    \/ Crash

Spec == Init /\ [][Next]_vars
-----------------------------------------------------------------------------
\* The controller is one goroutine: while a payout pass is under way no block
\* is being settled, so the balances it prepares from cannot move.
OneLoopAtATime == syncpc = "idle" \/ paypc = "idle"

\* What the blocks of the pool have earned an address for good, and what the
\* books say has reached it for good.
Buried == {b \in canon : height[b] + MaturityBlocks <= tip}
Earned(a) == Total(Buried, [b \in Block |-> award[b].credit[a]])
Confirmed == {p \in P!PayoutId : paystat[p] = "confirmed"}
Received(a) == Total(Confirmed, [p \in P!PayoutId |-> item[p][a]])

\* What the wallet signed for an address is backed by allocations of blocks
\* on the selected chain, buried deeper than any reorganization reaches:
\* reorganizations, late answers, crashes and late requests together never
\* pay out a reward the pool does not have.
PaidFromSelectedChain ==
    \A a \in Address :
        Total(P!Signed, [p \in P!Signed |-> signed[p].items[a]]) <= Earned(a)

\* The composition implements the ledger.
PayoutSpec == P!Spec
=============================================================================

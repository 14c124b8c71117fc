----------------------------- MODULE PoolProofs -----------------------------
(* The composition implements the ledger, and a block lives in it as in      *)
(* BlockWatch, so that the theorems of both hold of it; together they say    *)
(* what neither says alone: whatever the wallet signed is backed by blocks   *)
(* that stay on the selected chain.                                          *)
EXTENDS MCPool, TotalsProofs, SequenceTheorems

\* The components with their theorems.
WT == INSTANCE BlockWatchProofs WITH pc <- syncpc
PT == INSTANCE PayoutsProofs WITH pc <- paypc

\* The initial states of the composition are those of the polling loop.
LEMMA WatchInit == Init => WT!Init
  BY DEF Init, W!Init, WT!Init

\* A payout pass, the wallet and the clock leave the blocks alone.
LEMMA PayLeavesBlocks ==
    ASSUME PayTick \/ PayStep
    PROVE  UNCHANGED <<status, crashes, watchVars>>
  <1>1. CASE PayTick
    BY <1>1 DEF PayTick, P!ReadStatus, P!ledgerVars
  <1>2. CASE PayStep
    BY <1>2 DEF PayStep, P!ListActive, P!StoreFails, P!PrepareNothing,
       P!PreparePayouts, P!SendPayout, P!NodeFinalizes, P!PayoutAnswered,
       P!AccountingFails, P!PayoutRefused, P!PayoutTimesOut, P!EndPass,
       P!NodeSigns, P!NodeAnswers, P!PQDay, P!ledgerVars
  <1> QED
    BY <1>1, <1>2

\* Every step is a step of the blocks' life or leaves it alone.
LEMMA WatchStep == [Next]_vars => [WT!Next]_WT!vars
  <1> SUFFICES ASSUME [Next]_vars PROVE [WT!Next]_WT!vars
    OBVIOUS
  <1>1. ASSUME NEW b \in Block, AllocateBlock(b) PROVE WT!Next
    <2>1. WT!AllocateBlock(b)
      BY <1>1 DEF AllocateBlock, W!AllocateBlock, WT!AllocateBlock,
          W!nodeVars, WT!nodeVars, W!syncVars, WT!syncVars
    <2> QED
      BY <2>1 DEF WT!Next
  <1>2. ASSUME NEW b \in Block, SetBlockState(b) PROVE WT!Next
    <2>1. WT!SetBlockState(b)
      BY <1>2 DEF SetBlockState, W!SetBlockState, WT!SetBlockState,
          W!NextStatus, WT!NextStatus, W!nodeVars, WT!nodeVars
    <2> QED
      BY <2>1 DEF WT!Next
  <1>3. CASE ChainStep
    <2> USE DEF W!nodeVars, WT!nodeVars, W!syncVars, WT!syncVars, W!poolVars,
                WT!poolVars
    <2>1. ASSUME NEW b \in Block,
                 \/ W!AllocationFails(b) \/ W!SubmitBlock(b)
                 \/ W!SubmissionLost(b) \/ W!NodeExtendsWith(b)
                 \/ W!NodeStores(b)
          PROVE  \/ WT!AllocationFails(b) \/ WT!SubmitBlock(b)
                 \/ WT!SubmissionLost(b) \/ WT!NodeExtendsWith(b)
                 \/ WT!NodeStores(b)
      BY <2>1 DEF W!AllocationFails, W!SubmitBlock, W!SubmissionLost,
          W!NodeExtendsWith, W!NodeStores, WT!AllocationFails, WT!SubmitBlock,
          WT!SubmissionLost, WT!NodeExtendsWith, WT!NodeStores
    <2>2. W!Extend => WT!Extend
      BY DEF W!Extend, WT!Extend
    <2>3. W!Reorg => WT!Reorg
      BY DEF W!Reorg, WT!Reorg
    <2> QED
      BY <1>3, <2>1, <2>2, <2>3 DEF ChainStep, WT!Next
  <1>4. CASE SyncTick
    <2>1. WT!ListPending
      BY <1>4, Zenon DEF SyncTick, W!ListPending, WT!ListPending, W!Pending,
          WT!Pending, W!poolVars, WT!poolVars, W!nodeVars, WT!nodeVars,
          W!Cardinality, WT!Cardinality
    <2> QED
      BY <2>1 DEF WT!Next
  <1>5. CASE SyncStep
    <2> USE DEF W!nodeVars, WT!nodeVars, W!poolVars, WT!poolVars, W!Oldest,
                WT!Oldest
    <2>1. ASSUME NEW b \in Block,
                 W!BlockStatus(b) \/ W!BlockStatusFails(b) \/ W!SetBlockStateFails(b)
          PROVE  \/ WT!BlockStatus(b) \/ WT!BlockStatusFails(b)
                 \/ WT!SetBlockStateFails(b)
      BY <2>1 DEF W!BlockStatus, W!BlockStatusFails, W!SetBlockStateFails,
          WT!BlockStatus, WT!BlockStatusFails, WT!SetBlockStateFails
    <2>2. W!EndSync => WT!EndSync
      BY DEF W!EndSync, WT!EndSync
    <2> QED
      BY <1>5, <2>1, <2>2 DEF SyncStep, WT!Next
  <1>6. CASE PayTick \/ PayStep
    BY <1>6, PayLeavesBlocks DEF watchVars, WT!vars, WT!poolVars, WT!nodeVars,
       WT!syncVars
  <1>8. CASE Crash
    <2>1. WT!Crash
      BY <1>8 DEF Crash, W!Crash, WT!Crash, W!nodeVars, WT!nodeVars
    <2> QED
      BY <2>1 DEF WT!Next
  <1>9. CASE UNCHANGED vars
    BY <1>9 DEF vars, watchVars, WT!vars, WT!poolVars, WT!nodeVars, WT!syncVars
  <1> QED
    BY <1>1, <1>2, <1>3, <1>4, <1>5, <1>6, <1>8, <1>9 DEF Next

\* The inductive invariant of BlockWatch holds of the pool.
LEMMA WatchInvariance == Spec => []WT!IInv
  <1>1. WT!ChainAssumption /\ WT!NoObsAssumption
    BY PoolAssumption DEF PoolAssumption, W!ChainAssumption, WT!ChainAssumption,
       W!NoObsAssumption, WT!NoObsAssumption, W!Observation, WT!Observation
  <1>2. WT!Spec => []WT!IInv
    BY <1>1, WT!Invariance
  <1> QED
    BY <1>2, WatchInit, WatchStep, PTL DEF Spec, WT!Spec

\* The two copies of the ledger's definitions say the same.
LEMMA SameBalances ==
    ASSUME NEW a \in Address
    PROVE  P!Available(a) = PT!Available(a)
  <1>1. P!Mature(a) = PT!Mature(a)
    BY Zenon DEF P!Mature, PT!Mature, P!Total, PT!Total, P!UnitsOf, PT!UnitsOf,
       P!Matured, PT!Matured, P!Cardinality, PT!Cardinality
  <1>2. P!Reserved(a) = PT!Reserved(a)
    BY Zenon DEF P!Reserved, PT!Reserved, P!Total, PT!Total, P!UnitsOf,
       PT!UnitsOf, P!Reserving, PT!Reserving, P!Cardinality, PT!Cardinality,
       P!PayoutId, PT!PayoutId
  <1> QED
    BY <1>1, <1>2 DEF P!Available, PT!Available

LEMMA SameRecipients ==
    /\ P!Eligible = PT!Eligible
    /\ P!Recipients = PT!Recipients
  <1>1. P!Eligible = PT!Eligible
    BY SameBalances DEF P!Eligible, PT!Eligible
  <1>2. \A a, b \in Address : P!Before(a, b) <=> PT!Before(a, b)
    BY SameBalances DEF P!Before, PT!Before
  <1>3. ASSUME NEW a \in P!Eligible
        PROVE  P!Cardinality({b \in P!Eligible : P!Before(b, a)})
             = PT!Cardinality({b \in PT!Eligible : PT!Before(b, a)})
    <2>1. {b \in P!Eligible : P!Before(b, a)} = {b \in PT!Eligible : PT!Before(b, a)}
      BY <1>1, <1>2, <1>3 DEF P!Eligible
    <2> QED
      BY <2>1, Zenon DEF P!Cardinality, PT!Cardinality
  <1>4. P!Recipients = PT!Recipients
    BY <1>1, <1>3 DEF P!Recipients, PT!Recipients
  <1> QED
    BY <1>1, <1>4

\* The initial states of the composition are those of the ledger.
LEMMA PayoutInit == Init => PT!Init
  BY DEF Init, P!Init, PT!Init, P!NoAward, PT!NoAward, P!PayoutId, PT!PayoutId

\* A new row and a settled row are steps of the ledger; the second because
\* the answer applied is about a pending row and no payout pass is under way.
LEMMA LedgerStep ==
    ASSUME WT!IInv, OneLoopAtATime, NEW b \in Block,
           AllocateBlock(b) \/ SetBlockState(b)
    PROVE  [PT!Next]_PT!vars
  <1>1. CASE AllocateBlock(b)
    <2>1. PT!AllocateBlock(b)
      BY <1>1 DEF AllocateBlock, P!AllocateBlock, PT!AllocateBlock, P!payVars,
         PT!payVars, P!nodeVars, PT!nodeVars, P!passVars, PT!passVars
    <2> QED
      BY <2>1 DEF PT!Next
  <1>2. CASE SetBlockState(b)
    <2> DEFINE s == W!NextStatus(b, obs)
    <2>1. /\ syncpc = "apply" /\ obs.block = b
          /\ status' = [status EXCEPT ![b] = s]
          /\ UNCHANGED <<payoutVars, crashes>>
      BY <1>2 DEF SetBlockState, W!SetBlockState
    <2>2. paypc = "idle" /\ status[b] = "pending"
             /\ status \in [Block -> {"absent", "pending", "mature", "orphan"}]
      BY <2>1 DEF OneLoopAtATime, WT!IInv, WT!ObsOK, WT!RowsOK, WT!Pending,
         WT!TypeOK
    <2>3. s \in {"mature", "orphan"} \/ s = status[b]
      BY <2>2 DEF W!NextStatus
    <2>4. CASE s \in {"mature", "orphan"}
      <3>1. PT!SettleBlock(b)
        BY <2>1, <2>2, <2>4 DEF PT!SettleBlock, payoutVars, PT!payVars,
           PT!nodeVars, PT!passVars
      <3> QED
        BY <3>1 DEF PT!Next
    <2>5. CASE s = status[b]
      <3>1. status' = status
        BY <2>1, <2>2, <2>5
      <3> QED
        BY <2>1, <3>1 DEF PT!vars, payoutVars, PT!ledgerVars, PT!payVars,
           PT!nodeVars, PT!passVars
    <2> QED
      BY <2>3, <2>4, <2>5
  <1> QED
    BY <1>1, <1>2

\* The payout pass, the wallet and the clock are those of Payouts.
LEMMA PassStep ==
    ASSUME PayTick \/ PayStep
    PROVE  PT!Next
  <1> USE DEF P!ledgerVars, PT!ledgerVars, P!payVars, PT!payVars, P!nodeVars,
              PT!nodeVars, P!passVars, PT!passVars, P!PayoutId, PT!PayoutId,
              P!Active, PT!Active, P!Signed, PT!Signed
  <1>1. P!ReadStatus => PT!ReadStatus
    BY DEF P!ReadStatus, PT!ReadStatus
  <1>2. P!ListActive => PT!ListActive
    BY Zenon DEF P!ListActive, PT!ListActive, P!Cardinality, PT!Cardinality
  <1>3. P!StoreFails \/ P!EndPass => PT!StoreFails \/ PT!EndPass
    BY DEF P!StoreFails, PT!StoreFails, P!EndPass, PT!EndPass
  <1>4. P!PrepareNothing => PT!PrepareNothing
    BY SameRecipients DEF P!PrepareNothing, PT!PrepareNothing
  <1>5. ASSUME NEW p \in P!PayoutId, P!PreparePayouts(p)
        PROVE  PT!PreparePayouts(p)
    <2>1. [a \in Address |-> IF a \in P!Recipients THEN P!Available(a) ELSE 0]
        = [a \in Address |-> IF a \in PT!Recipients THEN PT!Available(a) ELSE 0]
      BY SameBalances, SameRecipients
    <2> QED
      BY <1>5, <2>1, SameRecipients DEF P!PreparePayouts, PT!PreparePayouts
  <1>6. ASSUME NEW p \in P!PayoutId, P!SendPayout(p)
        PROVE  PT!SendPayout(p)
    BY <1>6 DEF P!SendPayout, PT!SendPayout, P!RequestOf, PT!RequestOf
  <1>7. ASSUME NEW p \in P!PayoutId, P!NodeFinalizes(p)
        PROVE  PT!NodeFinalizes(p)
    BY <1>7 DEF P!NodeFinalizes, PT!NodeFinalizes
  <1>8. P!PayoutAnswered => PT!PayoutAnswered
    BY DEF P!PayoutAnswered, PT!PayoutAnswered, P!NextPayout, PT!NextPayout,
       P!SetPayoutState, PT!SetPayoutState
  <1>9. P!AccountingFails \/ P!PayoutRefused \/ P!PayoutTimesOut
           => PT!AccountingFails \/ PT!PayoutRefused \/ PT!PayoutTimesOut
    BY DEF P!AccountingFails, P!PayoutRefused, P!PayoutTimesOut,
       PT!AccountingFails, PT!PayoutRefused, PT!PayoutTimesOut, P!NextPayout,
       PT!NextPayout
  <1>10. P!NodeSigns => PT!NodeSigns
    BY DEF P!NodeSigns, PT!NodeSigns, P!Arriving, PT!Arriving
  <1>11. P!NodeAnswers \/ P!PQDay => PT!NodeAnswers \/ PT!PQDay
    BY DEF P!NodeAnswers, PT!NodeAnswers, P!PQDay, PT!PQDay
  <1> QED
    BY <1>1, <1>2, <1>3, <1>4, <1>5, <1>6, <1>7, <1>8, <1>9, <1>10, <1>11
    DEF PayTick, PayStep, PT!Next

\* The chain and the polling loop's reads leave the ledger alone.
LEMMA ChainLeavesLedger ==
    ASSUME ChainStep \/ SyncTick \/ SyncStep \/ UNCHANGED vars
    PROVE  UNCHANGED <<status, payoutVars, crashes>>
  BY DEF ChainStep, SyncTick, SyncStep, vars, W!AllocationFails,
     W!SubmitBlock, W!SubmissionLost, W!NodeExtendsWith, W!NodeStores,
     W!Extend, W!Reorg, W!ListPending, W!BlockStatus, W!BlockStatusFails,
     W!SetBlockStateFails, W!EndSync, W!poolVars

\* The rest: chain and polling leave the ledger alone, a crash is a crash.
LEMMA OtherStep ==
    ASSUME ChainStep \/ SyncTick \/ SyncStep \/ Crash \/ UNCHANGED vars
    PROVE  [PT!Next]_PT!vars
  <1>1. CASE Crash
    <2>1. PT!Crash
      BY <1>1 DEF Crash, P!Crash, PT!Crash, P!ledgerVars, PT!ledgerVars,
         P!payVars, PT!payVars, P!nodeVars, PT!nodeVars
    <2> QED
      BY <2>1 DEF PT!Next
  <1>2. CASE ChainStep \/ SyncTick \/ SyncStep \/ UNCHANGED vars
    BY <1>2, ChainLeavesLedger DEF PT!vars, payoutVars, PT!ledgerVars,
       PT!payVars, PT!nodeVars, PT!passVars
  <1> QED
    BY <1>1, <1>2

\* One goroutine: a loop starts only when the other is idle.
THEOREM LoopsExclusive == Spec => []OneLoopAtATime
  <1>1. Init => OneLoopAtATime
    BY DEF Init, W!Init, OneLoopAtATime
  <1>2. OneLoopAtATime /\ [Next]_vars => OneLoopAtATime'
    <2> SUFFICES ASSUME OneLoopAtATime, [Next]_vars PROVE OneLoopAtATime'
      OBVIOUS
    <2> USE DEF OneLoopAtATime, watchVars, payoutVars
    <2>1. ASSUME NEW b \in Block, AllocateBlock(b) PROVE OneLoopAtATime'
      BY <2>1 DEF AllocateBlock, W!AllocateBlock, P!AllocateBlock, W!syncVars,
         P!passVars
    <2>2. ASSUME NEW b \in Block, SetBlockState(b) PROVE OneLoopAtATime'
      BY <2>2 DEF SetBlockState, W!SetBlockState
    <2>3. CASE ChainStep
      BY <2>3 DEF ChainStep, W!AllocationFails, W!SubmitBlock, W!SubmissionLost,
         W!NodeExtendsWith, W!NodeStores, W!Extend, W!Reorg, W!syncVars
    <2>4. CASE SyncTick \/ SyncStep
      BY <2>4 DEF SyncTick, SyncStep, W!ListPending, W!BlockStatus,
         W!BlockStatusFails, W!SetBlockStateFails, W!EndSync
    <2>5. CASE PayTick \/ PayStep
      BY <2>5 DEF PayTick, PayStep, P!ReadStatus, P!ListActive, P!StoreFails,
         P!PrepareNothing, P!PreparePayouts, P!SendPayout, P!NodeFinalizes,
         P!PayoutAnswered, P!AccountingFails, P!PayoutRefused, P!PayoutTimesOut,
         P!EndPass, P!NodeSigns, P!NodeAnswers, P!PQDay, P!NextPayout, P!passVars
    <2>6. CASE Crash
      BY <2>6 DEF Crash, W!Crash
    <2>7. CASE UNCHANGED vars
      BY <2>7 DEF vars
    <2> QED
      BY <2>1, <2>2, <2>3, <2>4, <2>5, <2>6, <2>7 DEF Next
  <1> QED
    BY <1>1, <1>2, PTL DEF Spec

\* The rows and passes of the ledger in the instance the composition is
\* built from; a settled row is a step because the answer applied is about a
\* pending row and no payout pass is under way.
LEMMA PayingStep ==
    ASSUME WT!IInv, OneLoopAtATime, [Next]_vars
    PROVE  [P!Next]_P!vars
  <1>1. ASSUME NEW b \in Block, AllocateBlock(b)
        PROVE  P!Next
    BY <1>1 DEF AllocateBlock, P!Next
  <1>2. ASSUME NEW b \in Block, SetBlockState(b)
        PROVE  [P!Next]_P!vars
    <2> DEFINE s == W!NextStatus(b, obs)
    <2>1. /\ syncpc = "apply" /\ obs.block = b
          /\ status' = [status EXCEPT ![b] = s]
          /\ UNCHANGED <<payoutVars, crashes>>
      BY <1>2 DEF SetBlockState, W!SetBlockState
    <2>2. paypc = "idle" /\ status[b] = "pending"
             /\ status \in [Block -> {"absent", "pending", "mature", "orphan"}]
      BY <2>1 DEF OneLoopAtATime, WT!IInv, WT!ObsOK, WT!RowsOK, WT!Pending,
         WT!TypeOK
    <2>3. s \in {"mature", "orphan"} \/ s = status[b]
      BY <2>2 DEF W!NextStatus
    <2>4. CASE s \in {"mature", "orphan"}
      <3>1. P!SettleBlock(b)
        BY <2>1, <2>2, <2>4 DEF P!SettleBlock, payoutVars, P!payVars,
           P!nodeVars, P!passVars
      <3> QED
        BY <3>1 DEF P!Next
    <2>5. CASE s = status[b]
      <3>1. status' = status
        BY <2>1, <2>2, <2>5
      <3> QED
        BY <2>1, <3>1 DEF P!vars, payoutVars, P!ledgerVars, P!payVars,
           P!nodeVars, P!passVars
    <2> QED
      BY <2>3, <2>4, <2>5
  <1>3. CASE PayTick \/ PayStep
    BY <1>3 DEF PayTick, PayStep, P!Next
  <1>4. CASE Crash
    BY <1>4 DEF Crash, P!Next
  <1>5. CASE ChainStep \/ SyncTick \/ SyncStep \/ UNCHANGED vars
    BY <1>5, ChainLeavesLedger DEF P!vars, payoutVars, P!ledgerVars, P!payVars,
       P!nodeVars, P!passVars
  <1> QED
    BY <1>1, <1>2, <1>3, <1>4, <1>5 DEF Next

\* The pool implements Payouts: settling is atomic for the payout pass, as
\* one goroutine runs both loops.
THEOREM ImplementsPayouts == Spec => PayoutSpec
  <1>1. Init => P!Init
    BY DEF Init
  <1> QED
    BY <1>1, PayingStep, WatchInvariance, LoopsExclusive, PTL
    DEF Spec, PayoutSpec, P!Spec

\* The same of the copy of Payouts its theorems are stated for.
LEMMA LedgerSpec == Spec => PT!Spec
  <1>1. WT!IInv /\ OneLoopAtATime /\ [Next]_vars => [PT!Next]_PT!vars
    BY LedgerStep, PassStep, OtherStep DEF Next
  <1> QED
    BY <1>1, PayoutInit, WatchInvariance, LoopsExclusive, PTL DEF Spec, PT!Spec

\* The inductive invariant of Payouts holds of the pool.
LEMMA PayoutInvariance == Spec => [](PT!IInv /\ PT!PaidWithinCredit)
  <1>1. PT!LedgerAssumption /\ PT!NoRequestAssumption
    BY PoolAssumption DEF PoolAssumption, P!LedgerAssumption,
       PT!LedgerAssumption, P!NoRequestAssumption, PT!NoRequestAssumption,
       P!Unit, PT!Unit, P!Request, PT!Request, P!PayoutId, PT!PayoutId,
       P!IsFiniteSet, PT!IsFiniteSet
  <1>2. PT!Spec => []PT!IInv
    BY <1>1, PT!Invariance
  <1>3. PT!Spec => []PT!PaidWithinCredit
    BY <1>1, PT!NoDoublePayment
  <1> QED
    BY <1>2, <1>3, LedgerSpec, PTL

\* What the wallet signed is backed by blocks of the selected chain: signed
\* items are within the mature credit, and mature blocks are on that chain.
THEOREM Solvency == Spec => []PaidFromSelectedChain
  <1>1. WT!IInv /\ PT!IInv /\ PT!PaidWithinCredit => PaidFromSelectedChain
    <2> SUFFICES ASSUME WT!IInv, PT!IInv, PT!PaidWithinCredit, NEW a \in Address
                 PROVE  Total(P!Signed, [p \in P!Signed |-> signed[p].items[a]])
                   <= Total(Buried, [b \in Block |-> award[b].credit[a]])
      BY DEF PaidFromSelectedChain, Earned
    <2> DEFINE f == [b \in Block |-> award[b].credit[a]]
               g == [p \in P!Signed |-> signed[p].items[a]]
               M == PT!Matured
               D == Buried
    <2>1. M \subseteq D /\ D \subseteq Block
      BY DEF WT!IInv, WT!TypeOK, WT!MatureIsCanonical, PT!Matured, Buried
    <2>2. IsFiniteSet(Block)
      BY PoolAssumption DEF PoolAssumption, P!LedgerAssumption, P!IsFiniteSet,
         IsFiniteSet
    <2>3. IsFiniteSet(D) /\ \A b \in D : f[b] \in Nat
      BY <2>1, <2>2, FS_Subset DEF PT!IInv, PT!TypeOK
    <2>4. PT!Total(PT!Signed, [p \in PT!Signed |-> signed[p].items[a]])
             <= PT!Mature(a)
      BY DEF PT!PaidWithinCredit
    <2>5. PT!Total(PT!Signed, [p \in PT!Signed |-> signed[p].items[a]])
             = Total(P!Signed, g)
      BY Zenon DEF PT!Total, Total, PT!UnitsOf, UnitsOf, PT!Cardinality,
         Cardinality, PT!Signed, P!Signed, PT!PayoutId, P!PayoutId
    <2>6. PT!Mature(a) = Total(M, f)
      BY Zenon DEF PT!Mature, PT!Total, Total, PT!UnitsOf, UnitsOf,
         PT!Cardinality, Cardinality
    <2> HIDE DEF f, M, D
    <2>7. Total(M, f) <= Total(D, f)
      BY <2>1, <2>3, TotalMonotone
    <2> HIDE DEF g
    <2>8. Total(D, f) \in Nat /\ Total(M, f) \in Nat
      <3>1. IsFiniteSet(M) /\ \A b \in M : f[b] \in Nat
        BY <2>1, <2>3, FS_Subset
      <3> QED
        BY <2>3, <3>1, TotalType
    <2>9. Total(P!Signed, g) \in Nat
      <3>1. /\ IsFiniteSet(P!Signed)
            /\ P!Signed \subseteq 1..MaxPayouts
        <4>1. P!Signed \subseteq 1..MaxPayouts
          BY DEF P!Signed, P!PayoutId
        <4>2. IsFiniteSet(1..MaxPayouts)
          BY PoolAssumption, FS_Interval DEF PoolAssumption, P!LedgerAssumption
        <4> QED
          BY <4>1, <4>2, FS_Subset
      <3>2. \A p \in P!Signed : g[p] \in Nat
        BY DEF g, P!Signed, P!PayoutId, PT!IInv, PT!TypeOK, PT!PayoutId,
           PT!Request
      <3> QED
        BY <3>1, <3>2, TotalType
    <2>10. Total(P!Signed, g) <= Total(D, f)
      BY <2>4, <2>5, <2>6, <2>7, <2>8, <2>9
    <2> QED
      BY <2>10 DEF f, g, D
  <1> QED
    BY <1>1, WatchInvariance, PayoutInvariance, PTL
-----------------------------------------------------------------------------
(* The locks: they are taken in an order.  What a goroutine holds is what    *)
(* the rest of its operation gives back, and it only asks for a lock above   *)
(* all of those, so whoever wants the highest lock of those waited for waits *)
(* for nobody who waits.                                                     *)

\* The order: the semaphore of the workers, then the once of a connection and
\* the lock of the store, under which others are taken, then those others.
Level(lock) ==
    IF lock = L!Semaphore THEN 1
    ELSE IF lock = L!Store \/ lock[1] = "once" THEN 2 ELSE 3

LockItem ==
    [act : {"pass", "lock", "unlock", "write", "close", "spawn", "join"}, lock : L!Lock]

\* The items from the i-th on.
Rest(s, i) == SubSeq(s, i, Len(s))

\* What a goroutine holds before it does s: the locks that s gives back before it
\* takes them.
Held(s) ==
    {l \in L!Lock : \E j \in 1..Len(s) :
        /\ s[j] = L!Item("unlock", l)
        /\ \A k \in 1..(j - 1) : s[k] # L!Item("lock", l)}

Below(locks, level) == \A l \in locks : Level(l) < level

\* Nothing in s starts workers or waits for them.
Plain(s) == \A i \in 1..Len(s) : s[i].act \notin {"spawn", "join"}

\* A lock is wanted below which all held ones are, taken to be given back, and
\* never twice; workers are waited for as soon as they are started, once in an
\* operation, with nothing held; a write is made under the lock for it and nothing
\* that closing the connection takes; the body of a once is that of close.
Allowed(x, s) ==
    /\ x.act = "pass" => Below(Held(s), Level(x.lock))
    /\ x.act = "lock" => x.lock \in Held(s) /\ Below(Held(s) \ {x.lock}, Level(x.lock))
    /\ x.act = "unlock" => x.lock \notin Held(s)
    /\ x.act = "spawn" => Len(s) > 0 /\ s[1].act = "join" /\ Plain(Rest(s, 2))
    /\ x.act = "join" => Held(s) = {}
    /\ x.act = "write" =>
          /\ x.lock \in {"write"} \X Conn
          /\ Len(s) > 0 /\ s[1] = L!Item("unlock", x.lock)
          /\ Below(Held(s) \ {x.lock}, 2)
    /\ x.act = "lock" /\ x.lock[1] = "once" =>
          /\ Len(s) > 2
          /\ s[1] = L!Item("close", x.lock) /\ s[2] = L!Item("pass", L!Server)
          /\ s[3] = L!Item("unlock", x.lock)

InOrder(s) == \A i \in 1..Len(s) : Allowed(s[i], Rest(s, i + 1))

\* s can be done by a goroutine that holds the locks.
Fits(s, locks) ==
    \A i \in 1..Len(s) :
        /\ s[i].lock \notin locks
        /\ s[i].act \in {"pass", "lock"} => Below(locks, Level(s[i].lock))
        /\ s[i].act = "write" => Below(locks, 2)
        /\ s[i].act = "join" => locks = {}

LEMMA RestIs ==
    ASSUME NEW A, NEW s \in Seq(A), NEW i \in 1..(Len(s) + 1)
    PROVE  /\ Rest(s, i) \in Seq(A) /\ Len(Rest(s, i)) = Len(s) - i + 1
           /\ \A j \in 1..(Len(s) - i + 1) : Rest(s, i)[j] = s[i + j - 1]
  <1>1. Len(s) \in Nat /\ i \in Int /\ Len(s) \in Int
    OBVIOUS
  <1>2. \A j \in i..Len(s) : s[j] \in A
    OBVIOUS
  <1>3. /\ Rest(s, i) \in Seq(A)
        /\ Len(Rest(s, i)) = IF i <= Len(s) THEN Len(s) - i + 1 ELSE 0
        /\ \A j \in 1..(Len(s) - i + 1) : Rest(s, i)[j] = s[i + j - 1]
    BY <1>1, <1>2, SubSeqProperties DEF Rest
  <1> QED
    BY <1>1, <1>3

LEMMA ConsIs ==
    ASSUME NEW A, NEW x \in A, NEW t \in Seq(A)
    PROVE  LET s == <<x>> \o t
           IN /\ s \in Seq(A) /\ Len(s) = Len(t) + 1 /\ s # <<>>
              /\ s[1] = x /\ \A i \in 1..Len(t) : s[i + 1] = t[i]
              /\ Rest(s, 2) = t
              /\ \A i \in 1..(Len(t) + 1) : Rest(s, i + 1) = Rest(t, i)
  <1> DEFINE s == <<x>> \o t
  <1>1. Len(t) \in Nat /\ <<x>> \in Seq(A) /\ Len(<<x>>) = 1
    OBVIOUS
  <1>2. /\ s \in Seq(A) /\ Len(s) = 1 + Len(t)
        /\ \A i \in 1..(1 + Len(t)) : s[i] = IF i <= 1 THEN <<x>>[i] ELSE t[i - 1]
    BY <1>1, ConcatProperties
  <1>3. s[1] = x /\ \A i \in 1..Len(t) : s[i + 1] = t[i]
    BY <1>1, <1>2
  <1> HIDE DEF s
  <1>4. ASSUME NEW i \in 1..(Len(t) + 1)
        PROVE  Rest(s, i + 1) = Rest(t, i)
    <2>1. i + 1 \in 1..(Len(s) + 1)
      BY <1>1, <1>2
    <2>2. /\ Rest(s, i + 1) \in Seq(A) /\ Len(Rest(s, i + 1)) = Len(s) - (i + 1) + 1
          /\ \A j \in 1..(Len(s) - (i + 1) + 1) : Rest(s, i + 1)[j] = s[i + 1 + j - 1]
      BY <1>2, <2>1, RestIs
    <2>3. /\ Rest(t, i) \in Seq(A) /\ Len(Rest(t, i)) = Len(t) - i + 1
          /\ \A j \in 1..(Len(t) - i + 1) : Rest(t, i)[j] = t[i + j - 1]
      BY RestIs
    <2>4. \A j \in 1..(Len(t) - i + 1) : s[i + 1 + j - 1] = t[i + j - 1]
      <3> SUFFICES ASSUME NEW j \in 1..(Len(t) - i + 1) PROVE s[i + 1 + j - 1] = t[i + j - 1]
        OBVIOUS
      <3>1. i + j - 1 \in 1..Len(t) /\ i + 1 + j - 1 = (i + j - 1) + 1
        BY <1>1
      <3> QED
        BY <1>3, <3>1
    <2>5. Len(Rest(s, i + 1)) = Len(Rest(t, i))
      BY <1>1, <1>2, <2>2, <2>3
    <2>6. \A j \in 1..Len(Rest(t, i)) : Rest(s, i + 1)[j] = Rest(t, i)[j]
      BY <1>1, <1>2, <2>2, <2>3, <2>4
    <2> QED
      BY <2>2, <2>3, <2>5, <2>6, SeqEqual
  <1>5. Rest(t, 1) = t
    <2>1. /\ Rest(t, 1) \in Seq(A) /\ Len(Rest(t, 1)) = Len(t)
          /\ \A j \in 1..Len(t) : Rest(t, 1)[j] = t[j]
      BY <1>1, RestIs
    <2> QED
      BY <2>1, SeqEqual
  <1>6. Rest(s, 1 + 1) = Rest(t, 1)
    BY <1>1, <1>4
  <1>7. s # <<>>
    BY <1>1, <1>2
  <1> QED
    BY <1>1, <1>2, <1>3, <1>4, <1>5, <1>6, <1>7 DEF s

\* A sequence is its first item and the rest.
LEMMA Uncons ==
    ASSUME NEW A, NEW s \in Seq(A), s # <<>>
    PROVE  /\ s = <<s[1]>> \o Rest(s, 2) /\ s[1] \in A /\ Rest(s, 2) \in Seq(A)
           /\ Tail(s) = Rest(s, 2) /\ Head(s) = s[1]
  <1>1. Len(s) \in Nat \ {0} /\ s[1] \in A
    OBVIOUS
  <1>2. /\ Rest(s, 2) \in Seq(A) /\ Len(Rest(s, 2)) = Len(s) - 1
        /\ \A j \in 1..(Len(s) - 1) : Rest(s, 2)[j] = s[2 + j - 1]
    BY <1>1, RestIs
  <1> DEFINE t == Rest(s, 2)
  <1>3. /\ <<s[1]>> \o t \in Seq(A) /\ Len(<<s[1]>> \o t) = Len(s)
        /\ (<<s[1]>> \o t)[1] = s[1]
        /\ \A i \in 1..Len(t) : (<<s[1]>> \o t)[i + 1] = t[i]
    BY <1>1, <1>2, ConsIs
  <1>4. \A i \in 1..Len(s) : (<<s[1]>> \o t)[i] = s[i]
    <2> HIDE DEF t
    <2> SUFFICES ASSUME NEW i \in 1..Len(s), i # 1 PROVE (<<s[1]>> \o t)[i] = s[i]
      BY <1>3
    <2>1. i - 1 \in 1..(Len(s) - 1) /\ (i - 1) + 1 = i /\ 2 + (i - 1) - 1 = i
      BY <1>1
    <2>2. t[i - 1] = s[i]
      BY <1>2, <2>1 DEF t
    <2>3. i - 1 \in 1..Len(t)
      BY <1>2, <2>1 DEF t
    <2> QED
      BY <1>3, <2>1, <2>2, <2>3
  <1>5. <<s[1]>> \o t = s
    BY <1>3, <1>4, SeqEqual
  <1>6. Tail(s) = Rest(s, 2) /\ Head(s) = s[1]
    BY <1>1, TailIsSubSeq DEF Rest
  <1> QED
    BY <1>1, <1>2, <1>5, <1>6

\* What is held before an item: what is held after it, without the lock it
\* takes, with the one it gives back.
LEMMA HeldNext ==
    ASSUME NEW x \in LockItem, NEW t \in Seq(LockItem), NEW l \in L!Lock
    PROVE  l \in Held(<<x>> \o t) <=>
              \/ x = L!Item("unlock", l)
              \/ l \in Held(t) /\ x # L!Item("lock", l)
  <1> DEFINE s == <<x>> \o t
  <1>1. /\ Len(t) \in Nat /\ Len(s) = Len(t) + 1 /\ s[1] = x
        /\ \A i \in 1..Len(t) : s[i + 1] = t[i]
    BY ConsIs
  <1>2. L!Item("unlock", l) # L!Item("lock", l)
    BY DEF L!Item
  <1> HIDE DEF s
  <1>3. ASSUME l \in Held(s), x # L!Item("unlock", l)
        PROVE  l \in Held(t) /\ x # L!Item("lock", l)
    <2>1. PICK j \in 1..Len(s) : /\ s[j] = L!Item("unlock", l)
                                 /\ \A k \in 1..(j - 1) : s[k] # L!Item("lock", l)
      BY <1>3 DEF Held
    <2>2. j # 1
      BY <1>1, <1>3, <2>1
    <2>3. j - 1 \in 1..Len(t) /\ (j - 1) + 1 = j /\ 1 \in 1..(j - 1)
      BY <1>1, <2>2
    <2>4. t[j - 1] = L!Item("unlock", l)
      BY <1>1, <2>1, <2>3
    <2>5. ASSUME NEW k \in 1..(j - 1 - 1) PROVE t[k] # L!Item("lock", l)
      <3>1. k \in 1..Len(t) /\ k + 1 \in 1..(j - 1)
        BY <1>1, <2>3
      <3> QED
        BY <1>1, <2>1, <3>1
    <2>6. x # L!Item("lock", l)
      BY <1>1, <2>1, <2>3
    <2> QED
      BY <2>3, <2>4, <2>5, <2>6 DEF Held
  <1>4. ASSUME x = L!Item("unlock", l) PROVE l \in Held(s)
    <2>1. 1 \in 1..Len(s) /\ 1..(1 - 1) = {}
      BY <1>1
    <2> QED
      BY <1>1, <1>4, <2>1 DEF Held
  <1>5. ASSUME l \in Held(t), x # L!Item("lock", l) PROVE l \in Held(s)
    <2>1. PICK j \in 1..Len(t) : /\ t[j] = L!Item("unlock", l)
                                 /\ \A k \in 1..(j - 1) : t[k] # L!Item("lock", l)
      BY <1>5 DEF Held
    <2>2. j + 1 \in 1..Len(s) /\ s[j + 1] = L!Item("unlock", l)
      BY <1>1, <2>1
    <2>3. ASSUME NEW k \in 1..(j + 1 - 1) PROVE s[k] # L!Item("lock", l)
      <3>1. CASE k = 1
        BY <1>1, <1>5, <3>1
      <3>2. CASE k # 1
        <4>1. k - 1 \in 1..(j - 1) /\ k - 1 \in 1..Len(t) /\ (k - 1) + 1 = k
          BY <1>1, <3>2
        <4> QED
          BY <1>1, <2>1, <4>1
      <3> QED
        BY <3>1, <3>2
    <2> QED
      BY <2>2, <2>3 DEF Held
  <1> QED
    BY <1>2, <1>3, <1>4, <1>5 DEF s

LEMMA OrderNext ==
    ASSUME NEW x \in LockItem, NEW t \in Seq(LockItem)
    PROVE  InOrder(<<x>> \o t) <=> Allowed(x, t) /\ InOrder(t)
  <1> DEFINE s == <<x>> \o t
  <1>1. /\ Len(t) \in Nat /\ Len(s) = Len(t) + 1 /\ s[1] = x /\ Rest(s, 2) = t
        /\ \A i \in 1..Len(t) : s[i + 1] = t[i]
        /\ \A i \in 1..(Len(t) + 1) : Rest(s, i + 1) = Rest(t, i)
    BY ConsIs
  <1> HIDE DEF s
  <1>2. Allowed(s[1], Rest(s, 1 + 1)) <=> Allowed(x, t)
    BY <1>1
  <1>3. ASSUME NEW i \in 1..Len(t)
        PROVE  /\ Allowed(s[i + 1], Rest(s, (i + 1) + 1)) <=> Allowed(t[i], Rest(t, i + 1))
               /\ i + 1 \in 1..Len(s)
    <2>1. i + 1 \in 1..(Len(t) + 1) /\ i + 1 \in 1..Len(s)
      BY <1>1
    <2>2. s[i + 1] = t[i] /\ Rest(s, (i + 1) + 1) = Rest(t, i + 1)
      BY <1>1, <2>1
    <2> QED
      BY <2>1, <2>2
  <1>4. ASSUME InOrder(s) PROVE Allowed(x, t) /\ InOrder(t)
    <2>1. 1 \in 1..Len(s)
      BY <1>1
    <2>2. \A i \in 1..Len(s) : Allowed(s[i], Rest(s, i + 1))
      BY <1>4 DEF InOrder
    <2>3. Allowed(x, t)
      BY <1>2, <2>1, <2>2
    <2>4. \A i \in 1..Len(t) : Allowed(t[i], Rest(t, i + 1))
      BY <1>3, <2>2
    <2> QED
      BY <2>3, <2>4 DEF InOrder
  <1>5. ASSUME Allowed(x, t), InOrder(t) PROVE InOrder(s)
    <2> SUFFICES ASSUME NEW i \in 1..Len(s) PROVE Allowed(s[i], Rest(s, i + 1))
      BY DEF InOrder
    <2>1. CASE i = 1
      BY <1>2, <1>5, <2>1
    <2>2. CASE i # 1
      <3>1. i - 1 \in 1..Len(t) /\ (i - 1) + 1 = i
        BY <1>1, <2>2
      <3>2. Allowed(t[i - 1], Rest(t, (i - 1) + 1))
        BY <1>5, <3>1 DEF InOrder
      <3>3. Allowed(s[(i - 1) + 1], Rest(s, ((i - 1) + 1) + 1))
        BY <1>3, <3>1, <3>2
      <3> QED
        BY <3>1, <3>3
    <2> QED
      BY <2>1, <2>2
  <1> QED
    BY <1>4, <1>5 DEF s

\* Nothing to do: nothing held.
LEMMA NothingLeft == <<>> \in Seq(LockItem) /\ InOrder(<<>>) /\ Held(<<>>) = {}
  <1>1. 1..Len(<<>>) = {}
    OBVIOUS
  <1> QED
    BY <1>1 DEF InOrder, Held

LEMMA ConcatRest ==
    ASSUME NEW A, NEW a \in Seq(A), NEW b \in Seq(A)
    PROVE  /\ \A i \in 1..(Len(a) + 1) : Rest(a \o b, i) = Rest(a, i) \o b
           /\ \A i \in 1..(Len(b) + 1) : Rest(a \o b, Len(a) + i) = Rest(b, i)
  <1> DEFINE s == a \o b
  <1>1. /\ Len(a) \in Nat /\ Len(b) \in Nat
        /\ s \in Seq(A) /\ Len(s) = Len(a) + Len(b)
        /\ \A i \in 1..(Len(a) + Len(b)) : s[i] = IF i <= Len(a) THEN a[i] ELSE b[i - Len(a)]
    BY ConcatProperties
  <1> HIDE DEF s
  <1>2. ASSUME NEW i \in 1..(Len(a) + 1) PROVE Rest(s, i) = Rest(a, i) \o b
    <2> DEFINE r == Rest(a, i)
    <2>1. /\ r \in Seq(A) /\ Len(r) = Len(a) - i + 1
          /\ \A j \in 1..(Len(a) - i + 1) : r[j] = a[i + j - 1]
      BY RestIs
    <2>2. i \in 1..(Len(s) + 1)
      BY <1>1
    <2>3. /\ Rest(s, i) \in Seq(A) /\ Len(Rest(s, i)) = Len(s) - i + 1
          /\ \A j \in 1..(Len(s) - i + 1) : Rest(s, i)[j] = s[i + j - 1]
      BY <1>1, <2>2, RestIs
    <2> HIDE DEF r
    <2>4. /\ r \o b \in Seq(A) /\ Len(r \o b) = Len(r) + Len(b)
          /\ \A j \in 1..(Len(r) + Len(b)) :
                (r \o b)[j] = IF j <= Len(r) THEN r[j] ELSE b[j - Len(r)]
      BY <2>1, ConcatProperties
    <2>5. Len(Rest(s, i)) = Len(r \o b) /\ Len(r \o b) = Len(a) + Len(b) - i + 1
      BY <1>1, <2>1, <2>3, <2>4
    <2>6. ASSUME NEW j \in 1..(Len(a) + Len(b) - i + 1) PROVE Rest(s, i)[j] = (r \o b)[j]
      <3>1. Rest(s, i)[j] = s[i + j - 1] /\ i + j - 1 \in 1..(Len(a) + Len(b))
        BY <1>1, <2>3
      <3>2. j \in 1..(Len(r) + Len(b))
        BY <1>1, <2>1
      <3>3. CASE j <= Len(r)
        <4>1. i + j - 1 <= Len(a) /\ j \in 1..(Len(a) - i + 1)
          BY <1>1, <2>1, <3>3
        <4> QED
          BY <1>1, <2>1, <2>4, <3>1, <3>2, <3>3, <4>1
      <3>4. CASE ~(j <= Len(r))
        <4>1. ~(i + j - 1 <= Len(a)) /\ i + j - 1 - Len(a) = j - Len(r)
          BY <1>1, <2>1, <3>4, SMTT(30)
        <4>2. s[i + j - 1] = b[i + j - 1 - Len(a)]
          BY <1>1, <3>1, <4>1, SMTT(30)
        <4> QED
          BY <2>4, <3>1, <3>2, <3>4, <4>1, <4>2
      <3> QED
        BY <3>3, <3>4
    <2>7. Rest(s, i) = r \o b
      BY <2>3, <2>4, <2>5, <2>6, SeqEqual
    <2> QED
      BY <2>7 DEF r
  <1>3. ASSUME NEW i \in 1..(Len(b) + 1) PROVE Rest(s, Len(a) + i) = Rest(b, i)
    <2>1. /\ Rest(b, i) \in Seq(A) /\ Len(Rest(b, i)) = Len(b) - i + 1
          /\ \A j \in 1..(Len(b) - i + 1) : Rest(b, i)[j] = b[i + j - 1]
      BY RestIs
    <2>2. Len(a) + i \in 1..(Len(s) + 1)
      BY <1>1
    <2>3. /\ Rest(s, Len(a) + i) \in Seq(A)
          /\ Len(Rest(s, Len(a) + i)) = Len(s) - (Len(a) + i) + 1
          /\ \A j \in 1..(Len(s) - (Len(a) + i) + 1) :
                Rest(s, Len(a) + i)[j] = s[Len(a) + i + j - 1]
      BY <1>1, <2>2, RestIs
    <2>4. Len(s) - (Len(a) + i) + 1 = Len(b) - i + 1
      BY <1>1
    <2>5. ASSUME NEW j \in 1..(Len(b) - i + 1)
          PROVE  Rest(s, Len(a) + i)[j] = Rest(b, i)[j]
      <3>1. /\ Len(a) + i + j - 1 \in 1..(Len(a) + Len(b)) /\ ~(Len(a) + i + j - 1 <= Len(a))
            /\ Len(a) + i + j - 1 - Len(a) = i + j - 1
        BY <1>1
      <3>2. s[Len(a) + i + j - 1] = b[Len(a) + i + j - 1 - Len(a)]
        BY <1>1, <3>1, SMTT(30)
      <3> QED
        BY <2>1, <2>3, <2>4, <3>1, <3>2
    <2> QED
      BY <2>1, <2>3, <2>4, <2>5, SeqEqual
  <1> QED
    BY <1>2, <1>3 DEF s

\* One sequence after another that gives back nothing the first one takes.
LEMMA ConcatHeld ==
    ASSUME NEW a \in Seq(LockItem), NEW b \in Seq(LockItem),
           \A i \in 1..Len(a) : a[i].lock \notin Held(b)
    PROVE  Held(a \o b) = Held(a) \cup Held(b)
  <1> DEFINE s == a \o b
  <1>1. /\ Len(a) \in Nat /\ Len(b) \in Nat /\ Len(s) = Len(a) + Len(b)
        /\ \A i \in 1..(Len(a) + Len(b)) : s[i] = IF i <= Len(a) THEN a[i] ELSE b[i - Len(a)]
    BY ConcatProperties
  <1>2. \A i \in 1..Len(a) : i \in 1..Len(s) /\ s[i] = a[i]
    BY <1>1
  <1>3. \A i \in 1..Len(b) : Len(a) + i \in 1..Len(s) /\ s[Len(a) + i] = b[i]
    <2> SUFFICES ASSUME NEW i \in 1..Len(b)
                 PROVE  Len(a) + i \in 1..Len(s) /\ s[Len(a) + i] = b[i]
      OBVIOUS
    <2>1. /\ Len(a) + i \in 1..(Len(a) + Len(b)) /\ ~(Len(a) + i <= Len(a))
          /\ Len(a) + i - Len(a) = i
      BY <1>1
    <2> QED
      BY <1>1, <2>1
  <1> HIDE DEF s
  <1>4. ASSUME NEW l \in Held(s), l \notin Held(a) PROVE l \in Held(b)
    <2>1. PICK j \in 1..Len(s) : /\ s[j] = L!Item("unlock", l)
                                 /\ \A k \in 1..(j - 1) : s[k] # L!Item("lock", l)
      BY DEF Held
    <2>2. l \in L!Lock
      BY DEF Held
    <2>3. ASSUME j <= Len(a) PROVE FALSE
      <3>1. j \in 1..Len(a) /\ \A k \in 1..(j - 1) : k \in 1..Len(a)
        BY <1>1, <2>3
      <3>2. a[j] = L!Item("unlock", l) /\ \A k \in 1..(j - 1) : a[k] # L!Item("lock", l)
        BY <1>2, <2>1, <3>1
      <3>3. l \in Held(a)
        BY <2>2, <3>1, <3>2 DEF Held
      <3> QED
        BY <1>4, <3>3
    <2>4. j - Len(a) \in 1..Len(b) /\ Len(a) + (j - Len(a)) = j
      BY <1>1, <2>3
    <2>5. b[j - Len(a)] = L!Item("unlock", l)
      BY <1>3, <2>1, <2>4
    <2>6. ASSUME NEW k \in 1..(j - Len(a) - 1) PROVE b[k] # L!Item("lock", l)
      <3>1. k \in 1..Len(b) /\ Len(a) + k \in 1..(j - 1)
        BY <1>1, <2>4
      <3> QED
        BY <1>3, <2>1, <3>1
    <2> QED
      BY <2>2, <2>4, <2>5, <2>6 DEF Held
  <1>5. ASSUME NEW l \in Held(a) PROVE l \in Held(s)
    <2>1. PICK j \in 1..Len(a) : /\ a[j] = L!Item("unlock", l)
                                 /\ \A k \in 1..(j - 1) : a[k] # L!Item("lock", l)
      BY DEF Held
    <2>2. \A k \in 1..(j - 1) : k \in 1..Len(a)
      BY <1>1
    <2>3. j \in 1..Len(s) /\ s[j] = L!Item("unlock", l)
      BY <1>2, <2>1
    <2>4. \A k \in 1..(j - 1) : s[k] # L!Item("lock", l)
      BY <1>2, <2>1, <2>2
    <2> QED
      BY <2>3, <2>4 DEF Held
  <1>6. ASSUME NEW l \in Held(b) PROVE l \in Held(s)
    <2>1. PICK j \in 1..Len(b) : /\ b[j] = L!Item("unlock", l)
                                 /\ \A k \in 1..(j - 1) : b[k] # L!Item("lock", l)
      BY DEF Held
    <2>2. Len(a) + j \in 1..Len(s) /\ s[Len(a) + j] = L!Item("unlock", l)
      BY <1>3, <2>1
    <2>3. ASSUME NEW k \in 1..(Len(a) + j - 1) PROVE s[k] # L!Item("lock", l)
      <3>1. CASE k <= Len(a)
        <4>1. k \in 1..Len(a)
          BY <1>1, <3>1
        <4>2. a[k].lock # l
          BY <4>1
        <4> QED
          BY <1>2, <4>1, <4>2 DEF L!Item
      <3>2. CASE ~(k <= Len(a))
        <4>1. k - Len(a) \in 1..(j - 1) /\ k - Len(a) \in 1..Len(b) /\ Len(a) + (k - Len(a)) = k
          BY <1>1, <3>2
        <4> QED
          BY <1>3, <2>1, <4>1
      <3> QED
        BY <3>1, <3>2
    <2> QED
      BY <2>2, <2>3 DEF Held
  <1> QED
    BY <1>4, <1>5, <1>6 DEF s

LEMMA ConcatItems ==
    ASSUME NEW a \in Seq(LockItem), NEW b \in Seq(LockItem)
    PROVE  \A i \in 1..Len(a \o b) : \/ \E j \in 1..Len(a) : (a \o b)[i] = a[j]
                                     \/ \E j \in 1..Len(b) : (a \o b)[i] = b[j]
  <1>1. /\ Len(a) \in Nat /\ Len(b) \in Nat /\ Len(a \o b) = Len(a) + Len(b)
        /\ \A i \in 1..(Len(a) + Len(b)) :
              (a \o b)[i] = IF i <= Len(a) THEN a[i] ELSE b[i - Len(a)]
    BY ConcatProperties
  <1> SUFFICES ASSUME NEW i \in 1..Len(a \o b)
               PROVE  \/ \E j \in 1..Len(a) : (a \o b)[i] = a[j]
                      \/ \E j \in 1..Len(b) : (a \o b)[i] = b[j]
    BY <1>1
  <1>2. CASE i <= Len(a)
    <2>1. i \in 1..Len(a)
      BY <1>1, <1>2
    <2> QED
      BY <1>1, <1>2, <2>1
  <1>3. CASE ~(i <= Len(a))
    <2>1. i - Len(a) \in 1..Len(b)
      BY <1>1, <1>3
    <2> QED
      BY <1>1, <1>3, <2>1
  <1> QED
    BY <1>2, <1>3

LEMMA ConcatPlain ==
    ASSUME NEW a \in Seq(LockItem), NEW b \in Seq(LockItem), Plain(a), Plain(b)
    PROVE  Plain(a \o b)
  <1>1. \A i \in 1..Len(a \o b) : \/ \E j \in 1..Len(a) : (a \o b)[i] = a[j]
                                  \/ \E j \in 1..Len(b) : (a \o b)[i] = b[j]
    BY ConcatItems
  <1> QED
    BY <1>1 DEF Plain

\* One sequence after another, if it can be done by a goroutine that holds what
\* the other one gives back, and one of them starts no workers.
LEMMA ConcatOrder ==
    ASSUME NEW a \in Seq(LockItem), NEW b \in Seq(LockItem),
           InOrder(a), InOrder(b), Fits(a, Held(b)), Plain(a) \/ Plain(b)
    PROVE  a \o b \in Seq(LockItem) /\ InOrder(a \o b) /\ Held(a \o b) = Held(a) \cup Held(b)
  <1> DEFINE s == a \o b
  <1>1. /\ Len(a) \in Nat /\ Len(b) \in Nat /\ Len(s) = Len(a) + Len(b) /\ s \in Seq(LockItem)
        /\ \A i \in 1..(Len(a) + Len(b)) : s[i] = IF i <= Len(a) THEN a[i] ELSE b[i - Len(a)]
    BY ConcatProperties
  <1>2. Held(s) = Held(a) \cup Held(b)
    BY ConcatHeld DEF Fits
  <1>3. /\ \A i \in 1..(Len(a) + 1) : Rest(s, i) = Rest(a, i) \o b
        /\ \A i \in 1..(Len(b) + 1) : Rest(s, Len(a) + i) = Rest(b, i)
    BY ConcatRest
  <1> HIDE DEF s
  <1>4. ASSUME NEW i \in 1..Len(a) PROVE Allowed(s[i], Rest(s, i + 1))
    <2> DEFINE x == a[i]
               r == Rest(a, i + 1)
    <2>1. i + 1 \in 1..(Len(a) + 1) /\ i \in 1..(Len(a) + Len(b))
      BY <1>1
    <2>2. s[i] = x /\ Rest(s, i + 1) = r \o b
      BY <1>1, <1>3, <2>1
    <2>3. /\ r \in Seq(LockItem) /\ Len(r) = Len(a) - (i + 1) + 1
          /\ \A j \in 1..(Len(a) - (i + 1) + 1) : r[j] = a[i + 1 + j - 1]
      BY <2>1, RestIs
    <2>4. Allowed(x, r) /\ x \in LockItem
      BY DEF InOrder
    <2>5. /\ x.lock \notin Held(b) /\ (x.act = "write" => Below(Held(b), 2))
          /\ (x.act \in {"pass", "lock"} => Below(Held(b), Level(x.lock)))
          /\ (x.act = "join" => Held(b) = {})
      BY DEF Fits
    <2> HIDE DEF x, r
    <2>6. \A j \in 1..Len(r) : r[j].lock \notin Held(b)
      <3> SUFFICES ASSUME NEW j \in 1..Len(r) PROVE r[j].lock \notin Held(b)
        OBVIOUS
      <3>1. j \in 1..(Len(a) - (i + 1) + 1) /\ i + 1 + j - 1 \in 1..Len(a)
        BY <1>1, <2>3
      <3>2. r[j] = a[i + 1 + j - 1]
        BY <2>3, <3>1
      <3> QED
        BY <3>1, <3>2 DEF Fits
    <2>7. Held(r \o b) = Held(r) \cup Held(b)
      BY <2>3, <2>6, ConcatHeld
    <2>8. \A j \in 1..Len(r) : (r \o b)[j] = r[j]
      BY <1>1, <2>3, ConcatProperties
    <2>9. Len(r \o b) >= Len(r) /\ Len(r) \in Nat
      BY <1>1, <2>3, ConcatProperties
    <2>10. x.act = "write" => Len(r \o b) > 0 /\ (r \o b)[1] = r[1]
      BY <2>4, <2>8, <2>9 DEF Allowed
    <2>11. x.act = "lock" /\ x.lock[1] = "once" =>
              /\ Len(r \o b) > 2 /\ (r \o b)[1] = r[1] /\ (r \o b)[2] = r[2]
              /\ (r \o b)[3] = r[3]
      <3> SUFFICES ASSUME x.act = "lock", x.lock[1] = "once"
                   PROVE  /\ Len(r \o b) > 2 /\ (r \o b)[1] = r[1] /\ (r \o b)[2] = r[2]
                          /\ (r \o b)[3] = r[3]
        OBVIOUS
      <3>1. Len(r) > 2
        BY <2>4 DEF Allowed
      <3>2. 1 \in 1..Len(r) /\ 2 \in 1..Len(r) /\ 3 \in 1..Len(r)
        BY <2>9, <3>1
      <3> QED
        BY <2>8, <2>9, <3>1, <3>2
    <2> HIDE DEF L!Item
    <2>12. Allowed(x, r \o b)
      <3>1. x.act = "pass" => Below(Held(r \o b), Level(x.lock))
        BY <2>4, <2>5, <2>7 DEF Allowed, Below
      <3>2. x.act = "lock" =>
               x.lock \in Held(r \o b) /\ Below(Held(r \o b) \ {x.lock}, Level(x.lock))
        BY <2>4, <2>5, <2>7 DEF Allowed, Below
      <3>3. x.act = "unlock" => x.lock \notin Held(r \o b)
        BY <2>4, <2>5, <2>7 DEF Allowed
      <3>4. x.act = "join" => Held(r \o b) = {}
        BY <2>4, <2>5, <2>7 DEF Allowed
      <3>5. x.act = "write" => Below(Held(r \o b) \ {x.lock}, 2)
        BY <2>4, <2>5, <2>7 DEF Allowed, Below
      <3>6. x.act = "spawn" =>
               Len(r \o b) > 0 /\ (r \o b)[1].act = "join" /\ Plain(Rest(r \o b, 2))
        <4> SUFFICES ASSUME x.act = "spawn"
                     PROVE  Len(r \o b) > 0 /\ (r \o b)[1].act = "join" /\ Plain(Rest(r \o b, 2))
          OBVIOUS
        <4>1. Len(r) > 0 /\ r[1].act = "join" /\ Plain(Rest(r, 2))
          BY <2>4 DEF Allowed
        <4>2. Plain(b)
          BY DEF Plain, x
        <4>3. 2 \in 1..(Len(r) + 1) /\ 1 \in 1..Len(r)
          BY <2>9, <4>1
        <4>4. Rest(r \o b, 2) = Rest(r, 2) \o b
          BY <2>3, <4>3, ConcatRest
        <4>5. Rest(r, 2) \in Seq(LockItem)
          BY <2>3, <4>3, RestIs
        <4>6. Plain(Rest(r, 2) \o b)
          BY <4>1, <4>2, <4>5, ConcatPlain
        <4>7. (r \o b)[1].act = "join" /\ Len(r \o b) > 0
          BY <2>8, <2>9, <4>1, <4>3
        <4> QED
          BY <4>4, <4>6, <4>7
      <3> QED
        BY <2>4, <2>10, <2>11, <3>1, <3>2, <3>3, <3>4, <3>5, <3>6 DEF Allowed
    <2> QED
      BY <2>2, <2>12
  <1>5. ASSUME NEW i \in 1..Len(b) PROVE Allowed(s[Len(a) + i], Rest(s, Len(a) + i + 1))
    <2>1. /\ i + 1 \in 1..(Len(b) + 1) /\ Len(a) + i \in 1..(Len(a) + Len(b))
          /\ ~(Len(a) + i <= Len(a)) /\ Len(a) + i - Len(a) = i
          /\ Len(a) + (i + 1) = Len(a) + i + 1
      BY <1>1
    <2>2. s[Len(a) + i] = b[i]
      BY <1>1, <2>1
    <2>3. Rest(s, Len(a) + i + 1) = Rest(b, i + 1)
      BY <1>3, <2>1
    <2> QED
      BY <2>2, <2>3 DEF InOrder
  <1>6. InOrder(s)
    <2> SUFFICES ASSUME NEW i \in 1..Len(s) PROVE Allowed(s[i], Rest(s, i + 1))
      BY DEF InOrder
    <2>1. CASE i <= Len(a)
      <3>1. i \in 1..Len(a)
        BY <1>1, <2>1
      <3> QED
        BY <1>4, <3>1
    <2>2. CASE ~(i <= Len(a))
      <3>1. i - Len(a) \in 1..Len(b) /\ Len(a) + (i - Len(a)) = i
        BY <1>1, <2>2
      <3>2. Allowed(s[Len(a) + (i - Len(a))], Rest(s, Len(a) + (i - Len(a)) + 1))
        BY <1>5, <3>1
      <3> QED
        BY <3>1, <3>2
    <2> QED
      BY <2>1, <2>2
  <1> QED
    BY <1>1, <1>2, <1>6 DEF s

\* What a goroutine does that holds nothing, or the semaphore: it gives back all
\* that it takes.
Complete(s) ==
    /\ s \in Seq(LockItem) /\ InOrder(s) /\ Held(s) = {}
    /\ Plain(s) /\ Fits(s, {L!Semaphore})

LEMMA ConcatFits ==
    ASSUME NEW a \in Seq(LockItem), NEW b \in Seq(LockItem), NEW locks,
           Fits(a, locks), Fits(b, locks)
    PROVE  Fits(a \o b, locks)
  <1>1. \A i \in 1..Len(a \o b) : \/ \E j \in 1..Len(a) : (a \o b)[i] = a[j]
                                  \/ \E j \in 1..Len(b) : (a \o b)[i] = b[j]
    BY ConcatItems
  <1> QED
    BY <1>1 DEF Fits

LEMMA FitsNothing == ASSUME NEW s \in Seq(LockItem) PROVE Fits(s, {})
  BY DEF Fits, Below

LEMMA CompleteConcat ==
    \A a, b : Complete(a) /\ Complete(b) => Complete(a \o b)
  <1> SUFFICES ASSUME NEW a, NEW b, Complete(a), Complete(b) PROVE Complete(a \o b)
    OBVIOUS
  <1>1. Fits(a, Held(b))
    BY FitsNothing DEF Complete
  <1>2. a \o b \in Seq(LockItem) /\ InOrder(a \o b) /\ Held(a \o b) = {}
    BY <1>1, ConcatOrder DEF Complete
  <1>3. Plain(a \o b) /\ Fits(a \o b, {L!Semaphore})
    BY ConcatPlain, ConcatFits DEF Complete
  <1> QED
    BY <1>2, <1>3 DEF Complete

\* One item before a sequence.
LEMMA PutBefore ==
    ASSUME NEW x \in LockItem, NEW t \in Seq(LockItem), InOrder(t), Allowed(x, t)
    PROVE  /\ <<x>> \o t \in Seq(LockItem) /\ InOrder(<<x>> \o t)
           /\ Held(<<x>> \o t) = IF x.act = "unlock" THEN Held(t) \cup {x.lock}
                                 ELSE IF x.act = "lock" THEN Held(t) \ {x.lock}
                                 ELSE Held(t)
  <1>1. <<x>> \o t \in Seq(LockItem)
    BY ConsIs
  <1>2. InOrder(<<x>> \o t)
    BY OrderNext
  <1>3. \A l \in L!Lock : l \in Held(<<x>> \o t) <=>
              \/ x = L!Item("unlock", l)
              \/ l \in Held(t) /\ x # L!Item("lock", l)
    BY HeldNext
  <1>4. \A l : x = L!Item("unlock", l) <=> x.act = "unlock" /\ x.lock = l
    BY DEF LockItem, L!Item
  <1>5. \A l : x = L!Item("lock", l) <=> x.act = "lock" /\ x.lock = l
    BY DEF LockItem, L!Item
  <1>6. Held(<<x>> \o t) \subseteq L!Lock /\ Held(t) \subseteq L!Lock /\ x.lock \in L!Lock
    BY DEF Held, LockItem
  <1> QED
    BY <1>1, <1>2, <1>3, <1>4, <1>5, <1>6

LEMMA PassComplete ==
    \A l \in L!Lock : l # L!Semaphore => Complete(L!Pass(l))
  <1> SUFFICES ASSUME NEW l \in L!Lock, l # L!Semaphore PROVE Complete(L!Pass(l))
    OBVIOUS
  <1> DEFINE x == L!Item("pass", l)
  <1>1. x \in LockItem /\ x.act = "pass" /\ x.lock = l
    BY DEF LockItem, L!Item
  <1>2. L!Pass(l) = <<x>> \o <<>> /\ L!Pass(l) = <<x>>
    BY DEF L!Pass
  <1> HIDE DEF x
  <1>3. Allowed(x, <<>>)
    BY <1>1, NothingLeft DEF Allowed, Below
  <1>4. <<x>> \o <<>> \in Seq(LockItem) /\ InOrder(<<x>> \o <<>>) /\ Held(<<x>> \o <<>>) = {}
    BY <1>1, <1>3, NothingLeft, PutBefore
  <1>5. Plain(<<x>>)
    BY <1>1 DEF Plain
  <1>6. Level(L!Semaphore) < Level(l)
    BY DEF Level
  <1>7. Fits(<<x>>, {L!Semaphore})
    BY <1>1, <1>6 DEF Fits, Below
  <1> QED
    BY <1>2, <1>4, <1>5, <1>7 DEF Complete

\* A lock around a sequence that can be done while it is held.
LEMMA HoldOrder ==
    ASSUME NEW l \in L!Lock, l[1] # "once",
           NEW body \in Seq(LockItem), InOrder(body), Held(body) = {}, Fits(body, {l})
    PROVE  /\ L!Hold(l, body) \in Seq(LockItem) /\ InOrder(L!Hold(l, body))
           /\ Held(L!Hold(l, body)) = {}
  <1> DEFINE x == L!Item("lock", l)
             y == L!Item("unlock", l)
  <1>1. /\ x \in LockItem /\ x.act = "lock" /\ x.lock = l
        /\ y \in LockItem /\ y.act = "unlock" /\ y.lock = l
    BY DEF LockItem, L!Item
  <1>2. L!Hold(l, body) = <<x>> \o body \o <<y>>
    BY DEF L!Hold
  <1> HIDE DEF x, y
  <1>3. <<y>> \in Seq(LockItem) /\ InOrder(<<y>>) /\ Held(<<y>>) = {l}
    <2>1. Allowed(y, <<>>)
      BY <1>1, NothingLeft DEF Allowed
    <2>2. <<y>> \o <<>> = <<y>>
      OBVIOUS
    <2> QED
      BY <1>1, <2>1, <2>2, NothingLeft, PutBefore
  <1>4. /\ body \o <<y>> \in Seq(LockItem) /\ InOrder(body \o <<y>>)
        /\ Held(body \o <<y>>) = {l}
    <2>1. Plain(<<y>>)
      BY <1>1 DEF Plain
    <2> QED
      BY <1>3, <2>1, ConcatOrder
  <1>5. Allowed(x, body \o <<y>>)
    BY <1>1, <1>4 DEF Allowed, Below
  <1>6. /\ <<x>> \o (body \o <<y>>) \in Seq(LockItem) /\ InOrder(<<x>> \o (body \o <<y>>))
        /\ Held(<<x>> \o (body \o <<y>>)) = {}
    BY <1>1, <1>4, <1>5, PutBefore
  <1>7. <<x>> \o body \o <<y>> = <<x>> \o (body \o <<y>>)
    <2>1. <<x>> \in Seq(LockItem)
      BY <1>1
    <2> QED
      BY <1>3, <2>1, ConcatAssociative
  <1> QED
    BY <1>2, <1>6, <1>7

LEMMA ConcatSimple ==
    /\ \A a, b, c \in Seq(LockItem) : a \o b \o c = a \o (b \o c)
    /\ \A a \in Seq(LockItem) : a \o <<>> = a
  <1>1. ASSUME NEW a \in Seq(LockItem), NEW b \in Seq(LockItem), NEW c \in Seq(LockItem)
        PROVE  a \o b \o c = a \o (b \o c)
    BY ConcatAssociative
  <1>2. ASSUME NEW a \in Seq(LockItem) PROVE a \o <<>> = a
    BY ConcatEmptySeq
  <1> QED
    BY <1>1, <1>2

LEMMA ConsLock ==
    \A x \in LockItem, t \in Seq(LockItem) :
        /\ <<x>> \o t \in Seq(LockItem) /\ Len(<<x>> \o t) = Len(t) + 1
        /\ (<<x>> \o t)[1] = x
        /\ \A i \in 1..Len(t) : (<<x>> \o t)[i + 1] = t[i]
  <1> SUFFICES ASSUME NEW x \in LockItem, NEW t \in Seq(LockItem)
               PROVE  /\ <<x>> \o t \in Seq(LockItem) /\ Len(<<x>> \o t) = Len(t) + 1
                      /\ (<<x>> \o t)[1] = x
                      /\ \A i \in 1..Len(t) : (<<x>> \o t)[i + 1] = t[i]
    OBVIOUS
  <1> QED
    BY ConsIs

LEMMA OneItem ==
    ASSUME NEW x \in LockItem, x.act \notin {"spawn", "join"}, x.lock # L!Semaphore,
           x.act = "write" => Level(L!Semaphore) < 2,
           x.act \in {"pass", "lock"} => Level(L!Semaphore) < Level(x.lock)
    PROVE  <<x>> \in Seq(LockItem) /\ Plain(<<x>>) /\ Fits(<<x>>, {L!Semaphore})
  BY DEF Plain, Fits, Below

\* send, close.
LEMMA SendIs ==
    ASSUME NEW c \in Conn
    PROVE  LET w == <<"write", c>>
               s == L!Send(c)
           IN /\ s \in Seq(LockItem) /\ Len(s) = 3
              /\ s[1] = L!Item("lock", w) /\ s[2] = L!Item("write", w)
              /\ s[3] = L!Item("unlock", w)
              /\ s = <<s[1]>> \o (<<s[2]>> \o (<<s[3]>> \o <<>>))
  <1> DEFINE w == <<"write", c>>
             x == L!Item("lock", w)
             y == L!Item("write", w)
             z == L!Item("unlock", w)
             t1 == <<z>> \o <<>>
             t2 == <<y>> \o t1
  <1>1. w \in L!Lock
    BY DEF L!Lock
  <1>2. x \in LockItem /\ y \in LockItem /\ z \in LockItem
    BY <1>1 DEF LockItem, L!Item
  <1>3. L!Send(c) = <<x>> \o <<y>> \o <<z>>
    BY DEF L!Send, L!Hold
  <1> HIDE DEF w, x, y, z
  <1>4. L!Send(c) = <<x>> \o t2
    BY <1>2, <1>3, ConcatSimple
  <1>5. t1 \in Seq(LockItem) /\ Len(t1) = 1 /\ t1[1] = z
    BY <1>2
  <1> HIDE DEF t1
  <1>6. t2 \in Seq(LockItem) /\ Len(t2) = 2 /\ t2[1] = y /\ t2[2] = z
    <2>1. t2 \in Seq(LockItem) /\ Len(t2) = 1 + 1 /\ t2[1] = y /\ t2[1 + 1] = t1[1]
      BY <1>2, <1>5, ConsLock
    <2> QED
      BY <1>5, <2>1
  <1> HIDE DEF t2
  <1>7. /\ <<x>> \o t2 \in Seq(LockItem) /\ Len(<<x>> \o t2) = 3 /\ (<<x>> \o t2)[1] = x
        /\ (<<x>> \o t2)[2] = y /\ (<<x>> \o t2)[3] = z
    <2>1. /\ <<x>> \o t2 \in Seq(LockItem) /\ Len(<<x>> \o t2) = Len(t2) + 1
          /\ (<<x>> \o t2)[1] = x
          /\ \A i \in 1..Len(t2) : (<<x>> \o t2)[i + 1] = t2[i]
      BY <1>2, <1>6, ConsLock
    <2>2. (<<x>> \o t2)[1 + 1] = t2[1] /\ (<<x>> \o t2)[2 + 1] = t2[2]
      BY <1>6, <2>1
    <2> QED
      BY <1>6, <2>1, <2>2
  <1>8. L!Send(c) = <<x>> \o (<<y>> \o (<<z>> \o <<>>))
    BY <1>4 DEF t1, t2
  <1> QED
    BY <1>4, <1>7, <1>8 DEF w, x, y, z

LEMMA CloseIs ==
    ASSUME NEW c \in Conn
    PROVE  LET o == <<"once", c>>
               s == L!Close(c)
           IN /\ s \in Seq(LockItem) /\ Len(s) = 4
              /\ s[1] = L!Item("lock", o) /\ s[2] = L!Item("close", o)
              /\ s[3] = L!Item("pass", L!Server) /\ s[4] = L!Item("unlock", o)
              /\ s = <<s[1]>> \o (<<s[2]>> \o (<<s[3]>> \o (<<s[4]>> \o <<>>)))
  <1> DEFINE o == <<"once", c>>
             x == L!Item("lock", o)
             y == L!Item("close", o)
             z == L!Item("pass", L!Server)
             u == L!Item("unlock", o)
             t1 == <<u>> \o <<>>
             t2 == <<z>> \o t1
             t3 == <<y>> \o t2
  <1>1. o \in L!Lock /\ L!Server \in L!Lock
    BY DEF L!Lock
  <1>2. x \in LockItem /\ y \in LockItem /\ z \in LockItem /\ u \in LockItem
    BY <1>1 DEF LockItem, L!Item
  <1>3. L!Close(c) = <<x>> \o (<<y>> \o <<z>>) \o <<u>>
    BY DEF L!Close, L!Hold, L!Pass
  <1> HIDE DEF o, x, y, z, u
  <1>4. L!Close(c) = <<x>> \o t3
    <2>1. <<y>> \o <<z>> \in Seq(LockItem) /\ <<x>> \in Seq(LockItem) /\ <<u>> \in Seq(LockItem)
          /\ <<y>> \in Seq(LockItem) /\ <<z>> \in Seq(LockItem)
      BY <1>2, ConsLock
    <2>2. L!Close(c) = <<x>> \o ((<<y>> \o <<z>>) \o <<u>>)
      BY <1>3, <2>1, ConcatSimple
    <2>3. (<<y>> \o <<z>>) \o <<u>> = <<y>> \o (<<z>> \o <<u>>)
      BY <2>1, ConcatSimple
    <2>4. <<u>> = t1
      BY <2>1, ConcatSimple
    <2> QED
      BY <2>2, <2>3, <2>4
  <1>5. t1 \in Seq(LockItem) /\ Len(t1) = 1 /\ t1[1] = u
    BY <1>2
  <1> HIDE DEF t1
  <1>6. t2 \in Seq(LockItem) /\ Len(t2) = 2 /\ t2[1] = z /\ t2[2] = u
    <2>1. /\ t2 \in Seq(LockItem) /\ Len(t2) = Len(t1) + 1 /\ t2[1] = z
          /\ \A i \in 1..Len(t1) : t2[i + 1] = t1[i]
      BY <1>2, <1>5, ConsLock
    <2>2. t2[1 + 1] = t1[1]
      BY <1>5, <2>1
    <2> QED
      BY <1>5, <2>1, <2>2
  <1> HIDE DEF t2
  <1>7. t3 \in Seq(LockItem) /\ Len(t3) = 3 /\ t3[1] = y /\ t3[2] = z /\ t3[3] = u
    <2>1. /\ t3 \in Seq(LockItem) /\ Len(t3) = Len(t2) + 1 /\ t3[1] = y
          /\ \A i \in 1..Len(t2) : t3[i + 1] = t2[i]
      BY <1>2, <1>6, ConsLock
    <2>2. t3[1 + 1] = t2[1] /\ t3[2 + 1] = t2[2]
      BY <1>6, <2>1
    <2> QED
      BY <1>6, <2>1, <2>2
  <1> HIDE DEF t3
  <1>8. /\ <<x>> \o t3 \in Seq(LockItem) /\ Len(<<x>> \o t3) = 4 /\ (<<x>> \o t3)[1] = x
        /\ (<<x>> \o t3)[2] = y /\ (<<x>> \o t3)[3] = z /\ (<<x>> \o t3)[4] = u
    <2>1. /\ <<x>> \o t3 \in Seq(LockItem) /\ Len(<<x>> \o t3) = Len(t3) + 1
          /\ (<<x>> \o t3)[1] = x
          /\ \A i \in 1..Len(t3) : (<<x>> \o t3)[i + 1] = t3[i]
      BY <1>2, <1>7, ConsLock
    <2>2. /\ (<<x>> \o t3)[1 + 1] = t3[1] /\ (<<x>> \o t3)[2 + 1] = t3[2]
          /\ (<<x>> \o t3)[3 + 1] = t3[3]
      BY <1>7, <2>1
    <2> QED
      BY <1>7, <2>1, <2>2
  <1>9. L!Close(c) = <<x>> \o (<<y>> \o (<<z>> \o (<<u>> \o <<>>)))
    BY <1>4 DEF t1, t2, t3
  <1> QED
    BY <1>4, <1>8, <1>9 DEF o, x, y, z, u

LEMMA SendComplete == \A c \in Conn : Complete(L!Send(c))
  <1> SUFFICES ASSUME NEW c \in Conn PROVE Complete(L!Send(c))
    OBVIOUS
  <1> DEFINE w == <<"write", c>>
             x == L!Item("lock", w)
             y == L!Item("write", w)
             z == L!Item("unlock", w)
             t1 == <<z>> \o <<>>
             t2 == <<y>> \o t1
  <1>1. /\ w \in L!Lock /\ w \in {"write"} \X Conn /\ w # L!Semaphore /\ w[1] # "once"
        /\ Level(w) = 3 /\ Level(L!Semaphore) = 1
    BY DEF L!Lock, L!Semaphore, L!Store, Level
  <1>2. /\ x \in LockItem /\ x.act = "lock" /\ x.lock = w
        /\ y \in LockItem /\ y.act = "write" /\ y.lock = w
        /\ z \in LockItem /\ z.act = "unlock" /\ z.lock = w
    BY <1>1 DEF LockItem, L!Item
  <1>3. L!Send(c) = <<x>> \o t2
    BY SendIs
  <1>4. z = L!Item("unlock", w)
    OBVIOUS
  <1> HIDE DEF w, x, y, z
  <1>5. /\ t1 \in Seq(LockItem) /\ InOrder(t1) /\ Held(t1) = {w} /\ Len(t1) > 0 /\ t1[1] = z
        /\ Plain(t1) /\ Fits(t1, {L!Semaphore})
    <2>1. Allowed(z, <<>>)
      BY <1>2, NothingLeft DEF Allowed
    <2>2. Len(t1) > 0 /\ t1[1] = z
      BY <1>2
    <2>3. t1 = <<z>>
      BY <1>2
    <2>4. Plain(t1) /\ Fits(t1, {L!Semaphore})
      BY <1>1, <1>2, <2>3, OneItem
    <2> QED
      BY <1>2, <2>1, <2>2, <2>4, NothingLeft, PutBefore
  <1> HIDE DEF t1
  <1>6. /\ t2 \in Seq(LockItem) /\ InOrder(t2) /\ Held(t2) = {w}
        /\ Plain(t2) /\ Fits(t2, {L!Semaphore})
    <2>1. Allowed(y, t1)
      BY <1>1, <1>2, <1>4, <1>5 DEF Allowed, Below
    <2>2. <<y>> \in Seq(LockItem) /\ Plain(<<y>>) /\ Fits(<<y>>, {L!Semaphore})
      BY <1>1, <1>2, OneItem, SMTT(30)
    <2>3. Plain(<<y>> \o t1) /\ Fits(<<y>> \o t1, {L!Semaphore})
      BY <1>5, <2>2, ConcatPlain, ConcatFits
    <2> QED
      BY <1>2, <1>5, <2>1, <2>3, PutBefore
  <1> HIDE DEF t2
  <1>7. /\ <<x>> \o t2 \in Seq(LockItem) /\ InOrder(<<x>> \o t2) /\ Held(<<x>> \o t2) = {}
        /\ Plain(<<x>> \o t2) /\ Fits(<<x>> \o t2, {L!Semaphore})
    <2>1. Allowed(x, t2)
      BY <1>1, <1>2, <1>6 DEF Allowed, Below
    <2>2. <<x>> \in Seq(LockItem) /\ Plain(<<x>>) /\ Fits(<<x>>, {L!Semaphore})
      BY <1>1, <1>2, OneItem
    <2>3. Plain(<<x>> \o t2) /\ Fits(<<x>> \o t2, {L!Semaphore})
      BY <1>6, <2>2, ConcatPlain, ConcatFits
    <2> QED
      BY <1>2, <1>6, <2>1, <2>3, PutBefore
  <1> QED
    BY <1>3, <1>7 DEF Complete

LEMMA CloseComplete == \A c \in Conn : Complete(L!Close(c))
  <1> SUFFICES ASSUME NEW c \in Conn PROVE Complete(L!Close(c))
    OBVIOUS
  <1> DEFINE o == <<"once", c>>
             x == L!Item("lock", o)
             y == L!Item("close", o)
             z == L!Item("pass", L!Server)
             u == L!Item("unlock", o)
             t1 == <<u>> \o <<>>
             t2 == <<z>> \o t1
             t3 == <<y>> \o t2
  <1>1. /\ o \in L!Lock /\ o # L!Semaphore /\ Level(o) = 2 /\ Level(L!Semaphore) = 1
        /\ L!Server \in L!Lock /\ L!Server # L!Semaphore /\ Level(L!Server) = 3
        /\ o[1] = "once" /\ L!Server # o
    BY DEF L!Lock, L!Semaphore, L!Store, L!Server, Level
  <1>2. /\ x \in LockItem /\ x.act = "lock" /\ x.lock = o
        /\ y \in LockItem /\ y.act = "close" /\ y.lock = o
        /\ z \in LockItem /\ z.act = "pass" /\ z.lock = L!Server
        /\ u \in LockItem /\ u.act = "unlock" /\ u.lock = o
    BY <1>1 DEF LockItem, L!Item
  <1>3. L!Close(c) = <<x>> \o t3
    BY CloseIs
  <1>4. y = L!Item("close", o) /\ z = L!Item("pass", L!Server) /\ u = L!Item("unlock", o)
    OBVIOUS
  <1> HIDE DEF o, x, y, z, u
  <1>5. /\ t1 \in Seq(LockItem) /\ InOrder(t1) /\ Held(t1) = {o} /\ Len(t1) = 1 /\ t1[1] = u
        /\ Plain(t1) /\ Fits(t1, {L!Semaphore})
    <2>1. Allowed(u, <<>>)
      BY <1>2, NothingLeft DEF Allowed
    <2>2. Len(t1) = 1 /\ t1[1] = u
      BY <1>2
    <2>3. t1 = <<u>>
      BY <1>2
    <2>4. Plain(t1) /\ Fits(t1, {L!Semaphore})
      BY <1>1, <1>2, <2>3, OneItem
    <2> QED
      BY <1>2, <2>1, <2>2, <2>4, NothingLeft, PutBefore
  <1> HIDE DEF t1
  <1>6. /\ t2 \in Seq(LockItem) /\ InOrder(t2) /\ Held(t2) = {o}
        /\ Plain(t2) /\ Fits(t2, {L!Semaphore})
    <2>1. Allowed(z, t1)
      BY <1>1, <1>2, <1>5 DEF Allowed, Below
    <2>2. <<z>> \in Seq(LockItem) /\ Plain(<<z>>) /\ Fits(<<z>>, {L!Semaphore})
      BY <1>1, <1>2, OneItem
    <2>3. Plain(<<z>> \o t1) /\ Fits(<<z>> \o t1, {L!Semaphore})
      BY <1>5, <2>2, ConcatPlain, ConcatFits
    <2> QED
      BY <1>2, <1>5, <2>1, <2>3, PutBefore
  <1>7. Len(t2) = 2 /\ t2[1] = z /\ t2[2] = u
    <2>1. /\ Len(t2) = Len(t1) + 1 /\ t2[1] = z
          /\ \A i \in 1..Len(t1) : t2[i + 1] = t1[i]
      BY <1>2, <1>5, ConsLock
    <2>2. t2[1 + 1] = t1[1]
      BY <1>5, <2>1
    <2> QED
      BY <1>5, <2>1, <2>2
  <1> HIDE DEF t2
  <1>8. /\ t3 \in Seq(LockItem) /\ InOrder(t3) /\ Held(t3) = {o}
        /\ Plain(t3) /\ Fits(t3, {L!Semaphore})
    <2>1. Allowed(y, t2)
      BY <1>2 DEF Allowed
    <2>2. <<y>> \in Seq(LockItem) /\ Plain(<<y>>) /\ Fits(<<y>>, {L!Semaphore})
      BY <1>1, <1>2, OneItem
    <2>3. Plain(<<y>> \o t2) /\ Fits(<<y>> \o t2, {L!Semaphore})
      BY <1>6, <2>2, ConcatPlain, ConcatFits
    <2> QED
      BY <1>2, <1>6, <2>1, <2>3, PutBefore
  <1>9. Len(t3) = 3 /\ t3[1] = y /\ t3[2] = z /\ t3[3] = u
    <2>1. /\ Len(t3) = Len(t2) + 1 /\ t3[1] = y
          /\ \A i \in 1..Len(t2) : t3[i + 1] = t2[i]
      BY <1>2, <1>6, ConsLock
    <2>2. t3[1 + 1] = t2[1] /\ t3[2 + 1] = t2[2]
      BY <1>7, <2>1
    <2> QED
      BY <1>7, <2>1, <2>2
  <1> HIDE DEF t3
  <1>10. /\ <<x>> \o t3 \in Seq(LockItem) /\ InOrder(<<x>> \o t3) /\ Held(<<x>> \o t3) = {}
         /\ Plain(<<x>> \o t3) /\ Fits(<<x>> \o t3, {L!Semaphore})
    <2>1. Allowed(x, t3)
      BY <1>1, <1>2, <1>4, <1>8, <1>9 DEF Allowed, Below
    <2>2. <<x>> \in Seq(LockItem) /\ Plain(<<x>>) /\ Fits(<<x>>, {L!Semaphore})
      BY <1>1, <1>2, OneItem, SMTT(30)
    <2>3. Plain(<<x>> \o t3) /\ Fits(<<x>> \o t3, {L!Semaphore})
      BY <1>8, <2>2, ConcatPlain, ConcatFits
    <2> QED
      BY <1>2, <1>8, <2>1, <2>3, PutBefore
  <1> QED
    BY <1>3, <1>10 DEF Complete

\* The store's lock around statements on the one connection to the database.
LEMMA HoldStore ==
    ASSUME NEW body, Complete(body), Fits(body, {L!Store})
    PROVE  Complete(L!Hold(L!Store, body))
  <1> DEFINE x == L!Item("lock", L!Store)
             y == L!Item("unlock", L!Store)
  <1>1. /\ L!Store \in L!Lock /\ L!Store[1] # "once" /\ L!Store # L!Semaphore
        /\ Level(L!Store) = 2 /\ Level(L!Semaphore) = 1
    BY DEF L!Lock, L!Store, L!Semaphore, Level
  <1>2. /\ x \in LockItem /\ x.act = "lock" /\ x.lock = L!Store
        /\ y \in LockItem /\ y.act = "unlock" /\ y.lock = L!Store
    BY <1>1 DEF LockItem, L!Item
  <1>3. L!Hold(L!Store, body) = <<x>> \o body \o <<y>>
    BY DEF L!Hold
  <1>4. /\ L!Hold(L!Store, body) \in Seq(LockItem) /\ InOrder(L!Hold(L!Store, body))
        /\ Held(L!Hold(L!Store, body)) = {}
    BY <1>1, HoldOrder DEF Complete
  <1> HIDE DEF x, y
  <1>5. /\ <<x>> \in Seq(LockItem) /\ Plain(<<x>>) /\ Fits(<<x>>, {L!Semaphore})
        /\ <<y>> \in Seq(LockItem) /\ Plain(<<y>>) /\ Fits(<<y>>, {L!Semaphore})
    BY <1>1, <1>2, OneItem
  <1>6. body \in Seq(LockItem) /\ Plain(body) /\ Fits(body, {L!Semaphore})
    BY DEF Complete
  <1>7. <<x>> \o body \in Seq(LockItem)
    BY <1>5, <1>6, ConcatItems
  <1>8. Plain(<<x>> \o body) /\ Fits(<<x>> \o body, {L!Semaphore})
    BY <1>5, <1>6, ConcatPlain, ConcatFits
  <1>9. Plain(<<x>> \o body \o <<y>>) /\ Fits(<<x>> \o body \o <<y>>, {L!Semaphore})
    BY <1>5, <1>7, <1>8, ConcatPlain, ConcatFits
  <1> QED
    BY <1>3, <1>4, <1>9 DEF Complete

\* The parts the operations are made of.
LEMMA PartsComplete ==
    /\ Complete(L!Pass(L!Server)) /\ Complete(L!Pass(L!Database))
    /\ Complete(L!Pass(L!Controller))
    /\ Complete(L!AllocateBlock) /\ Complete(L!PreparePayouts) /\ Complete(L!PruneShares)
    /\ Complete(L!ActivePayouts) /\ Complete(L!SetBlockState) /\ Complete(L!RoundWork)
    /\ \A c \in Conn : /\ Complete(L!State(c)) /\ Complete(L!Pass(<<"submitMu", c>>))
                       /\ Complete(L!Send(c)) /\ Complete(L!Close(c))
  <1>1. /\ L!Server \in L!Lock /\ L!Server # L!Semaphore
        /\ L!Database \in L!Lock /\ L!Database # L!Semaphore
        /\ L!Controller \in L!Lock /\ L!Controller # L!Semaphore
        /\ \A c \in Conn : /\ <<"state", c>> \in L!Lock /\ <<"state", c>> # L!Semaphore
                           /\ <<"submitMu", c>> \in L!Lock /\ <<"submitMu", c>> # L!Semaphore
    BY DEF L!Lock, L!Server, L!Database, L!Controller, L!Semaphore
  <1>2. /\ Complete(L!Pass(L!Server)) /\ Complete(L!Pass(L!Database))
        /\ Complete(L!Pass(L!Controller))
    BY <1>1, PassComplete
  <1>3. \A c \in Conn : Complete(L!State(c)) /\ Complete(L!Pass(<<"submitMu", c>>))
    BY <1>1, PassComplete DEF L!State
  <1> DEFINE one == L!Pass(L!Database)
             two == one \o one
  <1>4. Fits(one, {L!Store})
    <2>1. L!Database # L!Store /\ Level(L!Store) < Level(L!Database)
      BY DEF L!Database, L!Store, L!Semaphore, Level
    <2> QED
      BY <2>1 DEF L!Pass, L!Item, Fits, Below
  <1> HIDE DEF one
  <1>5. Complete(one)
    BY <1>2 DEF one
  <1>6. Complete(two) /\ Fits(two, {L!Store})
    <2>1. one \in Seq(LockItem)
      BY <1>5 DEF Complete
    <2> QED
      BY <1>4, <1>5, <2>1, CompleteConcat, ConcatFits
  <1>7. Complete(L!Hold(L!Store, one)) /\ Complete(L!Hold(L!Store, two))
    BY <1>4, <1>5, <1>6, HoldStore
  <1>8. /\ Complete(L!AllocateBlock) /\ Complete(L!PreparePayouts) /\ Complete(L!PruneShares)
    BY <1>7 DEF L!AllocateBlock, L!PreparePayouts, L!PruneShares, one, two
  <1>9. /\ Complete(L!ActivePayouts) /\ Complete(L!SetBlockState) /\ Complete(L!RoundWork)
    BY <1>6 DEF L!ActivePayouts, L!SetBlockState, L!RoundWork, one, two
  <1> QED
    BY <1>2, <1>3, <1>8, <1>9, SendComplete, CloseComplete

LEMMA PublishComplete ==
    \A c \in Conn : \A messages \in {1, 2} :
        Complete(L!Publish(c, messages)) /\ Complete(L!AssignTemplate(c))
  <1> SUFFICES ASSUME NEW c \in Conn, NEW messages \in {1, 2}
               PROVE  Complete(L!Publish(c, messages)) /\ Complete(L!AssignTemplate(c))
    OBVIOUS
  <1> DEFINE s == L!State(c)
             m == L!Pass(L!Server)
             w == L!Send(c)
  <1>1. L!Publish(c, 1) = s \o m \o s \o <<>> \o w /\ L!Publish(c, 2) = s \o m \o s \o w \o w
    BY DEF L!Publish
  <1>2. L!AssignTemplate(c) = m \o L!Publish(c, 2)
    BY DEF L!AssignTemplate
  <1>3. Complete(s) /\ Complete(m) /\ Complete(w)
    BY PartsComplete
  <1> HIDE DEF s, m, w
  <1>4. Complete(s \o m \o s)
    BY <1>3, CompleteConcat
  <1>5. s \o m \o s \o <<>> = s \o m \o s
    BY <1>4, ConcatSimple DEF Complete
  <1>6. Complete(s \o m \o s \o <<>> \o w)
    BY <1>3, <1>4, <1>5, CompleteConcat
  <1>7. Complete(s \o m \o s \o w \o w)
    BY <1>3, <1>4, CompleteConcat
  <1>8. Complete(L!Publish(c, 1)) /\ Complete(L!Publish(c, 2))
    BY <1>1, <1>6, <1>7
  <1> QED
    BY <1>2, <1>3, <1>8, CompleteConcat

LEMMA HandleComplete == \A c \in Conn : \A op \in L!Handle(c) : Complete(op)
  <1> SUFFICES ASSUME NEW c \in Conn, NEW op \in L!Handle(c) PROVE Complete(op)
    OBVIOUS
  <1> DEFINE looked == L!Pass(L!Server)
             noted == looked \o L!Pass(<<"submitMu", c>>)
             recorded == noted \o L!Pass(L!Database)
             credited == recorded \o L!State(c)
             w == L!Send(c)
             p == L!Publish(c, 2)
  <1>1. \/ op \in {looked \o w, noted \o w, recorded \o w, credited \o w,
                   credited \o w \o p, credited \o L!AllocateBlock \o w}
        \/ op \in {looked \o w, L!State(c) \o w \o L!AssignTemplate(c),
                   L!State(c) \o w \o p, w, L!Close(c)}
    BY DEF L!Handle, L!Submit
  <1>2. /\ Complete(looked) /\ Complete(w) /\ Complete(p) /\ Complete(L!AllocateBlock)
        /\ Complete(L!State(c)) /\ Complete(L!AssignTemplate(c)) /\ Complete(L!Close(c))
    BY PartsComplete, PublishComplete
  <1>3. Complete(noted)
    BY <1>2, PartsComplete, CompleteConcat
  <1> HIDE DEF noted
  <1>4. Complete(recorded)
    BY <1>3, PartsComplete, CompleteConcat
  <1> HIDE DEF recorded
  <1>5. Complete(credited)
    BY <1>2, <1>4, CompleteConcat
  <1> HIDE DEF looked, credited, w, p
  <1>6. /\ Complete(looked \o w) /\ Complete(noted \o w) /\ Complete(recorded \o w)
        /\ Complete(credited \o w) /\ Complete(credited \o L!AllocateBlock)
        /\ Complete(L!State(c) \o w)
    BY <1>2, <1>3, <1>4, <1>5, CompleteConcat
  <1>7. /\ Complete(credited \o w \o p) /\ Complete(credited \o L!AllocateBlock \o w)
        /\ Complete(L!State(c) \o w \o L!AssignTemplate(c)) /\ Complete(L!State(c) \o w \o p)
    BY <1>2, <1>6, CompleteConcat
  <1> QED
    BY <1>1, <1>2, <1>6, <1>7

\* What a goroutine that holds nothing may do.
Whole(s) == s \in Seq(LockItem) /\ InOrder(s) /\ Held(s) = {}

\* A new template: the workers are started and waited for, then the prune.
LEMMA SpawnOrder ==
    Whole(L!Pass(L!Server) \o <<L!Item("spawn", L!Server), L!Item("join", L!Server)>>
              \o L!PruneShares)
  <1> DEFINE p == L!Pass(L!Server)
             x == L!Item("spawn", L!Server)
             y == L!Item("join", L!Server)
             b == L!PruneShares
             t == <<y>> \o b
  <1>1. Complete(p) /\ Complete(b)
    BY PartsComplete
  <1>2. /\ x \in LockItem /\ x.act = "spawn" /\ y \in LockItem /\ y.act = "join"
    BY DEF LockItem, L!Item, L!Lock
  <1> HIDE DEF p, x, y, b
  <1>3. <<x, y>> = <<x>> \o <<y>> /\ <<x>> \in Seq(LockItem) /\ <<y>> \in Seq(LockItem)
    <2>1. <<x>> \in Seq(LockItem) /\ <<y>> \in Seq(LockItem) /\ <<x, y>> \in Seq(LockItem)
          /\ Len(<<x, y>>) = 2
      BY <1>2
    <2>2. <<x>> \o <<y>> \in Seq(LockItem) /\ Len(<<x>> \o <<y>>) = Len(<<y>>) + 1
          /\ (<<x>> \o <<y>>)[1] = x
          /\ \A i \in 1..Len(<<y>>) : (<<x>> \o <<y>>)[i + 1] = <<y>>[i]
      BY <1>2, <2>1, ConsLock
    <2>3. Len(<<y>>) = 1 /\ <<y>>[1] = y
      OBVIOUS
    <2>4. Len(<<x>> \o <<y>>) = 2 /\ (<<x>> \o <<y>>)[1] = x /\ (<<x>> \o <<y>>)[2] = y
      <3>1. (<<x>> \o <<y>>)[1 + 1] = <<y>>[1]
        BY <2>2, <2>3
      <3> QED
        BY <2>2, <2>3, <3>1
    <2>5. \A i \in 1..2 : <<x, y>>[i] = (<<x>> \o <<y>>)[i]
      BY <2>4
    <2>6. <<x, y>> = <<x>> \o <<y>>
      BY <2>1, <2>2, <2>4, <2>5, SeqEqual
    <2> QED
      BY <2>1, <2>6
  <1>4. p \o <<x, y>> \o b = p \o (<<x>> \o t)
    <2>1. p \in Seq(LockItem) /\ b \in Seq(LockItem) /\ <<x>> \o <<y>> \in Seq(LockItem)
      BY <1>1, <1>3, ConcatItems DEF Complete
    <2>2. p \o (<<x>> \o <<y>>) \o b = p \o ((<<x>> \o <<y>>) \o b)
      BY <2>1, ConcatSimple
    <2>3. (<<x>> \o <<y>>) \o b = <<x>> \o (<<y>> \o b)
      BY <1>3, <2>1, ConcatSimple
    <2> QED
      BY <1>3, <2>2, <2>3
  <1>5. t \in Seq(LockItem) /\ InOrder(t) /\ Held(t) = {} /\ Rest(t, 2) = b
        /\ Len(t) > 0 /\ t[1] = y
    <2>1. Allowed(y, b)
      BY <1>1, <1>2 DEF Allowed, Complete
    <2>2. b \in Seq(LockItem) /\ Len(b) \in Nat
      BY <1>1 DEF Complete
    <2>3. Len(t) = Len(b) + 1 /\ t[1] = y /\ Rest(t, 2) = b
      BY <1>2, <2>2, ConsIs
    <2>4. Len(t) > 0
      BY <2>2, <2>3
    <2>5. t \in Seq(LockItem) /\ InOrder(t) /\ Held(t) = {}
      BY <1>1, <1>2, <2>1, PutBefore DEF Complete
    <2> QED
      BY <2>3, <2>4, <2>5
  <1> HIDE DEF t
  <1>6. Whole(<<x>> \o t)
    <2>1. Allowed(x, t)
      BY <1>1, <1>2, <1>5 DEF Allowed, Complete
    <2> QED
      BY <1>2, <1>5, <2>1, PutBefore DEF Whole
  <1>7. Whole(p \o (<<x>> \o t))
    <2>1. Fits(p, {})
      BY <1>1, FitsNothing DEF Complete
    <2> DEFINE u == <<x>> \o t
    <2>2. u \in Seq(LockItem) /\ InOrder(u) /\ Held(u) = {}
      BY <1>6 DEF Whole
    <2>3. p \in Seq(LockItem) /\ InOrder(p) /\ Held(p) = {} /\ Plain(p)
      BY <1>1 DEF Complete
    <2> HIDE DEF u
    <2>4. p \o u \in Seq(LockItem) /\ InOrder(p \o u) /\ Held(p \o u) = Held(p) \cup Held(u)
      BY <2>1, <2>2, <2>3, ConcatOrder
    <2>5. Held(p \o u) = {}
      BY <2>2, <2>3, <2>4
    <2> QED
      BY <2>4, <2>5 DEF Whole, u
  <1> QED
    BY <1>4, <1>7 DEF p, x, y, b

\* What a worker of templateLoop does.
LEMMA WorkerOrder ==
    ASSUME NEW c \in Conn
    PROVE  LET op == L!Hold(L!Semaphore, L!AssignTemplate(c))
           IN Whole(op) /\ Plain(op) /\ ~(op = <<>>)
  <1> DEFINE body == L!AssignTemplate(c)
             x == L!Item("lock", L!Semaphore)
             y == L!Item("unlock", L!Semaphore)
  <1>1. Complete(body)
    BY PublishComplete
  <1>2. L!Semaphore \in L!Lock /\ L!Semaphore[1] # "once"
    BY DEF L!Semaphore, L!Lock
  <1>3. L!Hold(L!Semaphore, body) = <<x>> \o body \o <<y>>
    BY DEF L!Hold
  <1>4. /\ x \in LockItem /\ x.act = "lock" /\ y \in LockItem /\ y.act = "unlock"
    BY <1>2 DEF LockItem, L!Item
  <1> HIDE DEF body
  <1>5. Whole(L!Hold(L!Semaphore, body))
    BY <1>1, <1>2, HoldOrder DEF Complete, Whole
  <1> HIDE DEF x, y
  <1>6. /\ <<x>> \in Seq(LockItem) /\ Plain(<<x>>) /\ <<y>> \in Seq(LockItem) /\ Plain(<<y>>)
        /\ Len(<<x>>) = 1 /\ Len(<<y>>) = 1
    BY <1>4 DEF Plain
  <1>7. body \in Seq(LockItem) /\ Plain(body)
    BY <1>1 DEF Complete
  <1>8. <<x>> \o body \in Seq(LockItem) /\ Plain(<<x>> \o body)
    BY <1>6, <1>7, ConcatPlain, ConcatItems
  <1>9. Plain(<<x>> \o body \o <<y>>)
    BY <1>6, <1>8, ConcatPlain
  <1>10. Len(<<x>> \o body \o <<y>>) = Len(<<x>> \o body) + 1 /\ Len(<<x>> \o body) \in Nat
    BY <1>6, <1>8, ConcatProperties
  <1>11. ~(<<x>> \o body \o <<y>> = <<>>)
    BY <1>10
  <1> QED
    BY <1>3, <1>5, <1>9, <1>11 DEF body

\* Every operation of every goroutine, all but one without workers.
LEMMA OperationOrder ==
    ASSUME NEW g \in L!Goroutine, NEW op \in L!Operations(g)
    PROVE  /\ Whole(op) /\ L!Role(g) # "worker"
           /\ L!Role(g) # "templates" => Plain(op)
  <1> DEFINE server == L!Pass(L!Server)
             database == L!Pass(L!Database)
             controller == L!Pass(L!Controller)
  <1>1. ASSUME Complete(op) PROVE Whole(op) /\ Plain(op)
    BY <1>1 DEF Complete, Whole
  <1>2. Complete(server) /\ Complete(database) /\ Complete(controller)
    BY PartsComplete
  <1>3. CASE L!Role(g) = "handler"
    <2>1. op \in L!Handle(L!Own(g)) /\ L!Own(g) \in Conn
      BY <1>3 DEF L!Operations, L!Goroutine, L!Role, L!Own
    <2> QED
      BY <1>1, <1>3, <2>1, HandleComplete
  <1>4. CASE L!Role(g) = "templates"
    <2>1. op \in L!TemplateLoop
      BY <1>4 DEF L!Operations
    <2>2. CASE \E c \in Conn : op = server \o L!State(c) \/ op = server \o L!Close(c)
      <3>1. Complete(op)
        BY <1>2, <2>2, PartsComplete, CompleteConcat
      <3> QED
        BY <1>1, <1>4, <3>1
    <2>3. CASE op = server \o L!PruneShares
      <3>1. Complete(op)
        BY <1>2, <2>3, PartsComplete, CompleteConcat
      <3> QED
        BY <1>1, <1>4, <3>1
    <2>4. CASE op = server \o <<L!Item("spawn", L!Server), L!Item("join", L!Server)>>
                        \o L!PruneShares
      BY <1>4, <2>4, SpawnOrder
    <2> QED
      BY <2>1, <2>2, <2>3, <2>4 DEF L!TemplateLoop
  <1>5. CASE L!Role(g) = "refresh"
    <2>1. PICK c \in Conn, messages \in {1, 2} :
              op = server \o L!State(c) \o L!Publish(c, messages)
      BY <1>5 DEF L!Operations, L!RefreshLoop
    <2>2. Complete(server \o L!State(c))
      BY <1>2, PartsComplete, CompleteConcat
    <2>3. Complete(op)
      BY <2>1, <2>2, PublishComplete, CompleteConcat
    <2> QED
      BY <1>1, <1>5, <2>3
  <1>6. CASE L!Role(g) = "controller"
    <2>1. op \in {controller \o database \o L!SetBlockState,
                  controller \o L!ActivePayouts \o L!PreparePayouts \o database \o controller}
      BY <1>6 DEF L!Operations, L!ControllerPass
    <2> HIDE DEF controller, database
    <2>2. Complete(controller \o database) /\ Complete(controller \o L!ActivePayouts)
      BY <1>2, PartsComplete, CompleteConcat
    <2>3. /\ Complete(controller \o database \o L!SetBlockState)
          /\ Complete(controller \o L!ActivePayouts \o L!PreparePayouts)
      BY <2>2, PartsComplete, CompleteConcat
    <2>4. Complete(controller \o L!ActivePayouts \o L!PreparePayouts \o database)
      BY <1>2, <2>3, CompleteConcat
    <2>5. Complete(controller \o L!ActivePayouts \o L!PreparePayouts \o database \o controller)
      BY <1>2, <2>4, CompleteConcat
    <2> QED
      BY <1>1, <1>6, <2>1, <2>3, <2>5
  <1>7. CASE L!Role(g) = "web"
    <2>1. op \in {server \o controller,
                  server \o controller \o database \o L!RoundWork \o database,
                  database \o controller}
      BY <1>7 DEF L!Operations, L!Request
    <2> HIDE DEF server, controller, database
    <2>2. Complete(server \o controller) /\ Complete(database \o controller)
      BY <1>2, CompleteConcat
    <2>3. Complete(server \o controller \o database)
      BY <1>2, <2>2, CompleteConcat
    <2>4. Complete(server \o controller \o database \o L!RoundWork)
      BY <2>3, PartsComplete, CompleteConcat
    <2>5. Complete(server \o controller \o database \o L!RoundWork \o database)
      BY <1>2, <2>4, CompleteConcat
    <2> QED
      BY <1>1, <1>7, <2>1, <2>2, <2>5
  <1>8. L!Role(g) \in {"handler", "worker", "templates", "refresh", "controller", "web"}
    BY DEF L!Goroutine, L!Role
  <1>9. L!Role(g) # "worker"
    BY DEF L!Operations
  <1> QED
    BY <1>3, <1>4, <1>5, <1>6, <1>7, <1>8, <1>9

\* The first item of an operation and what is left after it.
LEMMA NextItem ==
    ASSUME NEW s \in Seq(LockItem), InOrder(s), s # <<>>
    PROVE  LET x == s[1]
               t == Rest(s, 2)
           IN /\ x \in LockItem /\ t \in Seq(LockItem) /\ InOrder(t) /\ Allowed(x, t)
              /\ Head(s) = x /\ Tail(s) = t
              /\ Held(s) = IF x.act = "unlock" THEN Held(t) \cup {x.lock}
                           ELSE IF x.act = "lock" THEN Held(t) \ {x.lock} ELSE Held(t)
              /\ Plain(s) => Plain(t) /\ x.act \notin {"spawn", "join"}
              /\ Len(s) = Len(t) + 1 /\ \A i \in 1..Len(t) : s[i + 1] = t[i]
              /\ \A i \in 1..(Len(t) + 1) : Rest(s, i + 1) = Rest(t, i)
  <1> DEFINE x == s[1]
             t == Rest(s, 2)
  <1>1. /\ s = <<x>> \o t /\ x \in LockItem /\ t \in Seq(LockItem)
        /\ Head(s) = x /\ Tail(s) = t
    BY Uncons
  <1> HIDE DEF x, t
  <1>2. /\ Len(s) = Len(t) + 1 /\ \A i \in 1..Len(t) : s[i + 1] = t[i]
        /\ \A i \in 1..(Len(t) + 1) : Rest(s, i + 1) = Rest(t, i)
    BY <1>1, ConsIs
  <1>3. InOrder(t) /\ Allowed(x, t)
    BY <1>1, OrderNext
  <1>4. Held(s) = IF x.act = "unlock" THEN Held(t) \cup {x.lock}
                  ELSE IF x.act = "lock" THEN Held(t) \ {x.lock} ELSE Held(t)
    BY <1>1, <1>3, PutBefore
  <1>5. ASSUME Plain(s) PROVE Plain(t) /\ x.act \notin {"spawn", "join"}
    <2>1. Len(t) \in Nat
      BY <1>1
    <2>2. \A i \in 1..Len(t) : i + 1 \in 1..Len(s)
      BY <1>2, <2>1
    <2>3. Plain(t)
      BY <1>2, <1>5, <2>2 DEF Plain
    <2>4. 1 \in 1..Len(s)
      BY <1>2, <2>1
    <2> QED
      BY <1>5, <2>3, <2>4 DEF Plain, x
  <1> QED
    BY <1>1, <1>2, <1>3, <1>4, <1>5 DEF x, t

Templates == <<"templates", 0>>

\* The inductive invariant: what is left of an operation is in order and gives
\* back what the goroutine owns; only templateLoop has workers, and while one is
\* at work it waits for them.
LocksInv ==
    /\ todoLocks \in [L!Goroutine -> Seq(LockItem)]
    /\ owner \in [L!Lock -> L!Goroutine \cup {L!Free}]
    /\ \A g \in L!Goroutine :
          /\ InOrder(todoLocks[g])
          /\ Held(todoLocks[g]) = {l \in L!Lock : owner[l] = g}
          /\ L!Role(g) # "templates" => Plain(todoLocks[g])
          /\ L!Role(g) = "worker" /\ ~L!Idle(g) =>
                /\ ~L!Idle(Templates) /\ todoLocks[Templates][1].act = "join"
                /\ Plain(Rest(todoLocks[Templates], 2))

LEMMA LockNames ==
    /\ L!Free \notin L!Goroutine
    /\ Templates \in L!Goroutine /\ L!Role(Templates) = "templates"
    /\ \A g \in L!Goroutine : L!Role(g) = "templates" => g = Templates
    /\ \A g \in L!Goroutine : L!Role(g) = "worker" => L!Own(g) \in Conn
  BY DEF L!Free, L!Goroutine, L!Role, L!Own, Templates

\* While templateLoop does not wait for them, no worker is at work.
LEMMA NoWorkers ==
    ASSUME LocksInv, L!Idle(Templates) \/ todoLocks[Templates][1].act # "join"
    PROVE  \A h \in L!Goroutine : L!Role(h) = "worker" => L!Idle(h)
  BY DEF LocksInv

LEMMA LocksInit == L!Init => LocksInv
  <1> SUFFICES ASSUME L!Init PROVE LocksInv
    OBVIOUS
  <1>1. \A g \in L!Goroutine : todoLocks[g] = <<>>
    BY DEF L!Init
  <1>2. todoLocks \in [L!Goroutine -> Seq(LockItem)] /\ owner \in [L!Lock -> {L!Free}]
    BY NothingLeft DEF L!Init
  <1>3. Plain(<<>>)
    BY DEF Plain
  <1>4. \A g \in L!Goroutine : {l \in L!Lock : owner[l] = g} = {}
    BY <1>2, LockNames
  <1> QED
    BY <1>1, <1>2, <1>3, <1>4, NothingLeft DEF LocksInv, L!Idle

\* One goroutine has something else to do, and owns what that gives back.
LEMMA OneMoves ==
    ASSUME LocksInv, NEW g \in L!Goroutine, NEW s \in Seq(LockItem), InOrder(s),
           todoLocks' = [todoLocks EXCEPT ![g] = s],
           owner' \in [L!Lock -> L!Goroutine \cup {L!Free}],
           {l \in L!Lock : owner'[l] = g} = Held(s),
           \A h \in L!Goroutine : \A l \in L!Lock : h # g => (owner'[l] = h <=> owner[l] = h),
           L!Role(g) # "templates" => Plain(s),
           L!Role(g) = "worker" => ~L!Idle(g),
           g = Templates => \A h \in L!Goroutine : L!Role(h) = "worker" => L!Idle(h)
    PROVE  LocksInv'
  <1>1. /\ todoLocks' \in [L!Goroutine -> Seq(LockItem)] /\ todoLocks'[g] = s
        /\ \A h \in L!Goroutine : h # g => todoLocks'[h] = todoLocks[h]
    BY DEF LocksInv
  <1>2. ASSUME NEW h \in L!Goroutine
        PROVE  /\ InOrder(todoLocks'[h])
               /\ Held(todoLocks'[h]) = {l \in L!Lock : owner'[l] = h}
               /\ L!Role(h) # "templates" => Plain(todoLocks'[h])
    <2>1. CASE h = g
      BY <1>1, <2>1
    <2>2. CASE h # g
      <3>1. {l \in L!Lock : owner'[l] = h} = {l \in L!Lock : owner[l] = h}
        BY <2>2
      <3> QED
        BY <1>1, <2>2, <3>1 DEF LocksInv
    <2> QED
      BY <2>1, <2>2
  <1>3. ASSUME NEW h \in L!Goroutine, L!Role(h) = "worker", todoLocks'[h] # <<>>
        PROVE  /\ todoLocks'[Templates] # <<>> /\ todoLocks'[Templates][1].act = "join"
               /\ Plain(Rest(todoLocks'[Templates], 2))
    <2>1. todoLocks[h] # <<>>
      BY <1>1, <1>3 DEF L!Idle
    <2>2. g # Templates
      BY <1>3, <2>1 DEF L!Idle
    <2> QED
      BY <1>1, <1>3, <2>1, <2>2, LockNames DEF LocksInv, L!Idle
  <1> QED
    BY <1>1, <1>2, <1>3 DEF LocksInv, L!Idle

LEMMA LocksStart == ASSUME LocksInv, NEW g \in L!Goroutine, L!Start(g) PROVE LocksInv'
  <1>1. PICK op \in L!Operations(g) : todoLocks' = [todoLocks EXCEPT ![g] = op]
    BY DEF L!Start
  <1>2. todoLocks[g] = <<>> /\ owner' = owner
    BY DEF L!Start, L!Idle
  <1>3. /\ op \in Seq(LockItem) /\ InOrder(op) /\ Held(op) = {} /\ L!Role(g) # "worker"
        /\ L!Role(g) # "templates" => Plain(op)
    BY OperationOrder DEF Whole
  <1>4. {l \in L!Lock : owner'[l] = g} = Held(op)
    <2>1. Held(todoLocks[g]) = {l \in L!Lock : owner[l] = g}
      BY DEF LocksInv
    <2> QED
      BY <1>2, <1>3, <2>1, NothingLeft
  <1>5. g = Templates => \A h \in L!Goroutine : L!Role(h) = "worker" => L!Idle(h)
    BY <1>2, NoWorkers DEF L!Idle
  <1>6. owner' \in [L!Lock -> L!Goroutine \cup {L!Free}]
    BY <1>2 DEF LocksInv
  <1>7. \A h \in L!Goroutine : \A l \in L!Lock : h # g => (owner'[l] = h <=> owner[l] = h)
    BY <1>2
  <1> QED
    BY <1>1, <1>3, <1>4, <1>5, <1>6, <1>7, OneMoves

\* What is known of a goroutine in an operation.
LEMMA AtItem ==
    ASSUME LocksInv, NEW g \in L!Goroutine, todoLocks[g] # <<>>
    PROVE  LET s == todoLocks[g]
               x == s[1]
               t == Rest(s, 2)
           IN /\ s \in Seq(LockItem) /\ InOrder(s)
              /\ x \in LockItem /\ t \in Seq(LockItem) /\ InOrder(t) /\ Allowed(x, t)
              /\ Head(s) = x /\ Tail(s) = t
              /\ {l \in L!Lock : owner[l] = g} =
                    IF x.act = "unlock" THEN Held(t) \cup {x.lock}
                    ELSE IF x.act = "lock" THEN Held(t) \ {x.lock} ELSE Held(t)
              /\ L!Role(g) # "templates" => Plain(t) /\ x.act \notin {"spawn", "join"}
              /\ g = Templates /\ x.act # "join" =>
                    \A h \in L!Goroutine : L!Role(h) = "worker" => L!Idle(h)
  <1> DEFINE s == todoLocks[g]
  <1>1. /\ s \in Seq(LockItem) /\ InOrder(s) /\ s # <<>>
        /\ Held(s) = {l \in L!Lock : owner[l] = g}
        /\ L!Role(g) # "templates" => Plain(s)
    BY DEF LocksInv
  <1>2. g = Templates /\ s[1].act # "join" =>
            \A h \in L!Goroutine : L!Role(h) = "worker" => L!Idle(h)
    BY NoWorkers
  <1> HIDE DEF s
  <1>3. LET x == s[1]
            t == Rest(s, 2)
        IN /\ x \in LockItem /\ t \in Seq(LockItem) /\ InOrder(t) /\ Allowed(x, t)
           /\ Head(s) = x /\ Tail(s) = t
           /\ Held(s) = IF x.act = "unlock" THEN Held(t) \cup {x.lock}
                        ELSE IF x.act = "lock" THEN Held(t) \ {x.lock} ELSE Held(t)
           /\ Plain(s) => Plain(t) /\ x.act \notin {"spawn", "join"}
    BY <1>1, NextItem
  <1> QED
    BY <1>1, <1>2, <1>3 DEF s

\* Steps that leave the locks to their owners.
LEMMA LocksPass ==
    ASSUME LocksInv, NEW g \in L!Goroutine,
           \/ L!PassThrough(g) \/ L!Written(g) \/ L!CloseConn(g) \/ L!Join(g)
    PROVE  LocksInv'
  <1> DEFINE s == todoLocks[g]
             x == s[1]
             t == Rest(s, 2)
  <1>1. /\ s # <<>> /\ x.act = Head(s).act
        /\ Head(s).act \in {"pass", "write", "close", "join"}
        /\ Head(s).act = "join" => \A h \in L!Goroutine : L!Role(h) = "worker" => L!Idle(h)
        /\ todoLocks' = [todoLocks EXCEPT ![g] = Tail(s)] /\ owner' = owner
    <2>1. s # <<>>
      BY DEF L!PassThrough, L!Written, L!CloseConn, L!Join, L!At, L!Idle
    <2>2. Head(s) = x
      BY <2>1, AtItem
    <2> QED
      BY <2>1, <2>2 DEF L!PassThrough, L!Written, L!CloseConn, L!Join, L!At, L!Idle, L!Done
  <1>2. /\ t \in Seq(LockItem) /\ InOrder(t) /\ Tail(s) = t
        /\ L!Role(g) # "templates" => Plain(t)
        /\ g = Templates /\ x.act # "join" =>
              \A h \in L!Goroutine : L!Role(h) = "worker" => L!Idle(h)
    BY <1>1, AtItem
  <1>3. {l \in L!Lock : owner[l] = g} = Held(t)
    BY <1>1, AtItem
  <1>4. /\ {l \in L!Lock : owner'[l] = g} = Held(t)
        /\ owner' \in [L!Lock -> L!Goroutine \cup {L!Free}]
        /\ \A h \in L!Goroutine : \A l \in L!Lock : h # g => (owner'[l] = h <=> owner[l] = h)
    BY <1>1, <1>3 DEF LocksInv
  <1>5. L!Role(g) = "worker" => ~L!Idle(g)
    BY <1>1 DEF L!Idle
  <1>6. g = Templates => \A h \in L!Goroutine : L!Role(h) = "worker" => L!Idle(h)
    BY <1>1, <1>2
  <1>7. todoLocks' = [todoLocks EXCEPT ![g] = t]
    BY <1>1, <1>2
  <1> HIDE DEF s, x, t
  <1> QED
    BY <1>2, <1>4, <1>5, <1>6, <1>7, OneMoves

LEMMA LocksTake == ASSUME LocksInv, NEW g \in L!Goroutine, L!Take(g) PROVE LocksInv'
  <1> DEFINE s == todoLocks[g]
             x == s[1]
             t == Rest(s, 2)
  <1>1. s # <<>>
    BY DEF L!Take, L!At, L!Idle
  <1>2. /\ x \in LockItem /\ t \in Seq(LockItem) /\ InOrder(t) /\ Allowed(x, t)
        /\ Head(s) = x /\ Tail(s) = t
        /\ {l \in L!Lock : owner[l] = g} =
              IF x.act = "unlock" THEN Held(t) \cup {x.lock}
              ELSE IF x.act = "lock" THEN Held(t) \ {x.lock} ELSE Held(t)
        /\ L!Role(g) # "templates" => Plain(t)
        /\ g = Templates /\ x.act # "join" =>
              \A h \in L!Goroutine : L!Role(h) = "worker" => L!Idle(h)
    BY <1>1, AtItem
  <1>3. /\ x.act = "lock" /\ owner[x.lock] = L!Free
        /\ owner' = [owner EXCEPT ![x.lock] = g]
        /\ todoLocks' = [todoLocks EXCEPT ![g] = t]
    BY <1>2 DEF L!Take, L!At, L!Wanted, L!Done
  <1>4. owner \in [L!Lock -> L!Goroutine \cup {L!Free}] /\ x.lock \in L!Lock
    BY <1>2 DEF LocksInv, LockItem
  <1> HIDE DEF s, x, t
  <1>5. x.lock \in Held(t) /\ Held(t) \subseteq L!Lock
    BY <1>2, <1>3 DEF Allowed, Held
  <1>6. owner' \in [L!Lock -> L!Goroutine \cup {L!Free}]
    BY <1>3, <1>4
  <1>7. {l \in L!Lock : owner'[l] = g} = Held(t)
    <2>1. \A l \in L!Lock : owner'[l] = g <=> l = x.lock \/ owner[l] = g
      BY <1>3, <1>4
    <2>2. \A l \in L!Lock : owner[l] = g <=> l \in Held(t) /\ l # x.lock
      BY <1>2, <1>3, <1>5
    <2> QED
      BY <1>5, <2>1, <2>2
  <1>8. \A h \in L!Goroutine : \A l \in L!Lock : h # g => (owner'[l] = h <=> owner[l] = h)
    BY <1>3, <1>4, LockNames
  <1>9. L!Role(g) = "worker" => ~L!Idle(g)
    BY <1>1 DEF L!Idle, s
  <1>10. g = Templates => \A h \in L!Goroutine : L!Role(h) = "worker" => L!Idle(h)
    BY <1>2, <1>3
  <1> QED
    BY <1>2, <1>3, <1>6, <1>7, <1>8, <1>9, <1>10, OneMoves

LEMMA LocksRelease == ASSUME LocksInv, NEW g \in L!Goroutine, L!Release(g) PROVE LocksInv'
  <1> DEFINE s == todoLocks[g]
             x == s[1]
             t == Rest(s, 2)
  <1>1. s # <<>>
    BY DEF L!Release, L!At, L!Idle
  <1>2. /\ x \in LockItem /\ t \in Seq(LockItem) /\ InOrder(t) /\ Allowed(x, t)
        /\ Head(s) = x /\ Tail(s) = t
        /\ {l \in L!Lock : owner[l] = g} =
              IF x.act = "unlock" THEN Held(t) \cup {x.lock}
              ELSE IF x.act = "lock" THEN Held(t) \ {x.lock} ELSE Held(t)
        /\ L!Role(g) # "templates" => Plain(t)
        /\ g = Templates /\ x.act # "join" =>
              \A h \in L!Goroutine : L!Role(h) = "worker" => L!Idle(h)
    BY <1>1, AtItem
  <1>3. /\ x.act = "unlock"
        /\ owner' = [owner EXCEPT ![x.lock] = L!Free]
        /\ todoLocks' = [todoLocks EXCEPT ![g] = t]
    BY <1>2 DEF L!Release, L!At, L!Wanted, L!Done
  <1>4. owner \in [L!Lock -> L!Goroutine \cup {L!Free}] /\ x.lock \in L!Lock
    BY <1>2 DEF LocksInv, LockItem
  <1> HIDE DEF s, x, t
  <1>5. x.lock \notin Held(t) /\ Held(t) \subseteq L!Lock /\ owner[x.lock] = g
    BY <1>2, <1>3, <1>4 DEF Allowed, Held
  <1>6. owner' \in [L!Lock -> L!Goroutine \cup {L!Free}]
    BY <1>3, <1>4
  <1>7. {l \in L!Lock : owner'[l] = g} = Held(t)
    <2>1. \A l \in L!Lock : owner'[l] = g <=> l # x.lock /\ owner[l] = g
      BY <1>3, <1>4, LockNames
    <2>2. \A l \in L!Lock : owner[l] = g <=> l \in Held(t) \/ l = x.lock
      BY <1>2, <1>3
    <2> QED
      BY <1>5, <2>1, <2>2
  <1>8. \A h \in L!Goroutine : \A l \in L!Lock : h # g => (owner'[l] = h <=> owner[l] = h)
    BY <1>3, <1>4, <1>5, LockNames
  <1>9. L!Role(g) = "worker" => ~L!Idle(g)
    BY <1>1 DEF L!Idle, s
  <1>10. g = Templates => \A h \in L!Goroutine : L!Role(h) = "worker" => L!Idle(h)
    BY <1>2, <1>3
  <1> QED
    BY <1>2, <1>3, <1>6, <1>7, <1>8, <1>9, <1>10, OneMoves

\* close a second time: its four items together change nothing.
LEMMA AfterClose ==
    ASSUME NEW s \in Seq(LockItem), InOrder(s), s # <<>>,
           s[1].act = "lock", s[1].lock[1] = "once"
    PROVE  /\ Rest(s, 5) \in Seq(LockItem) /\ InOrder(Rest(s, 5))
           /\ Held(Rest(s, 5)) = Held(s) /\ (Plain(s) => Plain(Rest(s, 5)))
  <1> DEFINE o == s[1].lock
             t1 == Rest(s, 2)
             t2 == Rest(t1, 2)
             t3 == Rest(t2, 2)
             t4 == Rest(t3, 2)
  <1>1. /\ t1 \in Seq(LockItem) /\ InOrder(t1) /\ Allowed(s[1], t1)
        /\ Held(s) = Held(t1) \ {o} /\ (Plain(s) => Plain(t1))
        /\ \A i \in 1..(Len(t1) + 1) : Rest(s, i + 1) = Rest(t1, i)
    BY NextItem
  <1>2. /\ Len(t1) > 2 /\ t1[1] = L!Item("close", o) /\ t1[2] = L!Item("pass", L!Server)
        /\ t1[3] = L!Item("unlock", o) /\ Len(t1) \in Nat
    BY <1>1 DEF Allowed
  <1>3. t1[1].act = "close" /\ t1[2].act = "pass" /\ t1[3].act = "unlock" /\ t1[3].lock = o
    BY <1>2 DEF L!Item
  <1> HIDE DEF o, t1
  <1>4. t1 # <<>>
    BY <1>2
  <1>5. /\ t2 \in Seq(LockItem) /\ InOrder(t2) /\ Held(t1) = Held(t2)
        /\ (Plain(t1) => Plain(t2)) /\ Len(t1) = Len(t2) + 1
        /\ \A i \in 1..Len(t2) : t1[i + 1] = t2[i]
        /\ \A i \in 1..(Len(t2) + 1) : Rest(t1, i + 1) = Rest(t2, i)
    BY <1>1, <1>3, <1>4, NextItem
  <1> HIDE DEF t2
  <1>6. Len(t2) \in Nat /\ Len(t2) > 1 /\ t2 # <<>>
    BY <1>2, <1>5
  <1>7. t2[1] = t1[1 + 1] /\ t2[2] = t1[2 + 1]
    BY <1>5, <1>6
  <1>8. /\ t3 \in Seq(LockItem) /\ InOrder(t3) /\ Held(t2) = Held(t3)
        /\ (Plain(t2) => Plain(t3)) /\ Len(t2) = Len(t3) + 1
        /\ \A i \in 1..Len(t3) : t2[i + 1] = t3[i]
        /\ \A i \in 1..(Len(t3) + 1) : Rest(t2, i + 1) = Rest(t3, i)
    <2>1. t2[1].act = "pass"
      BY <1>3, <1>7
    <2> QED
      BY <1>5, <1>6, <2>1, NextItem
  <1> HIDE DEF t3
  <1>9. Len(t3) \in Nat /\ Len(t3) > 0 /\ t3 # <<>>
    BY <1>6, <1>8
  <1>10. t3[1] = t2[1 + 1]
    BY <1>8, <1>9
  <1>11. /\ t4 \in Seq(LockItem) /\ InOrder(t4) /\ Held(t3) = Held(t4) \cup {o}
         /\ o \notin Held(t4) /\ (Plain(t3) => Plain(t4))
    <2>1. t3[1].act = "unlock" /\ t3[1].lock = o
      BY <1>3, <1>7, <1>10
    <2>2. /\ t4 \in Seq(LockItem) /\ InOrder(t4) /\ Held(t3) = Held(t4) \cup {o}
          /\ Allowed(t3[1], t4) /\ (Plain(t3) => Plain(t4))
      BY <1>8, <1>9, <2>1, NextItem
    <2> QED
      BY <2>1, <2>2 DEF Allowed
  <1>12. Rest(s, 5) = t4
    <2>1. Rest(s, 4 + 1) = Rest(t1, 4)
      BY <1>1, <1>2
    <2>2. Rest(t1, 3 + 1) = Rest(t2, 3)
      BY <1>5, <1>6
    <2>3. Rest(t2, 2 + 1) = Rest(t3, 2)
      BY <1>8, <1>9
    <2> QED
      BY <2>1, <2>2, <2>3
  <1> QED
    BY <1>1, <1>5, <1>8, <1>11, <1>12

LEMMA LocksCloseAgain == ASSUME LocksInv, NEW g \in L!Goroutine, L!CloseAgain(g) PROVE LocksInv'
  <1> DEFINE s == todoLocks[g]
             r == Rest(s, 5)
  <1>1. s # <<>> /\ owner' = owner
    BY DEF L!CloseAgain, L!At, L!Idle
  <1>2. /\ s \in Seq(LockItem) /\ InOrder(s) /\ Head(s) = s[1] /\ s[1] \in LockItem
        /\ g = Templates /\ s[1].act # "join" =>
              \A h \in L!Goroutine : L!Role(h) = "worker" => L!Idle(h)
    BY <1>1, AtItem
  <1>3. /\ s[1].act = "lock" /\ s[1].lock[1] = "once"
        /\ todoLocks' = [todoLocks EXCEPT ![g] =
              SubSeq(s, Len(L!Close(s[1].lock[2])) + 1, Len(s))]
    BY <1>2 DEF L!CloseAgain, L!At, L!Wanted, LocksInv
  <1>4. s[1].lock[2] \in Conn
    <2>1. s[1].lock \in L!Lock
      BY <1>2 DEF LockItem
    <2> QED
      BY <1>3, <2>1 DEF L!Lock, L!Server, L!Store, L!Database, L!Controller, L!Semaphore
  <1>5. todoLocks' = [todoLocks EXCEPT ![g] = r]
    <2>1. \A c \in Conn : Len(L!Close(c)) = 4
      BY CloseIs
    <2> DEFINE c == s[1].lock[2]
    <2>2. c \in Conn
      BY <1>4
    <2>3. todoLocks' = [todoLocks EXCEPT ![g] = SubSeq(s, Len(L!Close(c)) + 1, Len(s))]
      BY <1>3
    <2> HIDE DEF c, s
    <2>4. Len(L!Close(c)) = 4
      BY <2>1, <2>2
    <2>5. Len(L!Close(c)) + 1 = 5
      BY <2>4
    <2> QED
      BY <2>3, <2>5 DEF Rest
  <1>6. /\ Held(s) = {l \in L!Lock : owner[l] = g}
        /\ L!Role(g) # "templates" => Plain(s)
        /\ owner \in [L!Lock -> L!Goroutine \cup {L!Free}]
    BY DEF LocksInv
  <1>7. L!Role(g) = "worker" => ~L!Idle(g)
    BY <1>1 DEF L!Idle
  <1> HIDE DEF s
  <1>8. r \in Seq(LockItem) /\ InOrder(r) /\ Held(r) = Held(s) /\ (Plain(s) => Plain(r))
    BY <1>1, <1>2, <1>3, AfterClose
  <1> HIDE DEF r
  <1>9. /\ {l \in L!Lock : owner'[l] = g} = Held(r)
        /\ owner' \in [L!Lock -> L!Goroutine \cup {L!Free}]
        /\ \A h \in L!Goroutine : \A l \in L!Lock : h # g => (owner'[l] = h <=> owner[l] = h)
    BY <1>1, <1>6, <1>8
  <1>10. g = Templates => \A h \in L!Goroutine : L!Role(h) = "worker" => L!Idle(h)
    BY <1>2, <1>3
  <1> QED
    BY <1>5, <1>6, <1>7, <1>8, <1>9, <1>10, OneMoves

\* A send that is skipped: its three items together change nothing.
LEMMA AfterSend ==
    ASSUME NEW c \in Conn, NEW s \in Seq(LockItem), InOrder(s), L!IsPrefix(L!Send(c), s)
    PROVE  /\ Rest(s, 4) \in Seq(LockItem) /\ InOrder(Rest(s, 4))
           /\ Held(Rest(s, 4)) = Held(s) /\ (Plain(s) => Plain(Rest(s, 4)))
  <1> DEFINE w == <<"write", c>>
             p == L!Send(c)
             t1 == Rest(s, 2)
             t2 == Rest(t1, 2)
             t3 == Rest(t2, 2)
  <1>1. /\ p \in Seq(LockItem) /\ Len(p) = 3 /\ p[1] = L!Item("lock", w)
        /\ p[2] = L!Item("write", w) /\ p[3] = L!Item("unlock", w)
    BY SendIs
  <1>2. /\ p[1].act = "lock" /\ p[1].lock = w /\ p[2].act = "write"
        /\ p[3].act = "unlock" /\ p[3].lock = w
    BY <1>1 DEF L!Item
  <1> HIDE DEF w, p
  <1>3. Len(s) >= 3 /\ Len(s) \in Nat /\ SubSeq(p, 1, 3) = SubSeq(s, 1, 3)
    BY <1>1 DEF L!IsPrefix, p
  <1>4. s[1] = p[1] /\ s[2] = p[2] /\ s[3] = p[3] /\ s # <<>>
    <2>1. \A i \in 1..3 : s[i] \in LockItem /\ p[i] \in LockItem
      BY <1>1, <1>3
    <2>2. \A i \in 1..(3 - 1 + 1) : SubSeq(s, 1, 3)[i] = s[1 + i - 1]
      BY <2>1, SubSeqProperties
    <2>3. \A i \in 1..(3 - 1 + 1) : SubSeq(p, 1, 3)[i] = p[1 + i - 1]
      BY <2>1, SubSeqProperties
    <2>4. \A i \in 1..3 : s[i] = p[i]
      BY <1>3, <2>2, <2>3
    <2> QED
      BY <1>3, <2>4
  <1>5. /\ t1 \in Seq(LockItem) /\ InOrder(t1)
        /\ Held(s) = Held(t1) \ {w} /\ (Plain(s) => Plain(t1)) /\ Len(s) = Len(t1) + 1
        /\ \A i \in 1..Len(t1) : s[i + 1] = t1[i]
        /\ \A i \in 1..(Len(t1) + 1) : Rest(s, i + 1) = Rest(t1, i)
    BY <1>2, <1>4, NextItem
  <1> HIDE DEF t1
  <1>6. Len(t1) \in Nat /\ Len(t1) > 1 /\ t1 # <<>>
    BY <1>3, <1>5
  <1>7. t1[1] = s[1 + 1] /\ t1[2] = s[2 + 1]
    BY <1>5, <1>6
  <1>8. /\ t2 \in Seq(LockItem) /\ InOrder(t2) /\ Held(t1) = Held(t2)
        /\ (Plain(t1) => Plain(t2)) /\ Len(t1) = Len(t2) + 1
        /\ \A i \in 1..Len(t2) : t1[i + 1] = t2[i]
        /\ \A i \in 1..(Len(t2) + 1) : Rest(t1, i + 1) = Rest(t2, i)
    <2>1. t1[1].act = "write"
      BY <1>2, <1>4, <1>7
    <2> QED
      BY <1>5, <1>6, <2>1, NextItem
  <1> HIDE DEF t2
  <1>9. Len(t2) \in Nat /\ Len(t2) > 0 /\ t2 # <<>>
    BY <1>6, <1>8
  <1>10. t2[1] = t1[1 + 1]
    BY <1>8, <1>9
  <1>11. /\ t3 \in Seq(LockItem) /\ InOrder(t3) /\ Held(t2) = Held(t3) \cup {w}
         /\ w \notin Held(t3) /\ (Plain(t2) => Plain(t3))
    <2>1. t2[1].act = "unlock" /\ t2[1].lock = w
      BY <1>2, <1>4, <1>7, <1>10
    <2>2. /\ t3 \in Seq(LockItem) /\ InOrder(t3) /\ Held(t2) = Held(t3) \cup {w}
          /\ Allowed(t2[1], t3) /\ (Plain(t2) => Plain(t3))
      BY <1>8, <1>9, <2>1, NextItem
    <2> QED
      BY <2>1, <2>2 DEF Allowed
  <1>12. Rest(s, 4) = t3
    <2>1. Rest(s, 3 + 1) = Rest(t1, 3)
      BY <1>5, <1>6
    <2>2. Rest(t1, 2 + 1) = Rest(t2, 2)
      BY <1>8, <1>9
    <2> QED
      BY <2>1, <2>2
  <1> QED
    BY <1>5, <1>8, <1>11, <1>12

\* A write that fails: the write lock is given back, the connection closed.
LEMMA AfterFailure ==
    ASSUME NEW c \in Conn, NEW z, z = L!Item("unlock", <<"write", c>>),
           NEW r \in Seq(LockItem), InOrder(r),
           Below(Held(r), 2), <<"write", c>> \notin Held(r)
    PROVE  LET s == <<z>> \o L!Close(c) \o r
           IN /\ s \in Seq(LockItem) /\ InOrder(s)
              /\ Held(s) = Held(r) \cup {<<"write", c>>}
              /\ Plain(r) => Plain(s)
  <1> DEFINE w == <<"write", c>>
             t == L!Close(c) \o r
  <1>1. z \in LockItem /\ z.act = "unlock" /\ z.lock = w
    BY DEF LockItem, L!Item, L!Lock
  <1>2. Complete(L!Close(c))
    BY CloseComplete
  <1>3. Held(r) \subseteq {L!Semaphore}
    BY DEF Below, Level
  <1>4. Fits(L!Close(c), Held(r))
    BY <1>2, <1>3 DEF Complete, Fits, Below
  <1>5. t \in Seq(LockItem) /\ InOrder(t) /\ Held(t) = Held(r)
    <2>1. /\ L!Close(c) \in Seq(LockItem) /\ InOrder(L!Close(c)) /\ Plain(L!Close(c))
          /\ Held(L!Close(c)) = {}
      BY <1>2 DEF Complete
    <2>2. t \in Seq(LockItem) /\ InOrder(t) /\ Held(t) = Held(L!Close(c)) \cup Held(r)
      BY <1>4, <2>1, ConcatOrder
    <2> QED
      BY <2>1, <2>2
  <1>6. Plain(r) => Plain(t)
    BY <1>2, ConcatPlain DEF Complete
  <1>7. <<z>> \o L!Close(c) \o r = <<z>> \o t
    <2>1. <<z>> \in Seq(LockItem) /\ L!Close(c) \in Seq(LockItem)
      BY <1>1, <1>2 DEF Complete
    <2> QED
      BY <2>1, ConcatSimple
  <1> HIDE DEF w, t
  <1>8. <<z>> \o t \in Seq(LockItem) /\ InOrder(<<z>> \o t) /\ Held(<<z>> \o t) = Held(t) \cup {w}
    <2>1. w \notin Held(t)
      BY <1>5 DEF w
    <2>2. Allowed(z, t)
      BY <1>1, <2>1 DEF Allowed
    <2> QED
      BY <1>1, <1>5, <2>2, PutBefore
  <1>9. Plain(r) => Plain(<<z>> \o t)
    <2>1. <<z>> \in Seq(LockItem) /\ Plain(<<z>>)
      BY <1>1 DEF Plain
    <2> QED
      BY <1>5, <1>6, <2>1, ConcatPlain
  <1> QED
    BY <1>5, <1>7, <1>8, <1>9 DEF w

LEMMA LocksWriteFails == ASSUME LocksInv, NEW g \in L!Goroutine, L!WriteFails(g) PROVE LocksInv'
  <1> DEFINE s == todoLocks[g]
             c == s[1].lock[2]
             w == <<"write", c>>
             t == Rest(s, 2)
             u == Rest(t, 2)
             r == IF L!IsPrefix(L!Send(c), u) THEN Rest(u, 4) ELSE u
             n == <<s[2]>> \o L!Close(c) \o r
  <1>1. s # <<>> /\ owner' = owner
    BY DEF L!WriteFails, L!At, L!Idle
  <1>2. /\ s \in Seq(LockItem) /\ InOrder(s) /\ Head(s) = s[1] /\ s[1] \in LockItem
        /\ g = Templates /\ s[1].act # "join" =>
              \A h \in L!Goroutine : L!Role(h) = "worker" => L!Idle(h)
    BY <1>1, AtItem
  <1>3. s[1].act = "write"
    BY <1>2 DEF L!WriteFails, L!At
  <1>4. /\ Held(s) = {l \in L!Lock : owner[l] = g}
        /\ L!Role(g) # "templates" => Plain(s)
        /\ owner \in [L!Lock -> L!Goroutine \cup {L!Free}]
    BY DEF LocksInv
  <1>5. L!Role(g) = "worker" => ~L!Idle(g)
    BY <1>1 DEF L!Idle
  <1>6. todoLocks' = [todoLocks EXCEPT ![g] =
            <<s[2]>> \o L!Close(c) \o
                (IF L!IsPrefix(L!Send(c), SubSeq(s, 3, Len(s)))
                 THEN SubSeq(SubSeq(s, 3, Len(s)), Len(L!Send(c)) + 1,
                             Len(SubSeq(s, 3, Len(s))))
                 ELSE SubSeq(s, 3, Len(s)))]
    BY <1>2 DEF L!WriteFails, L!Wanted
  <1> HIDE DEF s
  <1>7. /\ t \in Seq(LockItem) /\ InOrder(t) /\ Allowed(s[1], t)
        /\ Held(s) = Held(t) /\ (Plain(s) => Plain(t)) /\ Len(s) = Len(t) + 1
        /\ \A i \in 1..Len(t) : s[i + 1] = t[i]
        /\ \A i \in 1..(Len(t) + 1) : Rest(s, i + 1) = Rest(t, i)
    BY <1>1, <1>2, <1>3, NextItem
  <1>8. /\ s[1].lock \in {"write"} \X Conn /\ Len(t) > 0
        /\ t[1] = L!Item("unlock", s[1].lock) /\ Below(Held(t) \ {s[1].lock}, 2)
    BY <1>3, <1>7 DEF Allowed
  <1>9. c \in Conn /\ s[1].lock = w
    BY <1>8
  <1>10. Len(t) \in Nat /\ t # <<>>
    BY <1>7, <1>8
  <1>11. t[1] = s[1 + 1] /\ Rest(s, 2 + 1) = u
    BY <1>7, <1>8, <1>10
  <1>12. t[1].act = "unlock" /\ t[1].lock = w /\ t[1] = L!Item("unlock", w)
    BY <1>8, <1>9 DEF L!Item
  <1> HIDE DEF c, w, t
  <1>13. /\ u \in Seq(LockItem) /\ InOrder(u) /\ Allowed(t[1], u)
         /\ Held(t) = Held(u) \cup {w} /\ (Plain(t) => Plain(u))
    BY <1>7, <1>10, <1>12, NextItem
  <1>14. w \notin Held(u) /\ Below(Held(u), 2)
    <2>1. w \notin Held(u)
      BY <1>12, <1>13 DEF Allowed
    <2> QED
      BY <1>8, <1>9, <1>13, <2>1 DEF Below
  <1> HIDE DEF u
  <1>15. /\ r \in Seq(LockItem) /\ InOrder(r) /\ Held(r) = Held(u)
         /\ (Plain(u) => Plain(r))
    <2>1. CASE L!IsPrefix(L!Send(c), u)
      BY <1>9, <1>13, <2>1, AfterSend
    <2>2. CASE ~L!IsPrefix(L!Send(c), u)
      BY <1>13, <2>2
    <2> QED
      BY <2>1, <2>2
  <1>16. todoLocks' = [todoLocks EXCEPT ![g] = n]
    <2>1. \A d \in Conn : Len(L!Send(d)) = 3
      BY SendIs
    <2>2. Len(L!Send(c)) + 1 = 4
      <3>1. Len(L!Send(c)) = 3
        BY <1>9, <2>1
      <3> QED
        BY <3>1
    <2>3. SubSeq(s, 3, Len(s)) = u
      BY <1>11 DEF Rest
    <2>4. SubSeq(u, 4, Len(u)) = Rest(u, 4)
      BY DEF Rest
    <2> QED
      BY <1>6, <2>2, <2>3, <2>4
  <1> HIDE DEF r
  <1>17. n \in Seq(LockItem) /\ InOrder(n) /\ Held(n) = Held(s) /\ (Plain(s) => Plain(n))
    <2>1. s[2] = L!Item("unlock", <<"write", c>>)
      <3>1. t[1] = s[2]
        BY <1>11
      <3> QED
        BY <1>12, <3>1 DEF w
    <2>2. Below(Held(r), 2) /\ <<"write", c>> \notin Held(r)
      BY <1>14, <1>15 DEF w
    <2>3. /\ n \in Seq(LockItem) /\ InOrder(n) /\ Held(n) = Held(r) \cup {<<"write", c>>}
          /\ Plain(r) => Plain(n)
      BY <1>9, <1>15, <2>1, <2>2, AfterFailure
    <2> HIDE DEF n
    <2> QED
      BY <1>7, <1>13, <1>15, <2>3 DEF w
  <1> HIDE DEF n
  <1>18. /\ {l \in L!Lock : owner'[l] = g} = Held(n)
         /\ owner' \in [L!Lock -> L!Goroutine \cup {L!Free}]
         /\ \A h \in L!Goroutine : \A l \in L!Lock : h # g => (owner'[l] = h <=> owner[l] = h)
    BY <1>1, <1>4, <1>17
  <1>19. g = Templates => \A h \in L!Goroutine : L!Role(h) = "worker" => L!Idle(h)
    BY <1>2, <1>3
  <1> QED
    BY <1>4, <1>5, <1>16, <1>17, <1>18, <1>19, OneMoves

\* The workers of a new template start with nothing, and templateLoop waits.
LEMMA LocksSpawn == ASSUME LocksInv, NEW g \in L!Goroutine, L!Spawn(g) PROVE LocksInv'
  <1> DEFINE s == todoLocks[g]
             x == s[1]
             t == Rest(s, 2)
  <1>1. s # <<>> /\ owner' = owner
    BY DEF L!Spawn, L!At, L!Idle
  <1>2. /\ t \in Seq(LockItem) /\ InOrder(t) /\ Allowed(x, t) /\ Head(s) = x /\ Tail(s) = t
        /\ L!Role(g) # "templates" => x.act \notin {"spawn", "join"}
        /\ g = Templates /\ x.act # "join" =>
              \A h \in L!Goroutine : L!Role(h) = "worker" => L!Idle(h)
        /\ {l \in L!Lock : owner[l] = g} =
              IF x.act = "unlock" THEN Held(t) \cup {x.lock}
              ELSE IF x.act = "lock" THEN Held(t) \ {x.lock} ELSE Held(t)
    BY <1>1, AtItem
  <1>3. x.act = "spawn"
    BY <1>2 DEF L!Spawn, L!At
  <1>4. /\ g = Templates /\ {l \in L!Lock : owner[l] = g} = Held(t)
        /\ \A h \in L!Goroutine : L!Role(h) = "worker" => L!Idle(h)
    BY <1>2, <1>3, LockNames
  <1>5. Len(t) > 0 /\ t[1].act = "join" /\ Plain(Rest(t, 2)) /\ t # <<>>
    BY <1>2, <1>3 DEF Allowed
  <1>6. todoLocks' = [h \in L!Goroutine |->
                        IF h = g THEN t
                        ELSE IF L!Role(h) = "worker"
                             THEN L!Hold(L!Semaphore, L!AssignTemplate(L!Own(h)))
                             ELSE todoLocks[h]]
    BY <1>2 DEF L!Spawn
  <1> HIDE DEF s, x, t
  <1>7. ASSUME NEW h \in L!Goroutine, h # g, L!Role(h) = "worker"
        PROVE  /\ todoLocks'[h] \in Seq(LockItem) /\ InOrder(todoLocks'[h])
               /\ Held(todoLocks'[h]) = {l \in L!Lock : owner[l] = h}
               /\ Plain(todoLocks'[h])
    <2>1. todoLocks'[h] = L!Hold(L!Semaphore, L!AssignTemplate(L!Own(h)))
      BY <1>6, <1>7
    <2>2. L!Own(h) \in Conn
      BY <1>7, LockNames
    <2> DEFINE c == L!Own(h)
    <2>3. /\ Whole(L!Hold(L!Semaphore, L!AssignTemplate(c)))
          /\ Plain(L!Hold(L!Semaphore, L!AssignTemplate(c)))
      <3> HIDE DEF c
      <3> QED
        BY <2>2, WorkerOrder DEF c
    <2>4. {l \in L!Lock : owner[l] = h} = {}
      <3>1. todoLocks[h] = <<>>
        BY <1>4, <1>7 DEF L!Idle
      <3> QED
        BY <3>1, NothingLeft DEF LocksInv
    <2> QED
      BY <2>1, <2>3, <2>4 DEF Whole
  <1>8. ASSUME NEW h \in L!Goroutine
        PROVE  /\ todoLocks'[h] \in Seq(LockItem) /\ InOrder(todoLocks'[h])
               /\ Held(todoLocks'[h]) = {l \in L!Lock : owner[l] = h}
               /\ L!Role(h) # "templates" => Plain(todoLocks'[h])
    <2>1. CASE h = g
      BY <1>2, <1>4, <1>6, <2>1, LockNames
    <2>2. CASE h # g /\ L!Role(h) = "worker"
      BY <1>7, <2>2
    <2>3. CASE h # g /\ L!Role(h) # "worker"
      <3>1. todoLocks'[h] = todoLocks[h]
        BY <1>6, <2>3
      <3> QED
        BY <3>1 DEF LocksInv
    <2> QED
      BY <2>1, <2>2, <2>3
  <1>9. todoLocks' \in [L!Goroutine -> Seq(LockItem)]
    BY <1>6, <1>8
  <1>10. /\ todoLocks'[Templates] # <<>> /\ todoLocks'[Templates][1].act = "join"
         /\ Plain(Rest(todoLocks'[Templates], 2))
    BY <1>4, <1>5, <1>6
  <1> QED
    BY <1>1, <1>8, <1>9, <1>10 DEF LocksInv, L!Idle

LEMMA LocksStep == ASSUME LocksInv, L!Next PROVE LocksInv'
  <1>1. ASSUME NEW g \in L!Goroutine, L!Start(g) \/ L!Step(g) PROVE LocksInv'
    <2>1. CASE L!Start(g)
      BY <2>1, LocksStart
    <2>2. CASE L!PassThrough(g) \/ L!Written(g) \/ L!CloseConn(g) \/ L!Join(g)
      BY <2>2, LocksPass
    <2>3. CASE L!Take(g)
      BY <2>3, LocksTake
    <2>4. CASE L!Release(g)
      BY <2>4, LocksRelease
    <2>5. CASE L!CloseAgain(g)
      BY <2>5, LocksCloseAgain
    <2>6. CASE L!WriteFails(g)
      BY <2>6, LocksWriteFails
    <2>7. CASE L!Spawn(g)
      BY <2>7, LocksSpawn
    <2> QED
      BY <1>1, <2>1, <2>2, <2>3, <2>4, <2>5, <2>6, <2>7 DEF L!Step
  <1>2. ASSUME NEW c \in Conn, L!Stall(c) \/ L!Reconnect(c) PROVE LocksInv'
    <2>1. todoLocks' = todoLocks /\ owner' = owner
      BY <1>2 DEF L!Stall, L!Reconnect
    <2> QED
      BY <2>1 DEF LocksInv, L!Idle
  <1> QED
    BY <1>1, <1>2 DEF L!Next

\* A goroutine that wants a lock wants one above all it holds, and one that
\* waits for workers holds nothing.
LEMMA WantsAbove ==
    ASSUME LocksInv, NEW g \in L!Goroutine, NEW l \in L!Lock, owner[l] = g
    PROVE  /\ ~L!Idle(g) /\ ~L!At(g, "join")
           /\ L!At(g, "pass") \/ L!At(g, "lock") => Level(l) < Level(L!Wanted(g))
  <1> DEFINE s == todoLocks[g]
             x == s[1]
             t == Rest(s, 2)
  <1>1. s # <<>>
    <2>1. l \in Held(s)
      BY DEF LocksInv
    <2> QED
      BY <2>1, NothingLeft
  <1>2. /\ Allowed(x, t) /\ Head(s) = x
        /\ {m \in L!Lock : owner[m] = g} =
              IF x.act = "unlock" THEN Held(t) \cup {x.lock}
              ELSE IF x.act = "lock" THEN Held(t) \ {x.lock} ELSE Held(t)
    BY <1>1, AtItem
  <1>3. /\ x.act = "join" => l \in Held(t)
        /\ x.act = "pass" => l \in Held(t)
        /\ x.act = "lock" => l \in Held(t) \ {x.lock}
    BY <1>2
  <1>4. /\ x.act # "join"
        /\ x.act \in {"pass", "lock"} => Level(l) < Level(x.lock)
    BY <1>2, <1>3 DEF Allowed, Below
  <1> QED
    BY <1>1, <1>2, <1>4 DEF L!Idle, L!At, L!Wanted

LEMMA OrderEndsWaits == ASSUME LocksInv PROVE WaitsEnd
  <1> DEFINE Asks(g) == (L!At(g, "pass") \/ L!At(g, "lock")) /\ owner[L!Wanted(g)] # L!Free
             Joins(g) == L!At(g, "join")
  <1>1. ASSUME NEW l \in L!Lock, owner[l] # L!Free PROVE ~L!Idle(owner[l])
    <2>1. owner[l] \in L!Goroutine
      BY <1>1 DEF LocksInv
    <2> QED
      BY <2>1, WantsAbove
  <1>2. ASSUME NEW g \in L!Goroutine, L!Waits(g) # {}
        PROVE  \/ Asks(g) /\ L!Waits(g) = {owner[L!Wanted(g)]}
               \/ /\ Joins(g)
                  /\ L!Waits(g) = {h \in L!Goroutine : L!Role(h) = "worker" /\ ~L!Idle(h)}
    BY <1>2 DEF L!Waits, L!TimedOut
  <1>3. ASSUME NEW g \in L!Goroutine, Asks(g)
        PROVE  L!Wanted(g) \in L!Lock /\ Level(L!Wanted(g)) \in 1..3
    <2>1. todoLocks[g] # <<>>
      BY <1>3 DEF L!At, L!Idle
    <2>2. Head(todoLocks[g]) \in LockItem
      BY <2>1, AtItem
    <2> QED
      BY <2>2 DEF L!Wanted, LockItem, Level
  <1>4. ASSUME NEW g \in L!Goroutine, Asks(g), owner[L!Wanted(g)] \in L!Goroutine
        PROVE  LET o == owner[L!Wanted(g)]
               IN ~Joins(o) /\ (Asks(o) => Level(L!Wanted(g)) < Level(L!Wanted(o)))
    BY <1>3, <1>4, WantsAbove
  <1>5. ASSUME NEW h \in L!Goroutine, L!Role(h) = "worker" PROVE ~Joins(h)
    <2>1. todoLocks[h] # <<>> => Head(todoLocks[h]).act # "join"
      BY <1>5, AtItem
    <2> QED
      BY <2>1 DEF L!At, L!Idle
  <1>6. ASSUME NEW S \in SUBSET {g \in L!Goroutine : L!Waits(g) # {}}, S # {},
               \A g \in S : L!Waits(g) \cap S # {}
        PROVE  FALSE
    <2> HIDE DEF Asks, Joins
    <2>1. \A g \in S : g \in L!Goroutine /\ (Asks(g) \/ Joins(g))
      BY <1>2
    <2>2. ASSUME NEW g \in S, Asks(g)
          PROVE  \E o \in S : Asks(o) /\ Level(L!Wanted(g)) < Level(L!Wanted(o))
      <3> DEFINE o == owner[L!Wanted(g)]
      <3>1. o \in S
        <4>1. L!Waits(g) = {o} \/ Joins(g)
          BY <1>2, <2>2
        <4>2. ~Joins(g)
          BY <2>2 DEF Asks, Joins, L!At
        <4> QED
          BY <1>6, <4>1, <4>2
      <3>2. ~Joins(o) /\ (Asks(o) => Level(L!Wanted(g)) < Level(L!Wanted(o)))
        BY <1>4, <2>1, <2>2, <3>1
      <3> QED
        BY <2>1, <3>1, <3>2
    <2>3. ASSUME NEW g \in S, Asks(g) PROVE FALSE
      <3>1. PICK a \in S : Asks(a) /\ Level(L!Wanted(g)) < Level(L!Wanted(a))
        BY <2>2, <2>3
      <3>2. PICK b \in S : Asks(b) /\ Level(L!Wanted(a)) < Level(L!Wanted(b))
        BY <2>2, <3>1
      <3>3. PICK d \in S : Asks(d) /\ Level(L!Wanted(b)) < Level(L!Wanted(d))
        BY <2>2, <3>2
      <3>4. /\ Level(L!Wanted(g)) \in 1..3 /\ Level(L!Wanted(a)) \in 1..3
            /\ Level(L!Wanted(b)) \in 1..3 /\ Level(L!Wanted(d)) \in 1..3
        BY <1>3, <2>1, <2>3, <3>1, <3>2, <3>3
      <3> QED
        BY <3>1, <3>2, <3>3, <3>4
    <2>4. PICK g \in S : TRUE
      BY <1>6
    <2>5. Joins(g) /\ ~Asks(g)
      BY <2>1, <2>3
    <2>6. L!Waits(g) = {h \in L!Goroutine : L!Role(h) = "worker" /\ ~L!Idle(h)}
      BY <1>2, <2>5
    <2>7. PICK h \in S : L!Role(h) = "worker"
      BY <1>6, <2>6
    <2> QED
      BY <1>5, <2>1, <2>3, <2>7
  <1> QED
    BY <1>1, <1>6 DEF WaitsEnd, L!WaitsEnd

\* No goroutine waits for ever, for any number of connections and goroutines:
\* the locks are taken in an order, whatever the miners and the node do.
THEOREM NobodyWaitsForEver == SpecAll => []WaitsEnd
  <1>1. InitAll => LocksInv
    BY LocksInit DEF InitAll
  <1>2. LocksInv /\ [NextAll]_allVars => LocksInv'
    <2> SUFFICES ASSUME LocksInv, [NextAll]_allVars PROVE LocksInv'
      OBVIOUS
    <2>1. CASE UNCHANGED lockVars
      <3>1. todoLocks' = todoLocks /\ owner' = owner
        BY <2>1 DEF lockVars
      <3> QED
        BY <3>1 DEF LocksInv, L!Idle
    <2>2. CASE L!Next
      BY <2>2, LocksStep
    <2> QED
      BY <2>1, <2>2 DEF NextAll, allVars
  <1>3. LocksInv => WaitsEnd
    BY OrderEndsWaits
  <1> QED
    BY <1>1, <1>2, <1>3, PTL DEF SpecAll
=============================================================================

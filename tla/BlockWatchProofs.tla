-------------------------- MODULE BlockWatchProofs --------------------------
(* Proofs about BlockWatch, for every set of blocks and every depth that    *)
(* satisfies ChainAssumption.                                              *)
EXTENDS BlockWatch, TLAPS

\* An answer not applied yet is about a block of this pass, was true when it
\* was given, and is still true where the switch of SetBlockState acts on it.
ObsOK ==
    pc = "apply" =>
        /\ obs \in Observation
        /\ obs.block \in todo
        /\ obs.tip <= tip
        /\ obs.canonical /\ obs.tip >= height[obs.block] + MaturityBlocks
              => obs.block \in canon
        /\ ~obs.canonical /\ obs.tip >= height[obs.block] + OrphanDepth
              => obs.block \notin canon

\* The pass visits pending rows only, and a row appears when its handler
\* leaves "mining".
RowsOK ==
    /\ todo \subseteq Pending
    /\ canon \subseteq known
    /\ \A b \in Block : sub[b] = "mining" => status[b] = "absent"

\* The inductive invariant of BlockWatch: what the properties need about a
\* late answer (ObsOK) and about the rows a pass visits (RowsOK).
IInv ==
    /\ TypeOK
    /\ RowsOK
    /\ ObsOK
    /\ AccountedBeforeSubmitted
    /\ MatureIsCanonical
    /\ OrphanIsOffChain

\* Every block's row and the chain start consistent.
LEMMA InitIInv == Init => IInv
  BY ChainAssumption, NoObsAssumption
  DEF Init, IInv, TypeOK, RowsOK, ObsOK, AccountedBeforeSubmitted,
      MatureIsCanonical, OrphanIsOffChain, Pending

\* The answer of the switch is a status.
LEMMA NextStatusType ==
    ASSUME TypeOK, NEW b \in Block, NEW o \in Observation
    PROVE  NextStatus(b, o) \in {"absent", "pending", "mature", "orphan"}
  BY DEF NextStatus, TypeOK

\* Every step of handlers, node and controller keeps variables in their type.
LEMMA StepTypeOK == IInv /\ [Next]_vars => TypeOK'
  <1> SUFFICES ASSUME IInv, [Next]_vars PROVE TypeOK'
    OBVIOUS
  <1> USE ChainAssumption DEF IInv, TypeOK
  <1>1. ASSUME NEW b \in Block, AllocateBlock(b) PROVE TypeOK'
    BY <1>1 DEF AllocateBlock, nodeVars, syncVars
  <1>2. ASSUME NEW b \in Block,
               AllocationFails(b) \/ SubmitBlock(b) \/ SubmissionLost(b)
        PROVE  TypeOK'
    BY <1>2 DEF AllocationFails, SubmitBlock, SubmissionLost, nodeVars, syncVars
  <1>3. ASSUME NEW b \in Block, NodeExtendsWith(b) \/ NodeStores(b)
        PROVE  TypeOK'
    BY <1>3 DEF NodeExtendsWith, NodeStores, syncVars
  <1>4. ASSUME NEW b \in Block, BlockStatus(b) PROVE TypeOK'
    BY <1>4 DEF BlockStatus, Observation, Oldest, poolVars, nodeVars
  <1>5. ASSUME NEW b \in Block, SetBlockState(b) PROVE TypeOK'
    <2>1. obs \in Observation
      BY <1>5 DEF SetBlockState, ObsOK
    <2>2. NextStatus(b, obs) \in {"absent", "pending", "mature", "orphan"}
      BY <2>1, NextStatusType
    <2> QED
      BY <1>5, <2>2 DEF SetBlockState, nodeVars
  <1>6. ASSUME NEW b \in Block, BlockStatusFails(b) \/ SetBlockStateFails(b)
        PROVE  TypeOK'
    BY <1>6 DEF BlockStatusFails, SetBlockStateFails, poolVars, nodeVars
  <1>7. CASE Extend \/ Reorg
    BY <1>7 DEF Extend, Reorg, poolVars, syncVars
  <1>8. CASE ListPending \/ EndSync
    BY <1>8 DEF ListPending, EndSync, Pending, poolVars, nodeVars
  <1>9. CASE Crash
    BY <1>9 DEF Crash, nodeVars
  <1>10. CASE UNCHANGED vars
    BY <1>10 DEF vars, poolVars, nodeVars, syncVars
  <1> QED
    BY <1>1, <1>2, <1>3, <1>4, <1>5, <1>6, <1>7, <1>8, <1>9, <1>10 DEF Next

\* The rest of the inductive invariant, one step per group of actions.
LEMMA StepIInv == IInv /\ [Next]_vars => IInv'
  <1> SUFFICES ASSUME IInv, [Next]_vars PROVE IInv'
    OBVIOUS
  <1>t. TypeOK'
    BY StepTypeOK
  <1> USE ChainAssumption, <1>t
      DEF IInv, TypeOK, RowsOK, ObsOK, AccountedBeforeSubmitted,
          MatureIsCanonical, OrphanIsOffChain, Pending
  <1>1. ASSUME NEW b \in Block, AllocateBlock(b) PROVE IInv'
    <2>1. status[b] = "absent" /\ b \notin todo /\ b \notin known
      BY <1>1 DEF AllocateBlock
    <2> QED
      BY <1>1, <2>1 DEF AllocateBlock, nodeVars, syncVars, Observation
  <1>2. ASSUME NEW b \in Block,
               AllocationFails(b) \/ SubmitBlock(b) \/ SubmissionLost(b)
        PROVE  IInv'
    BY <1>2 DEF AllocationFails, SubmitBlock, SubmissionLost, nodeVars, syncVars
  <1>3. ASSUME NEW b \in Block, NodeExtendsWith(b) PROVE IInv'
    BY <1>3 DEF NodeExtendsWith, syncVars, Observation
  <1>4. ASSUME NEW b \in Block, NodeStores(b) PROVE IInv'
    BY <1>4 DEF NodeStores, syncVars
  <1>5. ASSUME NEW b \in Block, BlockStatus(b) PROVE IInv'
    <2>1. UNCHANGED <<poolVars, nodeVars, todo, crashes>>
      BY <1>5 DEF BlockStatus
    <2>2. /\ obs' = [block |-> b, known |-> b \in known,
                    canonical |-> b \in canon, tip |-> tip]
          /\ b \in todo
      BY <1>5 DEF BlockStatus, Oldest
    <2>3. obs' \in Observation
      BY <2>2 DEF Observation
    <2>4. /\ obs'.block = b /\ obs'.tip = tip
          /\ obs'.canonical <=> b \in canon
      BY <2>2
    <2>5. ObsOK'
      BY <2>1, <2>2, <2>3, <2>4 DEF poolVars, nodeVars
    <2>6. RowsOK' /\ AccountedBeforeSubmitted' /\ MatureIsCanonical'
             /\ OrphanIsOffChain'
      BY <2>1 DEF poolVars, nodeVars
    <2> QED
      BY <2>5, <2>6
  <1>6. ASSUME NEW b \in Block, SetBlockState(b) PROVE IInv'
    <2>1. obs \in Observation /\ obs.block = b /\ status[b] = "pending"
      BY <1>6 DEF SetBlockState
    <2>2. /\ NextStatus(b, obs) = "mature" =>
                b \in canon /\ height[b] + MaturityBlocks <= tip
          /\ NextStatus(b, obs) = "orphan" =>
                b \notin canon /\ height[b] + OrphanDepth <= tip
          /\ NextStatus(b, obs) # "absent"
      BY <1>6, <2>1 DEF NextStatus, SetBlockState, Observation
    <2>3. sub[b] # "mining"
      BY <2>1
    <2> QED
      BY <1>6, <2>1, <2>2, <2>3 DEF SetBlockState, nodeVars
  <1>7. ASSUME NEW b \in Block, BlockStatusFails(b) \/ SetBlockStateFails(b)
        PROVE  IInv'
    BY <1>7 DEF BlockStatusFails, SetBlockStateFails, poolVars, nodeVars
  <1>8. CASE Extend
    BY <1>8 DEF Extend, poolVars, syncVars, Observation
  <1>9. CASE Reorg
    <2>1. PICK fork \in 0..tip, longer \in 0..1, add \in SUBSET known :
              /\ tip <= fork + MaxReorg
              /\ \A b \in add : fork < height[b] /\ height[b] <= tip + longer
              /\ tip' = tip + longer
              /\ canon' = {b \in canon : height[b] <= fork} \cup add
      BY <1>9, SMTT(30) DEF Reorg
    <2>2. UNCHANGED <<poolVars, known, syncVars, crashes>>
      BY <1>9 DEF Reorg
    <2>3. \A b \in Block : height[b] + MaturityBlocks <= tip /\ b \in canon
                              => b \in canon'
      BY <2>1
    <2>4. \A b \in Block : height[b] + OrphanDepth <= tip /\ b \notin canon
                              => b \notin canon'
      BY <2>1
    <2>5. canon' \subseteq known /\ tip <= tip'
      BY <2>1
    <2>6. RowsOK' /\ AccountedBeforeSubmitted'
      BY <2>2, <2>5 DEF poolVars, syncVars
    <2>7. MatureIsCanonical' /\ OrphanIsOffChain'
      BY <2>2, <2>3, <2>4, <2>5 DEF poolVars
    <2>8. ObsOK'
      BY <2>2, <2>3, <2>4, <2>5 DEF poolVars, syncVars, Observation
    <2> QED
      BY <2>6, <2>7, <2>8
  <1>10. CASE ListPending \/ EndSync
    BY <1>10 DEF ListPending, EndSync, poolVars, nodeVars
  <1>11. CASE Crash
    BY <1>11 DEF Crash, nodeVars
  <1>12. CASE UNCHANGED vars
    BY <1>12 DEF vars, poolVars, nodeVars, syncVars
  <1> QED
    BY <1>1, <1>2, <1>3, <1>4, <1>5, <1>6, <1>7, <1>8, <1>9, <1>10, <1>11,
       <1>12 DEF Next

\* The inductive invariant holds throughout, whatever the handlers, the node
\* and the controller do.
THEOREM Invariance == Spec => []IInv
  BY InitIInv, StepIInv, PTL DEF Spec

\* Types, for every set of blocks.
THEOREM TypeCorrect == Spec => []TypeOK
  BY Invariance, PTL DEF IInv

\* Credit is payable only for a block that stays on the selected chain.
THEOREM MatureSafe == Spec => []MatureIsCanonical
  BY Invariance, PTL DEF IInv

\* A written-off block never returns to the selected chain.
THEOREM OrphanSafe == Spec => []OrphanIsOffChain
  BY Invariance, PTL DEF IInv

\* The node never has a block whose allocation the database lacks.
THEOREM AccountedFirst == Spec => []AccountedBeforeSubmitted
  BY Invariance, PTL DEF IInv

\* No step reopens or flips a settled block.
THEOREM SettlementIsFinal == Spec => SettledForGood
  <1>1. IInv /\ [Next]_vars =>
            [\A b \in Block : status[b] \in Settled => status'[b] = status[b]]_vars
    <2> SUFFICES ASSUME IInv, Next, NEW b \in Block, status[b] \in Settled
                 PROVE  status'[b] = status[b]
      OBVIOUS
    <2>1. ASSUME NEW c \in Block, AllocateBlock(c) PROVE status'[b] = status[b]
      BY <2>1 DEF AllocateBlock, IInv, TypeOK, RowsOK, Settled
    <2>2. ASSUME NEW c \in Block, SetBlockState(c) PROVE status'[b] = status[b]
      BY <2>2 DEF SetBlockState, IInv, TypeOK, RowsOK, ObsOK, Settled, Pending
    <2> QED
      BY <2>1, <2>2
      DEF Next, AllocationFails, SubmitBlock, SubmissionLost, NodeExtendsWith,
          NodeStores, BlockStatus, BlockStatusFails, SetBlockStateFails, Extend,
          Reorg, ListPending, EndSync, Crash, poolVars
  <1> QED
    BY <1>1, Invariance, PTL DEF Spec, SettledForGood
=============================================================================

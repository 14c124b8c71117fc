----------------------------- MODULE BlockWatch -----------------------------
(***************************************************************************)
(* The life of the blocks a pool finds: from the submit handler that       *)
(* freezes a PPLNS allocation and hands the candidate to the QDAY node      *)
(* (internal/stratum/server.go), through the node's chain, to the          *)
(* controller loop that polls the node and settles each block as mature or *)
(* orphan (internal/pool/controller.go, internal/store/store.go).          *)
(*                                                                         *)
(* The submit handlers are goroutines of their own; the controller is one  *)
(* goroutine; the node and the network around it do what they like within  *)
(* MaxReorg.  Every request to the node and every store call may fail.     *)
(***************************************************************************)
EXTENDS Integers, FiniteSets

CONSTANTS
    Block,           \* candidates the pool solves, named by their hash
    MaturityBlocks,  \* Config.MaturityBlocks (60)
    OrphanDepth,     \* depth at which an off-chain block is given up (6)
    PendingLimit,    \* LIMIT of PendingBlocks (1000)
    MaxReorg,        \* deepest rewrite of the selected chain (external)
    MaxLag,          \* bound: how far the tip may outrun a submit handler
    MaxHeight,       \* bound on the height of the chain
    MaxCrashes,      \* bound on restarts of the pool
    NoObs            \* no answer of BlockStatus is waiting

\* A reorganization reaches neither a block the pool calls an orphan nor one
\* it calls mature: the documentation counts six blocks as final.
ASSUME ChainAssumption ==
    /\ MaturityBlocks \in Nat
    /\ OrphanDepth \in Nat
    /\ MaxReorg \in Nat
    /\ MaxReorg <= OrphanDepth
    /\ MaxReorg <= MaturityBlocks
    /\ PendingLimit \in Nat \ {0}
    /\ MaxLag \in Nat
    /\ MaxHeight \in Nat
    /\ MaxCrashes \in Nat

Observation == [block : Block, known : BOOLEAN, canonical : BOOLEAN, tip : Nat]

ASSUME NoObsAssumption == NoObs \notin Observation

VARIABLES
    status,   \* blocks.status, "absent" before the row is inserted
    height,   \* blocks.height
    sub,      \* where the submit handler of a candidate is
    tip,      \* height of the node's selected chain
    known,    \* candidates the node stores
    canon,    \* candidates on the node's selected chain
    pc,       \* where syncBlocks is
    todo,     \* blocks of this pass not visited yet
    obs,      \* answer of BlockStatus not applied yet
    crashes

poolVars == <<status, height, sub>>
nodeVars == <<tip, known, canon>>
syncVars == <<pc, todo, obs>>
vars == <<poolVars, nodeVars, syncVars, crashes>>

Settled == {"mature", "orphan"}
Pending == {b \in Block : status[b] = "pending"}

Init ==
    /\ status = [b \in Block |-> "absent"]
    /\ height = [b \in Block |-> 0]
    /\ sub = [b \in Block |-> "mining"]
    /\ tip = 1 /\ known = {} /\ canon = {}
    /\ pc = "idle" /\ todo = {} /\ obs = NoObs
    /\ crashes = 0
-----------------------------------------------------------------------------
(* The submit handler of a solved share, one goroutine per connection.     *)

\* The allocation is committed with status "pending" before the node sees
\* the block.  The job was built on an older tip when the chain has moved.
AllocateBlock(b) ==
    /\ sub[b] = "mining"
    /\ sub' = [sub EXCEPT ![b] = "allocated"]
    /\ status' = [status EXCEPT ![b] = "pending"]
    /\ \E h \in 1..(tip + 1) :
          /\ tip + 1 <= h + MaxLag
          /\ h + MaturityBlocks <= MaxHeight
          /\ height' = [height EXCEPT ![b] = h]
    /\ UNCHANGED <<nodeVars, syncVars, crashes>>

\* Slip: the handler logs the failed allocation and submits all the same.
AllocationFailsButSubmits(b) ==
    /\ sub[b] = "mining"
    /\ sub' = [sub EXCEPT ![b] = "allocated"]
    /\ UNCHANGED <<status, height, nodeVars, syncVars, crashes>>

\* The transaction rolls back and the solved block is withheld.
AllocationFails(b) ==
    /\ sub[b] = "mining"
    /\ sub' = [sub EXCEPT ![b] = "over"]
    /\ UNCHANGED <<status, height, nodeVars, syncVars, crashes>>

\* SubmitBlock writes the request to the node.
SubmitBlock(b) ==
    /\ sub[b] = "allocated"
    /\ sub' = [sub EXCEPT ![b] = "inflight"]
    /\ UNCHANGED <<status, height, nodeVars, syncVars, crashes>>

\* Slip: the handler writes "pending" to have the block looked at again.
SubmissionLostReopens(b) ==
    /\ sub[b] = "inflight"
    /\ sub' = [sub EXCEPT ![b] = "over"]
    /\ status' = [status EXCEPT ![b] = "pending"]
    /\ UNCHANGED <<height, nodeVars, syncVars, crashes>>

\* Timeout or refusal: the handler logs and leaves the allocation pending.
SubmissionLost(b) ==
    /\ sub[b] = "inflight"
    /\ sub' = [sub EXCEPT ![b] = "over"]
    /\ UNCHANGED <<status, height, nodeVars, syncVars, crashes>>
-----------------------------------------------------------------------------
(* The node and its network (external).                                    *)

\* The candidate extends the selected chain.  Whether the response reaches
\* the pool changes nothing it stores.
NodeExtendsWith(b) ==
    /\ sub[b] = "inflight"
    /\ height[b] = tip + 1
    /\ sub' = [sub EXCEPT ![b] = "over"]
    /\ tip' = tip + 1
    /\ known' = known \cup {b}
    /\ canon' = canon \cup {b}
    /\ UNCHANGED <<status, height, syncVars, crashes>>

\* The candidate is stored beside the selected chain.
NodeStores(b) ==
    /\ sub[b] = "inflight"
    /\ sub' = [sub EXCEPT ![b] = "over"]
    /\ known' = known \cup {b}
    /\ UNCHANGED <<status, height, tip, canon, syncVars, crashes>>

\* Somebody else's block extends the chain.
Extend ==
    /\ tip < MaxHeight
    /\ tip' = tip + 1
    /\ UNCHANGED <<poolVars, known, canon, syncVars, crashes>>

\* Heights above the fork are rewritten, perhaps with stored candidates.
Reorg ==
    \E fork \in 0..tip, longer \in 0..1, add \in SUBSET known :
        /\ tip <= fork + MaxReorg
        /\ tip + longer <= MaxHeight
        /\ \A b \in add : fork < height[b] /\ height[b] <= tip + longer
        /\ \A a, b \in add : a # b => height[a] # height[b]
        /\ tip' = tip + longer
        /\ canon' = {b \in canon : height[b] <= fork} \cup add
        /\ UNCHANGED <<poolVars, known, syncVars, crashes>>
-----------------------------------------------------------------------------
(* Controller.syncBlocks: one pass over the oldest pending blocks.         *)

\* Status answered and PendingBlocks returned the PendingLimit oldest rows.
\* A failure of either ends the pass before it starts.
ListPending ==
    /\ pc = "idle"
    /\ pc' = "loop"
    /\ \E S \in SUBSET Pending :
          /\ Cardinality(S) <= PendingLimit
          /\ S = Pending \/ Cardinality(S) = PendingLimit
          /\ \A b \in S, other \in Pending \ S : height[b] <= height[other]
          /\ todo' = S
    /\ UNCHANGED <<poolVars, nodeVars, obs, crashes>>

Oldest(b) == b \in todo /\ \A other \in todo : height[b] <= height[other]

\* BlockStatus answers.  Known, canonical and tip are of one moment.
BlockStatus(b) ==
    /\ pc = "loop"
    /\ Oldest(b)
    /\ pc' = "apply"
    /\ obs' = [block |-> b, known |-> b \in known,
               canonical |-> b \in canon, tip |-> tip]
    /\ UNCHANGED <<poolVars, nodeVars, todo, crashes>>

\* BlockStatus fails: SetBlockError keeps the row pending.
BlockStatusFails(b) ==
    /\ pc = "loop"
    /\ Oldest(b)
    /\ todo' = todo \ {b}
    /\ UNCHANGED <<poolVars, nodeVars, pc, obs, crashes>>

\* Slips in the switch: no status for an unknown block, maturity counted from
\* the height of the block, depth off by one, !known tested before the depth.
NextStatusUnset(b, o) ==
    IF o.canonical
    THEN IF o.tip >= height[b] + MaturityBlocks THEN "mature" ELSE "pending"
    ELSE IF o.tip >= height[b] + OrphanDepth THEN "orphan"
         ELSE IF ~o.known THEN "" ELSE status[b]

NextStatusNoMaturity(b, o) ==
    IF o.canonical
    THEN IF o.tip >= height[b] THEN "mature" ELSE "pending"
    ELSE IF o.tip >= height[b] + OrphanDepth THEN "orphan"
         ELSE IF ~o.known THEN "pending" ELSE status[b]

NextStatusShallow(b, o) ==
    IF o.canonical
    THEN IF o.tip >= height[b] + MaturityBlocks THEN "mature" ELSE "pending"
    ELSE IF o.tip >= height[b] + OrphanDepth - 1 THEN "orphan"
         ELSE IF ~o.known THEN "pending" ELSE status[b]

NextStatusUnknownFirst(b, o) ==
    IF o.canonical
    THEN IF o.tip >= height[b] + MaturityBlocks THEN "mature" ELSE "pending"
    ELSE IF ~o.known THEN "pending"
         ELSE IF o.tip >= height[b] + OrphanDepth THEN "orphan" ELSE status[b]

\* The switch of SetBlockState, over the answer o to a past question.
NextStatus(b, o) ==
    IF o.canonical
    THEN IF o.tip >= height[b] + MaturityBlocks THEN "mature" ELSE "pending"
    ELSE IF o.tip >= height[b] + OrphanDepth THEN "orphan"
         ELSE IF ~o.known THEN "pending" ELSE status[b]

SetBlockState(b) ==
    /\ pc = "apply"
    /\ obs.block = b
    /\ status' = [status EXCEPT ![b] = NextStatus(b, obs)]
    /\ todo' = todo \ {b}
    /\ obs' = NoObs
    /\ pc' = "loop"
    /\ UNCHANGED <<height, sub, nodeVars, crashes>>

\* The UPDATE fails: logged, and the next block is visited.
SetBlockStateFails(b) ==
    /\ pc = "apply"
    /\ obs.block = b
    /\ todo' = todo \ {b}
    /\ obs' = NoObs
    /\ pc' = "loop"
    /\ UNCHANGED <<poolVars, nodeVars, crashes>>

EndSync ==
    /\ pc = "loop"
    /\ todo = {}
    /\ pc' = "idle"
    /\ UNCHANGED <<poolVars, nodeVars, todo, obs, crashes>>
-----------------------------------------------------------------------------
\* The pool process dies and restarts; the database and what already left
\* for the node survive.
Crash ==
    /\ crashes < MaxCrashes
    /\ crashes' = crashes + 1
    /\ sub' = [b \in Block |-> IF sub[b] \in {"mining", "allocated"}
                               THEN "over" ELSE sub[b]]
    /\ pc' = "idle" /\ todo' = {} /\ obs' = NoObs
    /\ UNCHANGED <<status, height, nodeVars>>

Next ==
    \/ \E b \in Block :
          \/ AllocateBlock(b) \/ AllocationFails(b)
          \/ SubmitBlock(b) \/ SubmissionLost(b)
          \/ NodeExtendsWith(b) \/ NodeStores(b)
          \/ BlockStatus(b) \/ BlockStatusFails(b)
          \/ SetBlockState(b) \/ SetBlockStateFails(b)
    \/ Extend \/ Reorg
    \/ ListPending \/ EndSync
    \/ Crash

Spec == Init /\ [][Next]_vars

\* The chain grows, the ticker fires, and a node or store call that is tried
\* again and again succeeds again and again.
Fairness ==
    /\ WF_vars(Extend)
    /\ WF_vars(ListPending)
    /\ WF_vars(EndSync)
    /\ \A b \in Block :
          /\ SF_vars(BlockStatus(b))
          /\ SF_vars(SetBlockState(b))
          /\ WF_vars(BlockStatus(b) \/ BlockStatusFails(b))
          /\ WF_vars(SetBlockState(b) \/ SetBlockStateFails(b))

FairSpec == Spec /\ Fairness
-----------------------------------------------------------------------------
TypeOK ==
    /\ status \in [Block -> {"absent", "pending", "mature", "orphan"}]
    /\ height \in [Block -> Nat]
    /\ sub \in [Block -> {"mining", "allocated", "inflight", "over"}]
    /\ tip \in Nat
    /\ known \subseteq Block
    /\ canon \subseteq Block
    /\ pc \in {"idle", "loop", "apply"}
    /\ todo \subseteq Block
    /\ obs \in Observation \cup {NoObs}
    /\ crashes \in Nat

\* Credit becomes payable only for a block that is on the selected chain, now
\* and for good, even when SetBlockState acts on an answer the chain has left
\* behind (controller.go:121-126).
MatureIsCanonical ==
    \A b \in Block : status[b] = "mature" =>
        b \in canon /\ height[b] + MaturityBlocks <= tip

\* A block written off as an orphan never comes back to the selected chain,
\* also when it was judged while its submission was still on the way.
OrphanIsOffChain ==
    \A b \in Block : status[b] = "orphan" =>
        b \notin canon /\ height[b] + OrphanDepth <= tip

\* Everything the node can have of this pool has a frozen allocation: a crash,
\* a timeout or a lost response between AllocateBlock and SubmitBlock leaves
\* an allocation without a block, never a block without an allocation.
AccountedBeforeSubmitted ==
    \A b \in Block : b \in known \cup canon \/ sub[b] \in {"allocated", "inflight"}
        => status[b] # "absent"

\* SetBlockState has no guard on the row's status (store.go:453); no order of
\* polls, restarts and late answers ever reopens or flips a settled block.
SettledForGood ==
    [][\A b \in Block : status[b] \in Settled => status'[b] = status[b]]_vars

\* The controller eventually revisits every candidate, the unsubmitted and
\* the lost ones too (store.go:414-416), and settles it.
EveryBlockSettles ==
    \A b \in Block : status[b] = "pending" ~> status[b] \in Settled
=============================================================================

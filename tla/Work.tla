------------------------------- MODULE Work -------------------------------
(* From a template to a job, to a solved block (internal/stratum/work.go).   *)
(* Values of 256 bits are small integers below HashSpace; a difficulty is a  *)
(* multiple of 1/Precision, as a float64 is one of a power of two.  The hash *)
(* is collision-free: it is the term that it was computed from.              *)
EXTENDS Integers, SequencesExt

CONSTANTS HashSpace,     \* 2^256
          One,           \* difficultyOneTarget
          Precision

ASSUME WorkAssumption ==
    /\ HashSpace \in Nat \ {0, 1} /\ Precision \in Nat \ {0}
    /\ One \in 1..(HashSpace - 1)

Target == 1..(HashSpace - 1)
Clamp(x) == IF x < 1 THEN 1 ELSE IF x >= HashSpace THEN HashSpace - 1 ELSE x

\* Slip: the quotient is rounded down.
TargetDifficultyDown(target) ==
    IF Precision * One < target THEN 1 ELSE (Precision * One) \div target

\* The difficulty of a target, rounded up to one that can be represented.
TargetDifficulty(target) == (Precision * One + target - 1) \div target
\* The target of a difficulty; a miner computes it from what it was told.
TargetForDifficulty(difficulty) == Clamp((Precision * One) \div difficulty)
TargetWork(target) == HashSpace \div (target + 1)

\* newJob: "a share target must never be harder than the block target".
ShareOf(target, difficulty) ==
    IF difficulty >= TargetDifficulty(target)
    THEN [difficulty |-> TargetDifficulty(target), target |-> target]
    ELSE [difficulty |-> difficulty, target |-> TargetForDifficulty(difficulty)]

\* What solve says of a solution with this hash.
Verdict(hash, target, difficulty) ==
    [accepted |-> hash <= ShareOf(target, difficulty).target, network |-> hash <= target]
---------------------------------------------------------------------------
(* Blocks: a header, the last transaction (the work), and the subtrees that  *)
(* the other transactions make.                                              *)

TransactionLeaf(tx) == <<0, tx>>
MerklePair(left, right) == <<1, left, right>>
Root(tx, branch) ==
    FoldLeft(LAMBDA root, left : MerklePair(left, root), TransactionLeaf(tx), branch)

HeaderOf(block) ==
    [parent |-> block.parent, nonce |-> block.nonce,
     time |-> block.time, commitment |-> block.commitment]

\* Would the node find the transactions the header commits to?
Committed(block) == block.commitment = Root(block.work, block.branch)

Coinbase(t, extra) == <<t.coinbase1, extra, t.coinbase2>>

\* Slip: the branch is taken as it comes.
ConsistentUnchecked(t) ==
    /\ Coinbase(t, t.workNonce) = t.lastTransaction
    /\ t.header = [parent |-> t.parent, nonce |-> t.header.nonce,
                   time |-> t.timestamp, commitment |-> t.commitment]
    /\ HeaderOf(t.block) = t.header

\* newWorkTemplate, for fields that decode: do they describe one block?
Consistent(t) ==
    /\ Coinbase(t, t.workNonce) = t.lastTransaction
    /\ Root(Coinbase(t, t.workNonce), t.branch) = t.commitment
    /\ t.header = [parent |-> t.parent, nonce |-> t.header.nonce,
                   time |-> t.timestamp, commitment |-> t.commitment]
    /\ HeaderOf(t.block) = t.header

\* The header whose hash solve compares with the targets; jobTime is the only
\* time it accepts, and predictedID is the hash of this header.
SolvedHeader(t, extra, jobTime, nonce) ==
    [parent |-> t.parent, nonce |-> nonce, time |-> jobTime,
     commitment |-> Root(Coinbase(t, extra), t.branch)]

\* The block that is submitted: the template's, with four fields replaced.
SolvedBlock(t, extra, jobTime, nonce) ==
    [t.block EXCEPT !.work = Coinbase(t, extra),
                    !.commitment = Root(Coinbase(t, extra), t.branch),
                    !.nonce = nonce,
                    !.time = jobTime]
===========================================================================

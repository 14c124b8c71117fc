------------------------------ MODULE MCPayouts ------------------------------
(* Payouts for TLC.  A quarter of each reward stays with the pool; the       *)
(* smallest batch is three units and costs one, so that quarter just pays    *)
(* for the fees.                                                             *)
EXTENDS Payouts

CONSTANTS b1, b2

Addresses == 1..2
Blocks == {b1, b2}
EvenAward == {[credit |-> [a \in Addresses |-> 3], poolFee |-> 2]}
Awards == {[credit |-> [a \in Addresses |-> IF a = 1 THEN x ELSE 3 - x],
            poolFee |-> 1] : x \in {0, 1}}
         \cup EvenAward
MinimumBoth == [u \in 1..2 |-> IF u = 1 THEN 3 ELSE 2]
MinimumOne == [u \in 1..1 |-> 3]
FeeBoth == [u \in 1..2 |-> IF u = 1 THEN 1 ELSE 0]
FeeOne == [u \in 1..1 |-> 0]

\* The instance is as tight as it can be: a third of a batch, a third of a block.
ASSUME InstanceIsCovered == FeesCovered(1, 3)
==============================================================================

------------------------------- MODULE MCPool -------------------------------
(* The pool process for TLC: a behaviour is one of Pool, which has the state *)
(* of its parts, or one of Locks, which has what they wait for.  See         *)
(* MCPool.cfg for the bounds.                                                *)
EXTENDS Pool

CONSTANTS b1, b2, Conn, MaxActive

VARIABLES
    view,    \* of which of the two the behaviour is one
    amount,  \* what an address is to earn, chosen for good: see EarningsArrive
    todoLocks, owner, stalled, closed

L == INSTANCE Locks WITH todo <- todoLocks
lockVars == <<todoLocks, owner, stalled, closed>>
allVars == <<vars, lockVars, view, amount>>

InitAll ==
    /\ Init /\ L!Init
    /\ \/ view = "state" /\ amount \in 1..2
       \/ view = "locks" /\ amount = 0

NextAll ==
    /\ UNCHANGED <<view, amount>>
    /\ \/ view = "state" /\ Next /\ UNCHANGED lockVars
       \/ view = "locks" /\ L!Next /\ UNCHANGED vars

SpecAll == InitAll /\ [][NextAll]_allVars

\* Steps in a behaviour of Pool; steps in which a call fails or times out, and
\* which differ from those in which it does not.
Of(A) == view = "state" /\ A
Poll == SyncStep \/ \E b \in Block : SetBlockState(b)
Pay(A) == A /\ UNCHANGED watchVars
Failure ==
    /\ \/ \E b \in Block : W!BlockStatusFails(b) \/ W!SetBlockStateFails(b)
       \/ P!StoreFails \/ P!AccountingFails \/ P!PayoutTimesOut
    /\ ~\/ \E b \in Block : W!SetBlockState(b)
        \/ P!PrepareNothing \/ P!PayoutAnswered \/ P!PayoutRefused

\* Both tickers fire, and a select that finds both ready takes either at
\* random; passes move on; the node answers, signs what it is asked for again
\* and again, and what is signed becomes final.  Calls may fail in any number
\* and order, but not for ever.
Fairness ==
    /\ SF_vars(Of(SyncTick)) /\ SF_vars(Of(PayTick))
    /\ WF_vars(Of(Poll))
    /\ WF_vars(Of(Pay(P!ListActive \/ P!PrepareNothing \/ P!EndPass)))
    /\ WF_vars(Of(Pay(P!PayoutAnswered \/ P!PayoutRefused \/ P!NodeAnswers)))
    /\ WF_vars(Of(Pay(\E p \in P!PayoutId : P!PreparePayouts(p) \/ P!SendPayout(p))))
    /\ SF_vars(Of(Pay(P!NodeSigns)))
    /\ WF_vars(Of(Pay(\E p \in P!PayoutId : P!NodeFinalizes(p))))
    /\ <>[][~Failure]_vars

FairSpecAll == SpecAll /\ Fairness

\* No goroutine of the process waits for ever: see Locks.
WaitsEnd == L!WaitsEnd

\* What buried blocks have earned an address arrives, but for a remainder
\* below the minimum: through both loops, one ticker each, through polls that
\* fail or answer late, batches that wait for the one under way, time-outs and
\* a restart (controller.go:96-105, docs/accounting.md).
EarningsArrive ==
    \A a \in Address : Earned(a) >= amount ~> Received(a) + Minimum[unit] > amount

Addresses == 1..1
Blocks == {b1, b2}
Awards == {[credit |-> [a \in Addresses |-> 1], poolFee |-> 1]}
MinimumOne == [u \in 1..1 |-> 1]
FeeOne == [u \in 1..1 |-> 1]
=============================================================================

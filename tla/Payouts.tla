------------------------------- MODULE Payouts -------------------------------
(* The pool's ledger and the payout pass of the controller                  *)
(* (internal/pool/controller.go processPayouts, internal/store/store.go).   *)
(*                                                                          *)
(* Frozen allocations become payable when their block matures.  One pass    *)
(* reads the node's status, resumes the active payouts or prepares one new  *)
(* batch, and asks the node's wallet to sign and relay it.  Every request   *)
(* may time out and still reach the wallet later; the pool may die between  *)
(* any two steps; the displayed unit changes once, at PQ Day.               *)
EXTENDS Integers, FiniteSets, Totals

CONSTANTS
    Address,      \* payout addresses, named so that < is their string order
    Block,        \* blocks the pool found
    Award,        \* what AllocateBlock may compute for a block
    MaxUnit,      \* denominations 1..MaxUnit: before and after PQ Day
    Minimum,      \* minimum payout in atomic units, 0 when it does not parse
    PayoutFee,    \* fee of a batch in atomic units, by denomination
    MaxOutputs,   \* Config.MaxOutputs (100)
    ActiveLimit,  \* LIMIT of ActivePayouts (10)
    MaxPayouts,   \* bound on the payouts of a behaviour
    MaxCrashes,   \* bound on restarts of the pool
    NoRequest     \* no request

Unit == 1..MaxUnit
PayoutId == 1..MaxPayouts
Request == [id : PayoutId, unit : Unit, fee : Nat, items : [Address -> Nat]]
NoAward == [credit |-> [a \in Address |-> 0], poolFee |-> 0]

ASSUME LedgerAssumption ==
    /\ Address \subseteq Nat /\ IsFiniteSet(Address)
    /\ IsFiniteSet(Block)
    /\ Award \subseteq [credit : [Address -> Nat], poolFee : Nat]
    /\ MaxUnit \in Nat \ {0}
    /\ Minimum \in [Unit -> Nat]
    /\ PayoutFee \in [Unit -> Nat]
    /\ MaxOutputs \in Nat \ {0}
    /\ ActiveLimit \in Nat \ {0}
    /\ MaxPayouts \in Nat
    /\ MaxCrashes \in Nat

ASSUME NoRequestAssumption == NoRequest \notin Request

VARIABLES
    status,   \* blocks.status
    award,    \* allocations of a block and the reserve kept from it
    paystat,  \* payouts.status, "absent" before the row is inserted
    item,     \* payout_items: what a payout sends to each address
    fee,      \* payouts.fee_atomic
    unit,     \* the node's denomination
    signed,   \* the request the node signed and persisted for an id
    final,    \* payouts six blocks deep
    pc,       \* where processPayouts is
    seen,     \* status.Unit as read at the start of the pass
    batch,    \* active payouts of this pass not tried yet
    wire,     \* the request the pass waits for
    stray,    \* requests given up by the pool that may still arrive
    reply,    \* the node's answer to wire
    crashes

ledgerVars == <<status, award>>
payVars == <<paystat, item, fee>>
nodeVars == <<unit, signed, final>>
passVars == <<pc, seen, batch, wire, reply>>
vars == <<ledgerVars, payVars, nodeVars, passVars, stray, crashes>>

Active == {p \in PayoutId : paystat[p] \in {"prepared", "submitted"}}
\* Slip: a confirmed payout is done and counts no more.
ReservingActive == {p \in PayoutId : paystat[p] \in {"prepared", "submitted"}}

Reserving == {p \in PayoutId : paystat[p] \in {"prepared", "submitted", "confirmed"}}
Matured == {b \in Block : status[b] = "mature"}
Pending == {b \in Block : status[b] = "pending"}
Queued == {p \in PayoutId : paystat[p] = "prepared"}
\* Slip: what the wallet signed and is not final is left out.
PaidConfirmed == {p \in PayoutId : paystat[p] = "confirmed"}

Paid == {p \in PayoutId : paystat[p] \in {"submitted", "confirmed"}}
Signed == {p \in PayoutId : signed[p] # NoRequest}

(* Store.balances, per address.                                             *)
Mature(a) == Total(Matured, [b \in Block |-> award[b].credit[a]])
Reserved(a) == Total(Reserving, [p \in PayoutId |-> item[p][a]])
\* Slip: the balance forgets what is reserved.
AvailableGross(a) == Mature(a)
Available(a) == Mature(a) - Reserved(a)
Announced(a) == Total(Pending, [b \in Block |-> award[b].credit[a]])
InQueue(a) == Total(Queued, [p \in PayoutId |-> item[p][a]])
PaidOut(a) == Total(Paid, [p \in PayoutId |-> item[p][a]])

Init ==
    /\ status = [b \in Block |-> "absent"]
    /\ award = [b \in Block |-> NoAward]
    /\ paystat = [p \in PayoutId |-> "absent"]
    /\ item = [p \in PayoutId |-> [a \in Address |-> 0]]
    /\ fee = [p \in PayoutId |-> 0]
    /\ unit = 1
    /\ signed = [p \in PayoutId |-> NoRequest]
    /\ final = {}
    /\ pc = "idle" /\ seen = 1 /\ batch = {}
    /\ wire = NoRequest /\ stray = {} /\ reply = "none"
    /\ crashes = 0
------------------------------------------------------------------------------
(* What happens to the ledger around the payouts.                           *)

\* A submit handler commits a block with its allocations.
AllocateBlock(b) ==
    /\ status[b] = "absent"
    /\ status' = [status EXCEPT ![b] = "pending"]
    /\ \E w \in Award : award' = [award EXCEPT ![b] = w]
    /\ UNCHANGED <<payVars, nodeVars, passVars, stray, crashes>>

\* syncBlocks settles a block.  It is the same goroutine as the payout pass,
\* so never in the middle of one.
SettleBlock(b) ==
    /\ pc = "idle"
    /\ status[b] = "pending"
    /\ \E s \in {"mature", "orphan"} : status' = [status EXCEPT ![b] = s]
    /\ UNCHANGED <<award, payVars, nodeVars, passVars, stray, crashes>>
------------------------------------------------------------------------------
(* Controller.processPayouts.                                               *)

\* Status answers with a synced, unlocked wallet, DEFEND is answered if it is
\* due, and the policy parses in the unit of this status.
ReadStatus ==
    /\ pc = "idle"
    /\ Minimum[unit] > 0
    /\ seen' = unit
    /\ pc' = "list"
    /\ UNCHANGED <<ledgerVars, payVars, nodeVars, batch, wire, reply, stray, crashes>>

\* Slip: the WHERE clause of ActivePayouts names submitted rows only.
ListSubmitted ==
    LET S == {p \in PayoutId : paystat[p] = "submitted"} IN
    /\ pc = "list"
    /\ IF S = {} THEN pc' = "prepare" /\ batch' = {} ELSE pc' = "send" /\ batch' = S
    /\ UNCHANGED <<ledgerVars, payVars, nodeVars, seen, wire, reply, stray, crashes>>

\* ActivePayouts: the oldest prepared or submitted payouts.
ListActive ==
    /\ pc = "list"
    /\ IF Active = {}
       THEN pc' = "prepare" /\ batch' = {}
       ELSE /\ pc' = "send"
            /\ batch' = {p \in Active :
                            Cardinality({q \in Active : q < p}) < ActiveLimit}
    /\ UNCHANGED <<ledgerVars, payVars, nodeVars, seen, wire, reply, stray, crashes>>

\* A store call of the pass fails and the pass ends.
StoreFails ==
    /\ pc \in {"list", "prepare"}
    /\ pc' = "idle"
    /\ UNCHANGED <<ledgerVars, payVars, nodeVars, seen, batch, wire, reply, stray, crashes>>

\* Slips: any balance is eligible; a balance equal to the minimum is not.
EligibleDust == {a \in Address : Available(a) > 0}
EligibleAbove == {a \in Address : Available(a) > Minimum[seen]}

Eligible == {a \in Address : Available(a) >= Minimum[seen]}

\* The order of PreparePayouts: larger balances first, then by address.
Before(a, b) ==
    \/ Available(a) > Available(b)
    \/ Available(a) = Available(b) /\ a < b

\* The recipients of the next batch: the first MaxOutputs eligible addresses.
Recipients ==
    {a \in Eligible : Cardinality({b \in Eligible : Before(b, a)}) < MaxOutputs}

\* Nothing to pay: an empty transaction commits.
PrepareNothing ==
    /\ pc = "prepare"
    /\ Eligible = {}
    /\ pc' = "idle"
    /\ UNCHANGED <<ledgerVars, payVars, nodeVars, seen, batch, wire, reply, stray, crashes>>

\* One transaction reserves the whole available balance of every recipient.
PreparePayouts(p) ==
    /\ pc = "prepare"
    /\ Eligible # {}
    /\ paystat[p] = "absent"
    /\ \A q \in PayoutId : q < p => paystat[q] # "absent"
    /\ paystat' = [paystat EXCEPT ![p] = "prepared"]
    /\ item' = [item EXCEPT ![p] =
                   [a \in Address |-> IF a \in Recipients THEN Available(a) ELSE 0]]
    /\ fee' = [fee EXCEPT ![p] = PayoutFee[seen]]
    /\ batch' = {p}
    /\ pc' = "send"
    /\ UNCHANGED <<ledgerVars, nodeVars, seen, wire, reply, stray, crashes>>

\* Slip: the fee is computed again from the unit of this pass.
RequestAtCurrentFee(p) ==
    [id |-> p, unit |-> seen, fee |-> PayoutFee[seen], items |-> item[p]]

\* The request carries the row's id, fee and items, and the unit of this pass.
RequestOf(p) == [id |-> p, unit |-> seen, fee |-> fee[p], items |-> item[p]]

\* The payouts of the pass go out oldest first, one at a time.
SendPayout(p) ==
    /\ pc = "send"
    /\ p \in batch
    /\ \A q \in batch : p <= q
    /\ wire' = RequestOf(p)
    /\ reply' = "none"
    /\ pc' = "await"
    /\ UNCHANGED <<ledgerVars, payVars, nodeVars, seen, batch, stray, crashes>>

\* The pass is done with wire and turns to the rest of the batch.
NextPayout ==
    /\ batch' = batch \ {wire.id}
    /\ wire' = NoRequest
    /\ reply' = "none"
    /\ pc' = "send"

\* Slip: the node's own word for an unconfirmed payout is stored.
SetPayoutStateVerbatim(p, s) ==
    paystat' = [paystat EXCEPT ![p] = IF s = "confirmed" THEN s ELSE "queued"]

\* Slip: the UPDATE names prepared rows only.
SetPayoutStateOnce(p, s) ==
    paystat' = IF paystat[p] = "prepared" THEN [paystat EXCEPT ![p] = s] ELSE paystat

\* SetPayoutState, guarded by the row's status in its UPDATE.
SetPayoutState(p, s) ==
    paystat' = IF p \in Active THEN [paystat EXCEPT ![p] = s] ELSE paystat

\* The node signed the request; "confirmed" is kept, everything else is
\* recorded as submitted.
PayoutAnswered ==
    /\ pc = "await"
    /\ reply \in {"submitted", "confirmed"}
    /\ SetPayoutState(wire.id, reply)
    /\ NextPayout
    /\ UNCHANGED <<ledgerVars, item, fee, nodeVars, seen, stray, crashes>>

\* The node signed the request and the accounting update fails.
AccountingFails ==
    /\ pc = "await"
    /\ reply \in {"submitted", "confirmed"}
    /\ NextPayout
    /\ UNCHANGED <<ledgerVars, payVars, nodeVars, seen, stray, crashes>>

\* Slip: a refused batch is dropped and its balances released.
PayoutRefusedReleases ==
    /\ pc = "await"
    /\ reply = "error"
    /\ paystat' = [paystat EXCEPT ![wire.id] = "absent"]
    /\ NextPayout
    /\ UNCHANGED <<ledgerVars, item, fee, nodeVars, seen, stray, crashes>>

\* The node refused: PayoutError, and the row stays queued.
PayoutRefused ==
    /\ pc = "await"
    /\ reply = "error"
    /\ NextPayout
    /\ UNCHANGED <<ledgerVars, payVars, nodeVars, seen, stray, crashes>>

\* The request times out.  It may be answered already, be on its way, or be
\* lost: the pool cannot tell, and the row stays queued.
PayoutTimesOut ==
    /\ pc = "await"
    /\ stray' = stray \cup {wire}
    /\ NextPayout
    /\ UNCHANGED <<ledgerVars, payVars, nodeVars, seen, crashes>>

EndPass ==
    /\ pc = "send"
    /\ batch = {}
    /\ pc' = "idle"
    /\ UNCHANGED <<ledgerVars, payVars, nodeVars, seen, batch, wire, reply, stray, crashes>>
------------------------------------------------------------------------------
(* The node's wallet (external).                                            *)

Arriving == stray \cup (IF pc = "await" /\ reply = "none" THEN {wire} ELSE {})

\* A new request id in the current unit is signed and persisted.
NodeSigns ==
    \E r \in Arriving :
        /\ signed[r.id] = NoRequest
        /\ r.unit = unit
        /\ signed' = [signed EXCEPT ![r.id] = r]
        /\ UNCHANGED <<ledgerVars, payVars, unit, final, passVars, stray, crashes>>

\* A signed id with identical contents is answered with its transaction,
\* with different contents it is rejected.  An unsigned one may be rejected.
NodeAnswers ==
    /\ pc = "await"
    /\ reply = "none"
    /\ reply' = IF signed[wire.id] # wire THEN "error"
                ELSE IF wire.id \in final THEN "confirmed" ELSE "submitted"
    /\ UNCHANGED <<ledgerVars, payVars, nodeVars, pc, seen, batch, wire, stray, crashes>>

\* The transaction of a signed request becomes final.
NodeFinalizes(p) ==
    /\ p \in Signed \ final
    /\ final' = final \cup {p}
    /\ UNCHANGED <<ledgerVars, payVars, unit, signed, passVars, stray, crashes>>

\* PQ Day: the displayed unit becomes smaller.
PQDay ==
    /\ unit < MaxUnit
    /\ unit' = unit + 1
    /\ UNCHANGED <<ledgerVars, payVars, signed, final, passVars, stray, crashes>>
------------------------------------------------------------------------------
\* The pool process dies and restarts; the database and the node survive, and
\* what was on the wire may still arrive.
Crash ==
    /\ crashes < MaxCrashes
    /\ crashes' = crashes + 1
    /\ stray' = IF pc = "await" THEN stray \cup {wire} ELSE stray
    /\ pc' = "idle" /\ batch' = {} /\ wire' = NoRequest /\ reply' = "none"
    /\ UNCHANGED <<ledgerVars, payVars, nodeVars, seen>>

Next ==
    \/ \E b \in Block : AllocateBlock(b) \/ SettleBlock(b)
    \/ ReadStatus \/ ListActive \/ StoreFails \/ PrepareNothing
    \/ \E p \in PayoutId : PreparePayouts(p) \/ SendPayout(p) \/ NodeFinalizes(p)
    \/ PayoutAnswered \/ AccountingFails \/ PayoutRefused \/ PayoutTimesOut
    \/ EndPass
    \/ NodeSigns \/ NodeAnswers \/ PQDay
    \/ Crash

Spec == Init /\ [][Next]_vars

\* The ticker fires and the pass moves on; the wallet signs, answers and is
\* heard again and again when it is asked again and again; what is signed
\* becomes final.
Fairness ==
    /\ WF_vars(ReadStatus) /\ SF_vars(ListActive) /\ SF_vars(PrepareNothing)
    /\ WF_vars(EndPass) /\ WF_vars(PayoutRefused)
    /\ SF_vars(NodeSigns) /\ SF_vars(NodeAnswers) /\ SF_vars(PayoutAnswered)
    /\ \A p \in PayoutId :
          /\ SF_vars(PreparePayouts(p))
          /\ WF_vars(SendPayout(p))
          /\ WF_vars(NodeFinalizes(p))

FairSpec == Spec /\ Fairness
------------------------------------------------------------------------------
TypeOK ==
    /\ status \in [Block -> {"absent", "pending", "mature", "orphan"}]
    /\ award \in [Block -> [credit : [Address -> Nat], poolFee : Nat]]
    /\ paystat \in [PayoutId -> {"absent", "prepared", "submitted", "confirmed"}]
    /\ item \in [PayoutId -> [Address -> Nat]]
    /\ fee \in [PayoutId -> Nat]
    /\ unit \in Unit
    /\ signed \in [PayoutId -> Request \cup {NoRequest}]
    /\ final \subseteq PayoutId
    /\ pc \in {"idle", "list", "prepare", "send", "await"}
    /\ seen \in Unit
    /\ batch \subseteq PayoutId
    /\ wire \in Request \cup {NoRequest}
    /\ stray \subseteq Request
    /\ reply \in {"none", "submitted", "confirmed", "error"}
    /\ crashes \in Nat

\* Payouts never reserve more than an address earned in mature blocks, so no
\* credit is promised twice whatever fails or restarts (store.go:549-566).
NeverOverReserved == \A a \in Address : Reserved(a) <= Mature(a)

\* What the node signed for an address, timed-out and late requests included,
\* is within its mature credit: a retry is never a second payment.
PaidWithinCredit ==
    \A a \in Address :
        Total(Signed, [p \in Signed |-> signed[p].items[a]]) <= Mature(a)

\* One batch at a time: a new one waits until the last is confirmed, also
\* when a pass was cut short (controller.go:168-182).
AtMostOneActive == \A p, q \in Active : p = q

\* The books never run ahead of the node: a payout is submitted only if the
\* node signed exactly its items and fee, confirmed only if that is final.
BooksFollowNode ==
    /\ \A p \in Signed : /\ signed[p].id = p
                         /\ signed[p].items = item[p]
                         /\ signed[p].fee = fee[p]
                         /\ paystat[p] # "absent"
    /\ \A p \in PayoutId :
          /\ paystat[p] \in {"submitted", "confirmed"} => p \in Signed
          /\ paystat[p] = "confirmed" => p \in final

\* What the operator must see to (the flags are checked one by one,
\* main.go:91): a batch of a minimum payout or more costs at most part parts in
\* whole of what it pays, and a block keeps at least as much of its credit.
FeesCovered(part, whole) ==
    /\ \A u \in Unit : PayoutFee[u] * whole <= part * Minimum[u]
    /\ \A w \in Award : part * Total(Address, w.credit) <= whole * w.poolFee

\* The percentage kept from the blocks pays the network fees of all batches
\* (main.go:91).
ReserveCoversFees ==
    Total(Signed, fee) <= Total(Matured, [b \in Block |-> award[b].poolFee])

\* A batch's outputs and fee are exact atomic values that never change after
\* it is prepared, and a confirmed batch stays confirmed.
BatchIsFrozen ==
    [][\A p \in PayoutId : paystat[p] # "absent" =>
           /\ item'[p] = item[p] /\ fee'[p] = fee[p]
           /\ paystat'[p] # "absent"
           /\ paystat[p] = "confirmed" => paystat'[p] = "confirmed"]_vars

\* The pool keeps retrying a batch until the node reports it final, then
\* marks it confirmed (docs/accounting.md).
EveryBatchConfirms ==
    \A p \in PayoutId : paystat[p] = "prepared" ~> paystat[p] = "confirmed"

\* The account of every address moves only as Accounts says: no crash, retry
\* or late answer makes an amount appear, vanish, or move back, and a batch
\* moves whole (store.go:489-536, docs/accounting.md).
Books == INSTANCE Accounts
             WITH pending <- [a \in Address |-> Announced(a)],
                  balance <- [a \in Address |-> Available(a)],
                  queued <- [a \in Address |-> InQueue(a)],
                  paid <- [a \in Address |-> PaidOut(a)]

AccountSpec == Books!Spec

\* A matured balance above the minimum is eventually reserved for payment,
\* also behind larger balances and a batch that needs retries.
MaturedIsPaid ==
    \A a \in Address : Available(a) >= Minimum[unit] ~> Available(a) < Minimum[unit]
==============================================================================

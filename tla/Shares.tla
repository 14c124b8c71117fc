------------------------------- MODULE Shares -------------------------------
(* Accepted work, from the submit handlers (internal/stratum/server.go       *)
(* submit) through the shares table (internal/store/store.go RecordShare,    *)
(* PruneShares) to the frozen allocation of a found block (AllocateBlock).   *)
(*                                                                           *)
(* One handler per connection, all of them concurrent; the template loop     *)
(* moves to a new parent and prunes the table after it.  A share may be      *)
(* submitted any number of times.                                            *)
EXTENDS Pplns

CONSTANTS
    Miner,           \* connections
    Hash,            \* solved shares, named by their hash
    OwnerOf,         \* connection whose job a share solves
    AddressOf,       \* payout address of a connection
    WorkOf,          \* TargetWork of the share's target
    ParentOf,        \* parent of the job a share solves
    BlockHash,       \* shares that also meet the network target
    Reward,          \* value of a block
    WindowWork,      \* PPLNSWindow times the network work
    RetentionFactor, \* windows of work that PruneShares keeps (100)
    NoHash,          \* in no hand
    MaxSubmissions,  \* entries of a connection's duplicate map (8192)
    MaxParent        \* bound on the number of parents

Retention == RetentionFactor * WindowWork

ASSUME SharesAssumption ==
    /\ IsFiniteSet(Hash)
    /\ OwnerOf \in [Hash -> Miner]
    /\ AddressOf \in [Miner -> Address]
    /\ WorkOf \in [Hash -> Nat \ {0}]
    /\ MaxParent \in Nat \ {0}
    /\ ParentOf \in [Hash -> 1..MaxParent]
    /\ BlockHash \subseteq Hash
    /\ Reward \in Nat \ {0}
    /\ WindowWork \in Nat \ {0}
    /\ RetentionFactor \in Nat \ {0}
    /\ NoHash \notin Hash
    /\ MaxSubmissions \in Nat \ {0}

VARIABLES
    parent,    \* the parent the pool works on
    shares,    \* the shares table: rows [id, hash], with the parent of the pool
               \* when they were inserted
    nextId,    \* AUTOINCREMENT
    submits,   \* duplicate map of each connection
    pc,        \* where a connection's submit handler is
    hand,      \* the share it handles
    cutoff,    \* its shareID
    pruneDue,  \* the parent changed since the last prune
    pruneCut,  \* id below which PruneShares deletes, 0 when it is not running
    blocks,    \* found blocks with their cutoff and allocations
    history    \* every row ever inserted

vars == <<parent, shares, nextId, submits, pc, hand, cutoff, pruneDue, pruneCut,
          blocks, history>>

WorkIn(rows) == Total(rows, [row \in rows |-> WorkOf[row.hash]])
UpTo(rows, id) == {row \in rows : row.id <= id}
From(rows, id) == {row \in rows : row.id >= id}
After(rows, id) == {row \in rows : row.id > id}
Credit(row) == [address |-> AddressOf[OwnerOf[row.hash]], work |-> WorkOf[row.hash]]
Credits(rows) == [row \in rows |-> Credit(row)]

Init ==
    /\ parent = 1
    /\ shares = {} /\ nextId = 1 /\ history = {}
    /\ submits = [m \in Miner |-> {}]
    /\ pc = [m \in Miner |-> "idle"]
    /\ hand = [m \in Miner |-> NoHash]
    /\ cutoff = [m \in Miner |-> 0]
    /\ pruneDue = FALSE /\ pruneCut = 0
    /\ blocks = <<>>
-----------------------------------------------------------------------------
(* client.submit.                                                            *)

\* The duplicate map, emptied when it is full.
Remember(seen, x) ==
    IF Cardinality(seen) >= MaxSubmissions THEN {x} ELSE seen \cup {x}

\* The job is the connection's own, its parent is current, and the solution
\* is not in the duplicate map.
Submit(m, x) ==
    /\ pc[m] = "idle"
    /\ OwnerOf[x] = m
    /\ ParentOf[x] = parent
    /\ x \notin submits[m]
    /\ submits' = [submits EXCEPT ![m] = Remember(@, x)]
    /\ pc' = [pc EXCEPT ![m] = "record"]
    /\ hand' = [hand EXCEPT ![m] = x]
    /\ UNCHANGED <<parent, shares, nextId, cutoff, pruneDue, pruneCut, blocks, history>>

\* The rows inserted since the oldest parent a handler works on.
Busy == {m \in Miner : pc[m] # "idle"}
Overlapping == {row \in history : \E m \in Busy : row.parent >= ParentOf[hand[m]]}

\* Assumption: between the arrival of a parent and the end of the last
\* handler that saw it, the pool records less work than PruneShares retains
\* beyond one window.  The source retains a hundred windows.
InTime(x) == WorkIn(Overlapping) + WorkOf[x] <= Retention - WindowWork

\* Slip: the row is inserted whether or not its hash is there.
NothingStored == {}

Stored == {row.hash : row \in shares}

\* INSERT ... ON CONFLICT(hash) DO NOTHING: one row of its own id, or none.
RecordShare(m) ==
    /\ pc[m] = "record"
    /\ LET x == hand[m]
           row == [id |-> nextId, hash |-> x, parent |-> parent]
       IN IF x \in Stored
          THEN /\ pc' = [pc EXCEPT ![m] = "idle"]
               /\ UNCHANGED <<shares, nextId, cutoff, history>>
          ELSE /\ InTime(x)
               /\ shares' = shares \cup {row}
               /\ history' = history \cup {row}
               /\ nextId' = nextId + 1
               /\ cutoff' = [cutoff EXCEPT ![m] = nextId]
               /\ pc' = [pc EXCEPT ![m] = IF x \in BlockHash THEN "allocate" ELSE "idle"]
    /\ UNCHANGED <<parent, submits, hand, pruneDue, pruneCut, blocks>>

\* The insert fails: the miner is refused, and the duplicate map remembers.
RecordFails(m) ==
    /\ pc[m] = "record"
    /\ pc' = [pc EXCEPT ![m] = "idle"]
    /\ UNCHANGED <<parent, shares, nextId, submits, hand, cutoff, pruneDue, pruneCut,
                   blocks, history>>

\* Slip: the window is read from the newest share, not from the cutoff.
FrozenWindowNewest(id) == Window(shares, Credits(shares), WindowWork)

FrozenWindow(id) ==
    LET rows == UpTo(shares, id) IN Window(rows, Credits(rows), WindowWork)

\* One transaction under s.mu: the block is new, the window is frozen at the
\* winning share, and the reward is divided.
AllocateBlock(m) ==
    /\ pc[m] = "allocate"
    /\ pruneCut = 0
    /\ pc' = [pc EXCEPT ![m] = "idle"]
    /\ LET window == FrozenWindow(cutoff[m])
       IN IF window.selected = 0 \/ \E i \in DOMAIN blocks : blocks[i].hash = hand[m]
          THEN UNCHANGED blocks
          ELSE blocks' = Append(blocks,
                   [hash |-> hand[m], cutoff |-> cutoff[m],
                    selected |-> window.selected,
                    amounts |-> Allocations(Reward, window.work)])
    /\ UNCHANGED <<parent, shares, nextId, submits, hand, cutoff, pruneDue, pruneCut, history>>

\* The transaction fails and rolls back: the block is withheld.
AllocationFails(m) ==
    /\ pc[m] = "allocate"
    /\ pc' = [pc EXCEPT ![m] = "idle"]
    /\ UNCHANGED <<parent, shares, nextId, submits, hand, cutoff, pruneDue, pruneCut,
                   blocks, history>>
-----------------------------------------------------------------------------
(* templateLoop.                                                             *)

\* A template with another parent; the loop prunes before its next template.
NewParent ==
    /\ parent < MaxParent
    /\ ~pruneDue
    /\ parent' = parent + 1
    /\ pruneDue' = TRUE
    /\ UNCHANGED <<shares, nextId, submits, pc, hand, cutoff, pruneCut, blocks, history>>

\* Slip: the newest rows are cut, the oldest kept.
CutoffsOldest ==
    {row.id : row \in {r \in shares : /\ WorkIn(UpTo(shares, r.id)) >= Retention
                                     /\ WorkIn(UpTo(shares, r.id - 1)) < Retention}}

\* The id at which the scan, newest first, reaches the retained work.
Cutoffs ==
    {row.id : row \in {r \in shares : /\ WorkIn(From(shares, r.id)) >= Retention
                                     /\ WorkIn(After(shares, r.id)) < Retention}}

\* PruneShares scans under s.mu; RecordShare does not take it.  With too
\* little work, or an error, the table stays as it is.
PruneScan ==
    /\ pruneDue
    /\ pruneCut = 0
    /\ IF Cutoffs = {} THEN pruneDue' = FALSE /\ UNCHANGED pruneCut
       ELSE /\ pruneCut' \in Cutoffs
            /\ UNCHANGED pruneDue
    /\ UNCHANGED <<parent, shares, nextId, submits, pc, hand, cutoff, blocks, history>>

PruneDelete ==
    /\ pruneCut # 0
    /\ shares' = From(shares, pruneCut)
    /\ pruneCut' = 0
    /\ pruneDue' = FALSE
    /\ UNCHANGED <<parent, nextId, submits, pc, hand, cutoff, blocks, history>>

PruneFails ==
    /\ pruneDue
    /\ pruneCut' = 0
    /\ pruneDue' = FALSE
    /\ UNCHANGED <<parent, shares, nextId, submits, pc, hand, cutoff, blocks, history>>

Next ==
    \/ \E m \in Miner :
          \/ \E x \in Hash : Submit(m, x)
          \/ RecordShare(m) \/ RecordFails(m)
          \/ AllocateBlock(m) \/ AllocationFails(m)
    \/ NewParent \/ PruneScan \/ PruneDelete \/ PruneFails

Spec == Init /\ [][Next]_vars
-----------------------------------------------------------------------------
Row == [id : Nat \ {0}, hash : Hash, parent : 1..MaxParent]

TypeOK ==
    /\ parent \in 1..MaxParent
    /\ nextId \in Nat \ {0}
    /\ history \subseteq Row /\ IsFiniteSet(history) /\ shares \subseteq history
    /\ submits \in [Miner -> SUBSET Hash]
    /\ pc \in [Miner -> {"idle", "record", "allocate"}]
    /\ hand \in [Miner -> Hash \cup {NoHash}]
    /\ \A m \in Busy : hand[m] \in Hash
    /\ cutoff \in [Miner -> Nat]
    /\ pruneDue \in BOOLEAN
    /\ pruneCut \in Nat

\* A solution is credited at most once, whatever is resubmitted: when the
\* duplicate map was emptied (server.go:866) the table still has the hash,
\* and when the table was pruned the job's parent is gone.
CreditedOnce ==
    \A r, s \in history : r.hash = s.hash => r = s

\* The accepted work at or before the winning share, as if nothing was ever
\* pruned and nobody else submitted after it: a share counts for what of it
\* lies within WindowWork of the cutoff.
Counted(rows, row) ==
    LET room == WindowWork - WorkIn(After(rows, row.id))
    IN IF room <= 0 THEN 0
       ELSE IF WorkOf[row.hash] > room THEN room ELSE WorkOf[row.hash]

IdealWork(rows) ==
    [a \in Address |-> Total({row \in rows : AddressOf[OwnerOf[row.hash]] = a},
                             [row \in rows |-> Counted(rows, row)])]

\* The allocation of a block is the division by the full history up to its
\* winning share: no later share enters it, and no prune between RecordShare
\* and AllocateBlock takes anything from it (docs/accounting.md).
FrozenAtCutoff ==
    \A i \in DOMAIN blocks :
        LET work == IdealWork(UpTo(history, blocks[i].cutoff))
        IN /\ blocks[i].selected = Selected(work)
           /\ blocks[i].amounts = Allocations(Reward, work)
           /\ Total(Address, blocks[i].amounts) = Distributable(Reward)

\* A prune never leaves less than the retained work while more was recorded.
RetainsEnough ==
    WorkIn(shares) >= Retention \/ shares = history
=============================================================================

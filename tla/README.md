# A TLA+ model of QDAY Pool

`qday-pool` is a mining pool: it hands out work of a local QDAY node over a
Stratum protocol, records accepted shares in SQLite, divides every block it
finds by PPLNS and pays matured balances through the node's wallet. This
directory holds TLA+ modules of it, TLC configurations that model-check them on
small instances, and TLAPS proofs for every value of the constants. Paths are
relative to `src/`.

## 1. The system

### Components, their state and operations

| component | state | operations | code |
|---|---|---|---|
| block polling | `blocks.status`, `height` | list pending, ask the node, settle | `internal/pool/controller.go` `syncBlocks`; `internal/store/store.go` `PendingBlocks`, `SetBlockState`, `SetBlockError` |
| payouts | `payouts`, `payout_items` | balances, prepare, resume, send, record | `controller.go` `processPayouts`; `store.go` `balances`, `PreparePayouts`, `ActivePayouts`, `SetPayoutState`, `PayoutError` |
| controller loop | two tickers | one pass at a time | `controller.go` `Run` |
| share accounting | `shares`, duplicate maps, `allocations` | submit, record, allocate, prune | `internal/stratum/server.go` `submit`; `store.go` `RecordShare`, `AllocateBlock`, `PruneShares` |
| PPLNS arithmetic | none | window, division | `store.go` `AllocateBlock` |
| accounts | none of their own | pending, balance, paid of an address | `store.go` `balances`, `Account` |
| templates and jobs | parent, job map, templates, difficulties | follow the tip, assign, publish, refresh, clear | `server.go` `templateLoop`, `assignTemplate`, `publishClient`, `sendJob`, `refreshLoop`, `handle` |
| connection table | `clients`, `ipClients`, `once` | accept, close, remove | `server.go` `Serve`, `close`, `remove` |
| VarDiff | difficulty and window of a connection | accept a share, suggest, lower when idle | `server.go` `acceptedAt`, `lowerIdleDifficulty`, `handle` |
| locks | mutexes, one database connection, worker semaphore | taken and released by every goroutine | `server.go`, `store.go`, `controller.go`, `internal/web/server.go` |
| work | none | parse a template, build a job, solve | `internal/stratum/work.go` |
| node client | HTTP transport | one call each, one retry of a template | `internal/nodeapi/client.go` |
| amounts | none | parse, format | `internal/amount/amount.go`, `internal/web/server.go` `formatAmount`, `cmd/qday-pool/main.go` `parsePercentBPS` |
| dashboard | none | read | `internal/web` |
| start-up | none | flags, checks, goroutines | `cmd/qday-pool/main.go` |

The node is not part of the repository: its chain, its block templates and its
wallet are modelled from how the code uses them, and marked external.

### How they interact

    miner --submit--> handler --RecordShare, AllocateBlock--> store
                         \--SubmitBlock--> node (chain)
    node --template--> templateLoop --worker per client--> jobs --> miner
             refreshLoop, handlers ------------------------> jobs --> miner
    controller: syncBlocks  --BlockStatus--> node,  --SetBlockState--> store
                processPayouts --Payout--> node (wallet), --SetPayoutState--> store

There is one goroutine per connection, one for the template loop with up to
sixteen workers, one for the refresh loop and one for the controller. They meet
in the database, in `Server.mu`, in each connection's `state` and `write`
locks, and nowhere else.

### What is hard, and what makes each component correct

* *Polling.* An answer of the node is applied after the chain has moved on; a
  block can be polled before it is submitted; the process dies between
  allocating and submitting; a lost response hides an accepted block. Correct
  when a mature block is on the selected chain for good, an orphan never comes
  back, a settled row is not touched again, the node never has a block without
  an allocation, and every candidate is settled at last.
* *Payouts.* A request that timed out may still be signed, before or after its
  retry or a restart; the accounting update can fail after the wallet signed;
  the unit changes at PQ Day. Correct when credit is never reserved or paid
  twice, the books never run ahead of the wallet, a batch is frozen once it is
  prepared, every batch is confirmed and every balance is paid at last.
* *Shares.* Handlers record and allocate concurrently with each other and with
  pruning; duplicate maps are emptied. Correct when a solution is credited
  once and a block's division is that of the complete history up to its share.
* *Jobs.* Four kinds of goroutine publish work for one connection. Correct when
  a miner gets work, has work of the pool's parent, holds jobs the server
  recognises, knows their difficulty, and has none during an outage.
* *Connections.* A connection is closed by several goroutines at once. Correct
  when counts are exact, limits hold and places are freed.
* *VarDiff.* A connection's handler and `refreshLoop` change its difficulty, while
  shares of an older difficulty still arrive and the difficulty that counts is
  the one announced, which the network's may cap. Correct when the window
  measures the difficulty the connection has, no step is larger than documented
  and a steady miner ends up at the pace the pool wants.
* *Locks.* `Server.mu`, four locks of each connection, the store's mutex and its
  only connection, and a write to a miner that does not read, taken within one
  another by handlers, workers and loops. Correct when whoever waits, waits for
  somebody who goes on.
* *Accounts.* A balance is recomputed from blocks and batches whenever it is
  read. Correct when an account moves only by a block found, matured or written off,
  a batch reserved whole, and a batch paid.
* *Work and amounts.* Rounding of difficulties against exact targets, fields of a
  template that must describe one block, decimal fractions. Correct when no
  block or share is refused for a rounding, what is submitted is what was hashed,
  and no amount is off by a digit.

`PROJECT.json` lists each hazard at its line with the properties that cover it.

## 2. The modules

| module | what it is | checked by | proved in |
|---|---|---|---|
| `BlockWatch` | candidates from submission to settlement | `MCBlockWatch` | `BlockWatchProofs` |
| `Payouts` | ledger and payout pass | `MCPayouts` | `PayoutsProofs` |
| `Accounts` | abstract: the amounts of an account and how they move | `MCPayouts` (implemented by `Payouts`) | `PayoutsProofs` |
| `Pool` | `BlockWatch` and `Payouts` composed in one process; implements the ledger | `MCPool` | `PoolProofs` |
| `Locks` | who waits for whom, over all goroutines | `MCPool` | `PoolProofs` |
| `Pplns` | window and division as operators | `MCAccounting` | `AccountingProofs` |
| `Shares` | share table, handlers, pruning; uses `Pplns` | `MCAccounting` | `AccountingProofs` |
| `Amounts` | parsing and formatting of amounts | `MCAccounting` | `AccountingProofs` |
| `Work` | targets and difficulties, templates, solved blocks | `MCAccounting` | `AccountingProofs` |
| `JobFeed` | templates and jobs | `MCJobFeed` | `JobFeedProofs` |
| `VarDiff` | the difficulty of a connection | `MCVarDiff` | `VarDiffProofs` |
| `Connections` | client table | `MCConnections` | `ConnectionsProofs` |
| `Totals` | sums of amounts | (used) | `TotalsProofs` |

Definitions whose comment starts with "Slip" are not part of any
specification: each is a plausible mistake in one definition of the model, and
replacing the definition by it breaks the property `PROJECT.json` pairs it with.

### BlockWatch

`status` and `height` are columns of `blocks`; `sub[b]` is where the submit
handler of candidate `b` is (`mining`, `allocated`, `inflight`, `over`); `tip`,
`known` and `canon` are the node's chain; `pc`, `todo` and `obs` are the local
state of `syncBlocks`. `AllocateBlock`, `SubmitBlock` and `SubmissionLost` are
the tail of `submit`; the node may take the block, store it beside the chain or
never see it. `ListPending` is the start of a pass (the oldest rows up to the
limit), `BlockStatus` asks about one block and keeps the answer, and
`SetBlockState` applies it in a later step through `NextStatus`, the switch of
the code. Each call may fail, and `Crash` loses everything but the database,
the chain and what already left for the node.

`NextStatus` keeps the order of the cases: canonical first, then depth, then
`!known`. A candidate's height is between 1 and `tip + 1`, at most `MaxLag`
behind: a handler may be late with a block of an older tip.

*Assumption about the node*: a reorganization rewrites at most `MaxReorg`
blocks with `MaxReorg <= OrphanDepth` and `MaxReorg <= MaturityBlocks`. This is
the six-block finality the documentation counts on; without it nothing a pool
can do is safe.

### Payouts

`status` and `award` are `blocks` and `allocations`; `paystat`, `item` and
`fee` are `payouts` and `payout_items`; `signed` and `final` are what the
wallet persisted and what is six blocks deep; `pc`, `seen`, `batch`, `wire` and
`reply` are the local state of `processPayouts`; `stray` are requests the pool
has given up on that may still arrive. `Mature`, `Reserved` and `Available` are
`balances`. `ReadStatus` reads the unit of the pass (`seen`) and turns the
configured policy into atomic values (`Minimum`, `PayoutFee`; 0 stands for a
policy that does not parse). `RequestOf` builds the request with the row's
items and fee and with the unit of *this* pass, as the code does.

The wallet signs a new id in the current unit, answers a signed id with
identical contents, rejects one with other contents, and may reject an unsigned
one: the promise of `docs/accounting.md:78-79`. A confirmed batch
stays final.

`SettleBlock` is the abstract view of polling: any pending block may settle
either way, between passes.

### Accounts

The abstract specification of the ledger, as an address sees it: `pending`,
`balance`, `queued` (reserved by a batch that is not recorded as sent) and `paid`
(recorded as sent or confirmed). It has five steps and no notion of blocks,
batches, requests or crashes. `Payouts` implements it with `Announced`,
`Available`, `InQueue` and `PaidOut` as the refinement mapping (`AccountSpec`). All
four are amounts of the database, as `balances` and `Account` compute them, so a
batch is paid when `SetPayoutState` updates its row (`store.go:660-673`). The
wallet's signature is a stutter: a batch that is signed, but whose answer was lost or whose
update failed, is still queued. So are time-outs, late requests, refusals and
restarts. What the wallet has signed is compared with the books by
`BooksFollowNode` and `PaidWithinCredit`.

### Pool

One set of tables, both loops: `AllocateBlock` and `Crash` are joint steps,
`SyncTick` starts only when no payout pass is under way and `PayTick` only when
no polling pass is, since `Run` calls both from one `select`. As far as blocks
go, each step is by construction one of `BlockWatch` or leaves them alone. What the
ledger sees is not: `PayoutSpec` instantiates `Payouts` with the identity mapping on
the shared variables, and `SetBlockState` of `BlockWatch` must then be `SettleBlock` of
`Payouts` or a stutter, which is where `SettledForGood` and `OneLoopAtATime` are
needed. `Payouts` is thus the abstract specification of the ledger that polling
implements.

Two properties need both components. `PaidFromSelectedChain`: what the wallet
signed is within `Earned`, the credit of blocks that are on the selected chain and buried.
`EarningsArrive`: what is earned is at last confirmed as paid (`Received`), but for a
remainder below the minimum payout, through a poll, a settled block, a balance and as
many batches as it takes. It is stated with `amount`, a number chosen
once and for all at the start of a behaviour, so that it reads: if an address
ever has earned that much, it comes to have received it.

### Locks

A goroutine's operation is the sequence of the locks it takes, translated from
what the function does: `Pass` for a lock released before anything else is taken,
`Hold` for one held over other steps (`once` over `remove`, `write` over the write to the
socket, the store's mutex over a transaction, the semaphore over an
assignment). `Submit`, `Handle`, `TemplateLoop`, `RefreshLoop`, `ControllerPass` and
`Request` list the operations by the point at which they return. A loop over all
connections (`templateLoop`, `refreshLoop`) holds nothing from one turn to the next, so
each turn is an operation of its own, in any order and number. A write to a
stalled miner ends by its deadline, and then the writer closes the connection, which
takes more locks. The database is one more lock, as `SetMaxOpenConns(1)` makes it.
`WaitsEnd` says that the waits-for graph is never circular. It is a safety property: each operation is finite, mutexes
and the queue of `database/sql` are fair, so without a cycle every operation ends.

### Pplns and Shares

`Pplns` has `Take` (one turn of the window's loop), `Window` and
`Allocations` (quotients, remainders, left-over units by `Rank`). Big integers
are integers. `SumsExactly` and `IsFair` say what a division promises; the run and
the theorems use the same two formulas. `Window` folds `Take` over the set of the rows, the
row that comes last in `ORDER BY id DESC` (`Oldest`) outermost, so that it needs
no sequence; `Credits` is the address and work of each row. `Shares` has the table as a set of rows,
numbered as `AUTOINCREMENT` numbers them, the duplicate map, each handler's step (`idle`, `record`, `allocate`), the prune of `templateLoop` in its
two statements and, as history, every share ever recorded. `RecordShare` does
not take the store's mutex, so it interleaves with a prune; `AllocateBlock`
does. Work that the source multiplies out of the network target is the constant
`WindowWork`.

*Assumption (`InTime`)*: between the arrival of a parent and the end of the last
handler that saw it, less than `Retention - WindowWork` is recorded. The
source keeps a hundred windows, some three hours of the whole network's work,
while a handler takes seconds.

### Amounts and Work

Pure functions, as operators. `Amounts` works on texts as sequences of digits,
points, blanks and other characters, in any base: `Parse` (`Decimal` of the text that
`TrimSpace` leaves), `ParsePercentBPS`,
`FormatAmount`; `Unit` is the one and zeros of the unit the node reports. `Work` has the two conversions between targets and difficulties
with the direction each one rounds (`TargetDifficulty`, `TargetForDifficulty`), the
cap of `newJob` (`ShareOf`), the two comparisons of `solve` (`Verdict`), what
`newWorkTemplate` compares (`Consistent`), and the block that is submitted
(`SolvedBlock`). A difficulty is a multiple of `1/Precision`; a hash is the term it
is computed from, so that equal hashes mean equal contents.

### JobFeed

`run` holds a step for each thread: the worker of `templateLoop`, the
connection's handler and `refreshLoop`, per connection. The steps are the
critical sections: fetch, compare parents (`CheckParent`), `SetTemplate`, read
template and difficulty, take a number (`Number`, an atomic counter and no
lock), enter the job in the map (`Register`, under `s.mu`), decide under `c.state`
(`BeginSend`), write the difficulty, write the job. Jobs can be entered, and forgotten,
in another order than they are numbered; `entered` and `entry` are history and count
the entries. `minerDiff` and `minerJob`
are what the miner was last told. A template is its parent. VarDiff is any
change of difficulty, or the return to that of a share (`AcceptShare`).

### VarDiff

Here the rules by which the difficulty changes are modelled, and the order of
writes to the miner is not. The times `vardiffStarted` and `lastShare` are ages on a
clock of ticks (`windowAge`, `shareAge`, `None` for the zero time). The branches
of `acceptedAt` are `LateShare`, `OpenWindow`, `CountShare` and `CloseWindow`;
`Refresh` is a round of `refreshLoop` with `lowerIdleDifficulty`, `Suggest` is
`mining.suggest_difficulty`, and `pub` the publications under way, whose
difficulty was read before. A miner is either arbitrary (shares of
any announced difficulty at any time, suggestions, outages) or steady: it finds
a share for every `lastDiff` hashes it has made, at a rate that may change. Safety is
about both, `Settles` about the steady one.

### Connections

`Accept` is the critical section of `Serve`, `Enter` is `once.Do`, `Remove` the
critical section of `remove`. `Forget` lets an identifier be used again when
nobody holds the client.

## 3. The runs

| run | bounds | shows |
|---|---|---|
| `block_watch` | 2 blocks, one visited per pass, chain of 5, depths of 2, lag 1, one restart | safety of polling, every candidate settles |
| `payouts` | 2 addresses, 2 blocks, 2 batches of one output, PQ Day, one restart | all safety of the ledger; it implements `Accounts` |
| `payouts_live` | 2 addresses, 2 blocks, 4 batches, one unit, one restart | batches confirm, balances are paid |
| `payouts_pq_day` | one batch, PQ Day, no restart | finding 1 |
| `pool` | `Pool`: 2 blocks, 1 address, 2 batches, depths of 1, one restart; `Locks`: 2 connections, 2 goroutines at once besides the workers, a semaphore of one | it implements the ledger, solvency, what is earned arrives; nobody waits for ever |
| `accounting` | `Shares`: 2 miners, 7 solutions on 3 parents, window 2, three windows kept, duplicate map of 1; divisions: 3 addresses, work 0..5 each, reward 1..18, fee 1/7; texts of up to 5 characters in base 3; amounts up to 250, up to 3 decimals; targets below 32 with difficulty one at 9 and precision 4; a sound template and those with fields of others | credit and frozen windows; the functions they rest on, exhaustively |
| `job_feed` | 1 connection, 2 parents, two events (a new template, an outage, a refresh or a retarget), job map of 2 | safety of jobs, authorized miners get work, outages stop it |
| `job_feed_stale` | 2 parents, one event | finding 2 |
| `job_feed_difficulty` | 2 difficulties, two events | finding 3 |
| `connections` | 5 connections of 2 hosts, limits 3 and 2, 2 closers | counts, limits, places |
| `vardiff` | target of 2 ticks, window of 4, bursts of 2 within 1, difficulties 2..12 capped at 9, rates 0, 1, 4, 9, changed twice | windows, steps, and that difficulty settles |
| `vardiff_idle` | the same, rate unchanged | finding 4 |

`MCPool` and `MCAccounting` put several questions in one run: a behaviour is one of
`Pool` or one of `Locks` (`view`), one of `Shares` or a walk through the
inputs of one function (`input`). The parts do not share state there, so
nothing is hidden by the combination.

Why the bounds suffice. Depths of two leave a block time to be seen pending,
reorganized away and back, and settled with an answer that is two blocks old. A limit
smaller than the number of blocks makes listing choose. Two batches of one
output make the second wait for the first and an address wait for another; one
restart puts a request on the wire that nobody waits for. In `pool` two blocks of one
unit each, paid by one batch or by two, make earnings arrive that a single pass cannot pay.
A map of two jobs and three threads are enough to enter jobs out of the order of their
numbers and to forget the younger number first. A duplicate map of
one is full at once; seven solutions on three parents reach a prune between
`RecordShare` and `AllocateBlock` and a resubmission after it. One connection
has all goroutines that serve it; connections share nothing in `JobFeed` but the job
map, which two entries overflow. Three addresses are the fewest for which the
order of remainders, ties and a rest of two units differ. A cycle of waits needs
two goroutines, and the workers add one per connection; a worker that
waits for the semaphore is there with two. In VarDiff the cap lies below
the largest difficulty, the minimum above what the slowest miner reaches
and the window is short enough that all three of its ends occur.

`CHECK_DEADLOCK FALSE` is in the `JobFeed` configurations only: when every miner
has left and the node has nothing new, the server waits in its long poll.

### Fairness

* `BlockWatch`: the ticker fires and a pass moves on (weak fairness of
  `ListPending`, `EndSync`, and of visiting a block with either outcome); a call
  that is tried for ever succeeds again and again (strong fairness of
  `BlockStatus` and `SetBlockState`); the chain grows. Nothing is assumed of
  submit handlers or restarts.
* `Payouts`: the same for the steps of the pass, and for the wallet: it signs,
  answers and is heard infinitely often when it is asked infinitely often, and
  what is signed becomes final.
* `Pool`: both tickers fire, and the `select` of `Run`, which picks at random among
  the tickers that are ready, takes each of them again and again (strong fairness
  of `SyncTick` and `PayTick`: with weak fairness one loop could find the other always
  at work). Passes move on, and the node answers and signs as in `Payouts`. Calls fail
  in any number and order, but not for ever: after some point, no step that differs from
  every success (`Failure`) is taken.
* `JobFeed`: goroutines run and calls to the node end. The node need not move
  or recover, and a miner need not do anything.
* `Connections`: a goroutine inside `close` goes on.
* `VarDiff`: the clock and `refreshLoop` run and a publication ends; a steady
  miner submits what it has found (strong fairness, as a refreshed job may come in
  between). No other miner need do anything.
* `Locks` assumes nothing: `WaitsEnd` is a safety property.

### Findings

1. **A batch in flight at PQ Day gets stuck** (`payouts_pq_day`). The retry is
   built with the current unit (`controller.go:184`), so it differs from what
   was signed; the wallet rejects it for ever, and while it is active no other
   batch is prepared. `payouts` shows that nothing is paid twice all the same.
   The run reads `docs/accounting.md:78-79` to include the expected unit in the
   contents of a request.
2. **A connection can fall back to stale work** (`job_feed_stale`).
   `assignTemplate` compares parents and stores the template in two critical
   sections (`server.go:373-379`).
3. **A miner can be left with the wrong difficulty** (`job_feed_difficulty`).
   `sendJob` writes after it releases the lock (`server.go:772-778`).
4. **A connection without a first share is never lowered** (`vardiff_idle`).
   `lowerIdleDifficulty` returns when there has been no share (`server.go:838`), so a
   connection that starts out of its miner's reach stays there;
   `docs/protocol.md:58` says that an idle connection steps down.

Two limits of what holds. `ReserveCoversFees` holds under `FeesCovered`: for some
ratio, a batch of a minimum payout costs no more than that part of it, and a block
keeps no less than that part of its credit. With the default flags (one percent, at
least 1 QDAY, 0.001 a batch) that is so at one in a thousand; the flags are checked
one by one only, so with others it need not be. `EveryBatchConfirms` holds within one unit only, see finding 1.

## 4. The proofs

All theorems are for every value of the constants that satisfies the named
`ASSUME`s of the modules, and rest on nothing else, but for `FeesPaidByReserve`, which
assumes a policy that covers its fees.

* **BlockWatchProofs.** `IInv` adds two facts to the properties. `RowsOK`: a pass
  visits pending rows, and a row appears when its handler leaves `mining`.
  `ObsOK`: where the switch acts on a waiting answer, the answer is still true,
  since it was true when given, the tip has not fallen and a reorganization
  does not reach that deep. Without `ObsOK` `MatureIsCanonical` is not
  inductive: `SetBlockState` would apply an arbitrary answer.
* **PayoutsProofs.** `RequestsOK`: every request that can still arrive, late ones
  included, repeats a row's items and fee. `PassOK`: a pass works on active rows
  and prepares only when there are none. `ReplyOK`: a good answer is about a
  signed request. `NoDoublePayment` follows from the invariant without further induction: what
  is signed is what is reserved, and that is within the credit.
  `ImplementsAccounts` maps each action to a step of `Accounts` or a stutter; a
  settled block needs that allocations of one block are counted once, an answer that
  is recorded, that all that is queued belongs to the one active batch (`AtMostOneActive`).
  `FeesPaidByReserve` needs one more invariant, `Covered`: no batch costs more than
  its part of what it pays, since the order of recipients has a first, who gets a
  minimum payout or more (`SomeoneReceives`, `BatchIsWorthIt`). The sums over batches and
  over blocks are then compared address by address (`TotalSwap`).
* **PoolProofs.** Blocks live in the composition as in `BlockWatch`, by the shape of
  its actions (`WatchStep`), so its invariant is there for `ImplementsPayouts`, where
  a settling block must have been pending and the loops must exclude each other
  (`LoopsExclusive`). `Solvency` puts the two together:
  signed <= reserved <= mature credit, and mature blocks are canonical.
  The theorem about the instance `P` is the property `PayoutSpec`; the invariants
  are those of the copies `WT` and `PT`, which carry the theorems of the components.
* **JobFeedProofs.** `IInv` adds three facts. `MapOK`: the map holds the jobs entered
  last, in the order they were entered, whatever their numbers. `HandOK`: a job that a
  thread is about to send has been entered, since it is registered before the
  lock of `sendJob` is taken. `ParentOK`: the node is never behind the pool, and what a
  thread has accepted or read is not ahead of it. `RememberKeeps` is the lemma
  about the job map: entering a job drops none but the one entered first. `Number`,
  which takes no lock, does not touch the map.
* **VarDiffProofs.** `TypeOK` and `WindowMatches` are inductive together, and
  `StepsBounded` follows from them action by action; `NextIsBounded` bounds what a
  window may change, for all window lengths, targets and bounds.
* **ConnectionsProofs.** `BodyOK`: at most one goroutine is between `once` and
  `remove`, and its client is still listed. Then every removal takes one from both
  the set and the count.
* **AccountingProofs**, the table. `IInv` adds `RowsOK`: rows are numbered in the order of
  the pool's parents and none comes before its solution's parent. `PruneOK`: what a prune
  is about to keep is enough, and a row that is gone is followed by the retained
  work. Then a solution whose row is gone cannot be recorded again
  (`NoDoubleCredit`): its handler has seen all the work that followed the row, which
  `InTime` excludes. Neither the duplicate map nor the size of the window matters.
* **AccountingProofs**, the window. `WindowIs` says what the fold gives a row, for every
  table, window and credit: nothing when the newer rows fill the window, and
  otherwise its work, cut at the boundary (`Ideal`). It is `SetInduction`, with the oldest
  row removed. `FrozenForGood` then needs `FrozenInv`: the table is a suffix of the history
  (`Suffix`), and a handler that is about to allocate has a row in the history
  that is followed by no more than `Retention - WindowWork` (`WinnersOK`, from
  `InTime`). So what a prune removed lies outside of the window
  (`GoneCountsNothing`), and later rows do not enter it.
* **AccountingProofs**, the division. By `LeftOver` what the quotients leave, times
  the selected work, is the sum of the remainders; so fewer units are left than
  there are addresses with a remainder (`FewLeft`) and the round over the
  addresses is never completed (`OneUnit`). `Before` is a strict total order, so ranks
  are a bijection (`RankCovers`) and every unit is handed to one address
  (`UnitsSum`). `DivisionSums` and `DivisionFair` follow for every reward, fee and work.
* **AccountingProofs**, amounts. `Value` is a fold over a text; `ValueIs` gives it as a
  sum that grows digit by digit, from which the value of two texts one after the
  other (`ValueConcat`), and that the digits of a number have its value
  (`DigitsAre`). What is accepted is `Value` of the digits before the point and
  those after it, filled with zeros (`FractionExact`), and what is shown differs
  from the amount by zeros that `TrimRight` takes away and `Parse` puts back
  (`FormatIsExact`); `TrimSpaceIs` and `NothingToTrim` say what trimming leaves. The inductions are over a set of good numbers or texts
  (`CountUp`, `SequenceInduction`).
* **AccountingProofs**, work. The difficulty of a target is the least that reaches it
  (`DifficultyRoundsUp`); a smaller one has a target that is no harder, and any other
  is capped, with the network's own target (`TargetReached`). `RootInjective`: a Merkle root
  tells the transaction and the branch it was computed from. So the template's
  block, which carries the same root as its work, has the branch that a
  miner's work is hashed with, and every block solved from it commits to its
  transactions (`SolvedMatches`).
* **AccountingProofs**, the run. `RunsShares` and `InputInvariance` carry the theorems
  over to the specification TLC runs: inputs stay inputs, of any size, and the
  table does not depend on them.
* **PoolProofs**, the locks. There is an order (`Level`): the semaphore of the workers,
  then `once` of a connection and the store's mutex, then all others, under which
  nothing is taken. Every operation follows it (`OperationOrder`), also after a
  failed write has put the closing of the connection in place of the rest
  (`AfterFailure`). `LocksInv` says of a state that what each goroutine still has to do is
  in order and gives back exactly what it owns, and that workers are at work only
  while `templateLoop` waits for them, holding nothing. So whoever wants a lock
  holds none of its level or above (`WantsAbove`). Of a set of goroutines that all
  wait for one another, take one that wants the highest lock: who owns that waits
  for a higher one still (`OrderEndsWaits`).
* **TotalsProofs.** Sums of amounts are cardinalities of sets of atomic units,
  which the prover can reason about with the library's theorems on finite
  sets: monotone, additive, equal for equal summands. `SetInduction` is induction over
  the subsets of a finite set, for a set of good subsets instead of a predicate;
  it comes from a smallest counterexample (`LeastNatural`, `SmallestSubset`).

Every invariant, action property and refinement the passing runs check is stated by a
theorem. Only model-checked is liveness (`EveryBlockSettles`, `EveryBatchConfirms`,
`MaturedIsPaid`, `EarningsArrive`, `AuthorizedGetsWork`, `OutageStopsWork`, `PlaceIsFreed`, `Settles`), as the
prover cannot reason about fairness. The
four findings are counterexamples and have nothing to prove.

## 5. Not modelled

* Of `work.go`: hex and block encodings, lengths of fields, the format of the
  rewards, the hash functions. `Work` starts from fields that decode. Its
  difficulties are on a uniform grid, while a `float64` has a grid that
  grows with the value; the directions of rounding are the same.
* A hardware miner may compute a target from the announced difficulty with its own
  rounding and be an ulp harder than the pool's; it then only withholds shares.
* Before block 9,100 the server refuses subscriptions and closes connections;
  `JobFeed` starts after. `mining.subscribe` and the rate limit of a connection
  change nothing that the properties are about.
* The node client's one retry of a template and its pool of connections: to the
  caller a template arrives or an error does, which `JobFeed` has. HTTP itself is a
  step that succeeds, fails or times out.
* How long a connection waits for work after its first template failed
  (`server.go:655`): until the node's next one, which is the node's own schedule.
* Whether the job map is large enough for all connections (`server.go:421`): it is shared, and
  the code does not tie its size to `MaxMiners`. `SentJobsAreKnown` says which jobs are
  forgotten first.
* `DeleteShare` has no caller.
* The dashboard's paging and statistics change nothing; what its handlers wait for is
  in `Locks`, how amounts are shown in `Amounts`. Start-up is sequential.
* DEFEND: the pass asks the wallet before it pays and ends if that fails; it
  leaves no state in the pool.
* Time, outside VarDiff: deadlines are nondeterministic failures.

## 6. Plan

Done: `BlockWatch`, `Totals`, `Payouts`, `Pool`, `Pplns`, `Shares`, `JobFeed`,
`Connections`, then `VarDiff`, `Amounts`, `Work`, `Accounts`, `Locks`, with the
proofs of section 4.

Left:

1. `NodeClient`: one retry of a template over pooled connections that go stale.
2. What the liveness arguments rest on, as far as it is safety: that a pass which ends
   well has taken its batch one step further, that a closed client's place is
   owed to a goroutine which has yet to enter `remove`.

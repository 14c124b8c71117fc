---------------------------- MODULE MCAccounting ----------------------------
(* Shares for TLC, and the pure functions it rests on, over bounded inputs.  *)
(* A behaviour is a run of Shares, or a walk through the inputs of one       *)
(* function, one change of one input at a time.                              *)
(*                                                                           *)
(* Shares: two miners, seven solutions over three parents; on the last       *)
(* parent one miner has two, and can go on resubmitting them.                *)
EXTENDS Shares, Amounts, Work

CONSTANTS MaxWork, MaxReward, MaxText, MaxAtomic, MaxDecimals

VARIABLE input
allVars == <<vars, input>>

Miners == 1..2
Addresses == 1..3
Solutions == 1..7
Owners == <<1, 2, 2, 1, 2, 1, 1>>
AddressesOf == <<1, 2>>
Works == <<1, 3, 3, 1, 1, 2, 1>>
Parents == <<1, 1, 2, 2, 3, 3, 3>>
Blocks == {2, 3, 4, 6}
-----------------------------------------------------------------------------
(* Templates: what a sound node sends, and the same with fields of others.   *)

Extra == {"e1", "e2"}
Time == {10, 11}
Parent == {"p", "q"}
Coinbases == {<<"c1", extra, "c2">> : extra \in Extra}
Branch == {<<<<2, "a">>, <<2, "b">>>>, <<<<2, "b">>, <<2, "a">>>>}
Commitments == {Root(<<"c1", "e1", "c2">>, b) : b \in Branch} \cup {<<2, "x">>}
Header == [parent : Parent, nonce : {0}, time : Time, commitment : Commitments]
Block == [parent : Parent, nonce : {0}, time : Time, commitment : Commitments,
          work : Coinbases, branch : Branch]
Template == [parent : Parent, timestamp : Time, commitment : Commitments,
             coinbase1 : {"c1"}, coinbase2 : {"c2"}, workNonce : Extra,
             lastTransaction : Coinbases, branch : Branch, header : Header, block : Block]

\* What a sound node sends, for one of the branches.
Sound(branch) ==
    LET work == <<"c1", "e1", "c2">>
        commitment == Root(work, branch)
    IN [parent |-> "p", timestamp |-> 10, commitment |-> commitment,
        coinbase1 |-> "c1", coinbase2 |-> "c2", workNonce |-> "e1",
        lastTransaction |-> work, branch |-> branch,
        header |-> [parent |-> "p", nonce |-> 0, time |-> 10, commitment |-> commitment],
        block |-> [parent |-> "p", nonce |-> 0, time |-> 10, commitment |-> commitment,
                   work |-> work, branch |-> branch]]

OtherTemplate(t) ==
    {[t EXCEPT !.parent = x] : x \in Parent}
    \cup {[t EXCEPT !.timestamp = x] : x \in Time}
    \cup {[t EXCEPT !.commitment = x] : x \in Commitments}
    \cup {[t EXCEPT !.workNonce = x] : x \in Extra}
    \cup {[t EXCEPT !.lastTransaction = x] : x \in Coinbases}
    \cup {[t EXCEPT !.branch = x] : x \in Branch}
    \cup {[t EXCEPT !.header = x] : x \in Header}
    \cup {[t EXCEPT !.block = x] : x \in Block}
-----------------------------------------------------------------------------
\* The inputs of each kind.
Character == 0..(Base - 1) \cup {Point, Other, Blank}
Texts == [kind : {"text"}, text : Seq(Character)]
Atomics == [kind : {"atomic"}, n : Nat]
Divisions == [kind : {"division"}, work : [Address -> Nat], reward : Nat]
Targets == [kind : {"target"}, target : Target, difficulty : Nat \ {0}]
Templates == [kind : {"template"}, template : Template]

Seeds ==
    {[kind |-> "division", work |-> w, reward |-> 1] :
        w \in {v \in [Address -> 0..1] : Selected(v) > 0}}
    \cup {[kind |-> "text", text |-> <<>>],
          [kind |-> "atomic", n |-> 0],
          [kind |-> "target", target |-> 1, difficulty |-> 1],
          [kind |-> "none"]}
    \cup {[kind |-> "template", template |-> Sound(branch)] : branch \in Branch}

InitAll == Init /\ input \in Seeds

Run == input.kind = "none" /\ Next /\ UNCHANGED input

Reweigh ==
    /\ input.kind = "division"
    /\ \E a \in Address, w \in 0..MaxWork : input' = [input EXCEPT !.work[a] = w]
    /\ Selected(input'.work) > 0
Reprice == input.kind = "division" /\ \E r \in 1..MaxReward : input' = [input EXCEPT !.reward = r]
Type ==
    /\ input.kind = "text"
    /\ \E c \in Character :
          input' = [input EXCEPT !.text = IF Len(@) < MaxText THEN Append(@, c) ELSE <<c>>]
Count == input.kind = "atomic" /\ \E n \in 0..MaxAtomic : input' = [input EXCEPT !.n = n]
Retarget ==
    /\ input.kind = "target"
    /\ \/ \E t \in Target : input' = [input EXCEPT !.target = t]
       \/ \E d \in 1..(Precision * HashSpace) : input' = [input EXCEPT !.difficulty = d]
Retemplate ==
    input.kind = "template" /\ \E t \in OtherTemplate(input.template) : input' = [input EXCEPT !.template = t]

NextAll ==
    \/ Run
    \/ (Reweigh \/ Reprice \/ Type \/ Count \/ Retarget \/ Retemplate) /\ UNCHANGED vars

SpecAll == InitAll /\ [][NextAll]_allVars
-----------------------------------------------------------------------------
Of(kind) == input.kind = kind

\* The allocations of a block sum to its miner credit, to the last atomic
\* unit, and with the pool's reserve to the reward (store.go:331-353).
SumsToCredit == Of("division") => SumsExactly(input.reward, input.work)

\* The division is fair: nobody is off their exact share by a whole atomic
\* unit, more work never earns less, and equal work differs by a unit at most,
\* in favour of the smaller address (store.go:342-371).
DivisionIsFair == Of("division") => IsFair(input.reward, input.work)

\* How many digits a text has after its point.
Fraction(text) == IF Point \in ToSet(text) THEN Len(text) - Whole(text) - 1 ELSE 0

\* Atomic units that are exactly the number a text says, or none at all.
Exactly(text, atomic, decimals) ==
    atomic # Invalid =>
        atomic * Unit(Fraction(text)) = Value(RemoveFirst(text, Point)) * Unit(decimals)

\* A configured amount or percentage that is accepted is taken exactly as it
\* is written, with nothing rounded, for any unit, the blanks around an amount
\* aside (amount.go:10-14), and what the dashboard shows, read back in the same
\* unit, is the amount in the ledger to the last atomic unit
\* (docs/accounting.md:90).
AmountsAreExact ==
    /\ Of("text") =>
          /\ \A k \in 0..MaxDecimals :
                 Exactly(TrimSpace(input.text), Parse(input.text, k), k)
          /\ Exactly(input.text, ParsePercentBPS(input.text), 2)
    /\ Of("atomic") =>
          \A k \in 0..MaxDecimals : Parse(FormatAmount(input.n, k), k) = input.n

\* No solved block is turned away as a share of low difficulty, whatever
\* difficulty the connection has (work.go:216-217), and a miner that goes by
\* the difficulty it was told is never refused for low difficulty: the rounding
\* of the announcement is in its favour.
NoWorkIsRefused ==
    Of("target") =>
        LET told == ShareOf(input.target, input.difficulty).difficulty
        IN \A hash \in 0..TargetForDifficulty(told) \cup 0..input.target :
               Verdict(hash, input.target, input.difficulty).accepted

\* The block that is submitted has the header that was hashed, so that the
\* node knows it under the identifier its allocation was frozen with, and if
\* the template's own block commits to its transactions, so does every block
\* solved from it, with any extranonce (work.go:147-181, 319-365).
SolvedIsHashed ==
    Of("template") =>
        LET t == input.template
        IN Consistent(t) =>
               \A extra \in Extra, jobTime \in Time, nonce \in {0, 1} :
                   LET block == SolvedBlock(t, extra, jobTime, nonce)
                   IN /\ HeaderOf(block) = SolvedHeader(t, extra, jobTime, nonce)
                      /\ Committed(t.block) => Committed(block)
=============================================================================

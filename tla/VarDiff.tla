------------------------------- MODULE VarDiff -------------------------------
(* The share difficulty of one connection (internal/stratum/server.go:       *)
(* acceptedAt, lowerIdleDifficulty, mining.suggest_difficulty, and the       *)
(* publications that announce it).  The connection's handler and refreshLoop *)
(* change it concurrently, and a share may be of a job announced before.     *)
(*                                                                           *)
(* Time is a scaled clock: the times of the source are kept as ages in       *)
(* ticks.  A floating-point difficulty is an integer, rounded down; two that *)
(* differ by a billionth are the same.                                       *)
EXTENDS Integers

CONSTANTS
    ShareTarget,       \* Config.ShareTarget
    VardiffInterval,   \* 90 seconds
    FastWindow,        \* vardiffFastWindow, 5 seconds
    FastShares,        \* vardiffFastShares
    MinimumDifficulty, MaximumDifficulty,
    Requested,         \* difficulties a login or a suggestion may ask for
    NetworkDifficulty, \* what the difficulty of a job is capped at
    Rates,             \* hash rates of a miner that works steadily
    MaxShares,         \* bound on the shares of a window
    MaxAge,            \* bound on the ages the clock tells apart
    MaxChanges         \* bound on the changes of a steady miner's rate

None == -1              \* the zero time
MinFactor(d) == d \div 2   \* vardiffMinFactor
MaxFactor == 2
FastFactor == 4
IdleAfter == 4 * ShareTarget
Thread == {"handler", "refresher"}
Difficulty == MinimumDifficulty..MaximumDifficulty

ASSUME VarDiffAssumption ==
    /\ ShareTarget \in Nat \ {0} /\ VardiffInterval \in Nat \ {0}
    /\ FastWindow \in Nat /\ FastShares \in Nat \ {0}
    /\ MinimumDifficulty \in Nat \ {0} /\ NetworkDifficulty \in Nat \ {0}
    /\ MaximumDifficulty \in Nat /\ MinimumDifficulty <= MaximumDifficulty
    /\ Requested \subseteq Difficulty
    /\ Rates \subseteq Nat
    /\ MaxShares \in Nat \ {0} /\ MaxAge \in Nat /\ MaxChanges \in Nat

VARIABLES
    difficulty,   \* c.difficulty
    lastDiff,     \* c.lastDiff, 0 before the first job
    older,        \* a job of another difficulty was sent before
    windowAge,    \* since c.vardiffStarted, None when that is zero
    windowDiff,   \* c.vardiffDifficulty
    windowShares, \* c.vardiffShares
    shareAge,     \* since c.lastShare, None when that is zero
    pub,          \* publications under way: step and difficulty
    steady,       \* does the miner find its shares in proportion to its rate?
    rate,         \* of a steady miner, in hashes per tick
    effort,       \* of a steady miner since its last share
    changes       \* of its rate

windowVars == <<windowAge, windowDiff, windowShares>>
announced == <<lastDiff, older>>
miner == <<steady, rate, effort, changes>>
vars == <<difficulty, announced, windowVars, shareAge, pub, miner>>

Idle == [at |-> "idle", d |-> 0]
Busy(t) == pub[t].at # "idle"
Quiet == \A t \in Thread : ~Busy(t)
\* A steady miner's shares come between two rounds of refreshLoop, not in one.
Free(t) == ~Busy(t) /\ (steady => Quiet)
Publish(t) == pub' = [pub EXCEPT ![t] = [at |-> "read", d |-> 0]]
AtMost(x, y) == IF x <= y THEN x ELSE y
AtLeast(x, y) == IF x >= y THEN x ELSE y
\* Slip: the minimum is forgotten.
WithinMaximum(x) == AtMost(MaximumDifficulty, x)

Within(x) == AtLeast(MinimumDifficulty, AtMost(MaximumDifficulty, x))

\* mining.authorize: the difficulty of the configuration or of the password,
\* and the connection's first job.
Init ==
    /\ difficulty \in Requested
    /\ lastDiff = 0 /\ older = FALSE
    /\ windowAge = None /\ windowDiff = 0 /\ windowShares = 0
    /\ shareAge = None
    /\ pub = [t \in Thread |-> IF t = "handler" THEN [at |-> "read", d |-> 0] ELSE Idle]
    /\ steady \in BOOLEAN
    /\ rate \in IF steady THEN Rates ELSE {0}
    /\ effort = 0 /\ changes = 0

ResetVardiff(age, d) == windowAge' = age /\ windowDiff' = d /\ windowShares' = 0
------------------------------------------------------------------------------
(* publishClient: templateAndDifficulty, then newJob and sendJob.            *)

ReadDifficulty(t) ==
    /\ pub[t].at = "read"
    /\ pub' = [pub EXCEPT ![t] = [at |-> "send", d |-> difficulty]]
    /\ UNCHANGED <<difficulty, announced, windowVars, shareAge, miner>>

\* During an outage there is no template and nothing is published.
NoTemplate(t) ==
    /\ pub[t].at = "read" /\ ~steady
    /\ pub' = [pub EXCEPT ![t] = Idle]
    /\ UNCHANGED <<difficulty, announced, windowVars, shareAge, miner>>

\* The job is numbered and its difficulty, capped at the network's, becomes
\* the one last announced.  A job numbered before it is late.
SendJob(t) ==
    LET d == AtMost(pub[t].d, NetworkDifficulty) IN
    /\ pub[t].at \in {"send", "late"}
    /\ lastDiff' = d
    /\ older' = (older \/ lastDiff \notin {0, d})
    /\ effort' = IF d = lastDiff THEN effort ELSE 0
    /\ pub' = [u \in Thread |-> IF u = t THEN Idle
                                ELSE IF pub[u].at = "send" THEN [pub[u] EXCEPT !.at = "late"]
                                ELSE pub[u]]
    /\ UNCHANGED <<difficulty, windowVars, shareAge, steady, rate, changes>>

\* sendJob drops a job numbered before the last one.
DropJob(t) ==
    /\ pub[t].at = "late"
    /\ pub' = [pub EXCEPT ![t] = Idle]
    /\ UNCHANGED <<difficulty, announced, windowVars, shareAge, miner>>

PublishStep(t) == ReadDifficulty(t) \/ NoTemplate(t) \/ SendJob(t) \/ DropJob(t)
------------------------------------------------------------------------------
(* acceptedAt, for an accepted share of difficulty d.                        *)

\* Slip: a share of any announced difficulty opens and feeds the window.
IsCurrentAny(d) == d # 0

\* "A clean difficulty notification can race with a final share from the
\* preceding job": is it of the difficulty last announced?
IsCurrent(d) == d = lastDiff

\* The miner has a job of that difficulty, and a steady one the hashes.
Found(d) ==
    /\ lastDiff > 0
    /\ d = lastDiff \/ older
    /\ Free("handler")
    /\ steady => d = lastDiff /\ effort >= d
    /\ shareAge' = 0
    /\ effort' = 0
    /\ UNCHANGED <<announced, steady, rate, changes>>

WindowIsOf(d) == windowAge # None /\ windowDiff = d
Fast(n) == n >= FastShares /\ windowAge > 0 /\ windowAge <= FastWindow
Closes(n) == windowAge >= VardiffInterval \/ Fast(n)

LateShare(d) ==
    /\ Found(d)
    /\ ~IsCurrent(d)
    /\ UNCHANGED <<difficulty, windowVars, pub>>

\* The first share of a window goes back to the difficulty it was mined at.
OpenWindow(d) ==
    /\ Found(d)
    /\ IsCurrent(d) /\ ~WindowIsOf(d)
    /\ difficulty' = d
    /\ ResetVardiff(0, d)
    /\ UNCHANGED pub

CountShare(d) ==
    /\ Found(d)
    /\ IsCurrent(d) /\ WindowIsOf(d)
    /\ windowShares + 1 < MaxShares
    /\ ~Closes(windowShares + 1)
    /\ windowShares' = windowShares + 1
    /\ UNCHANGED <<difficulty, windowAge, windowDiff, pub>>

\* Slip: the factor is not limited from below.
NextDifficultyUp(n) ==
    Within(AtLeast(windowDiff, (windowDiff * n * ShareTarget) \div windowAge))

\* The factor shares * target / elapsed, within its limits, and the bounds.
NextDifficulty(n) ==
    LET limit == (IF Fast(n) THEN FastFactor ELSE MaxFactor) * windowDiff
        exact == (windowDiff * n * ShareTarget) \div windowAge
    IN Within(AtLeast(MinFactor(windowDiff), AtMost(limit, exact)))

\* vardiffMinChange: fifteen percent.
TooSmall(next) ==
    100 * (next - difficulty) < 15 * difficulty /\ 100 * (difficulty - next) < 15 * difficulty

\* The window is over: a new one starts, with a new difficulty or the old.  A
\* new difficulty is published, unless the share solves a block.
CloseWindow(d, solves) ==
    LET next == NextDifficulty(windowShares + 1) IN
    /\ Found(d)
    /\ IsCurrent(d) /\ WindowIsOf(d)
    /\ Closes(windowShares + 1)
    /\ solves => ~steady
    /\ IF TooSmall(next)
       THEN ResetVardiff(0, difficulty) /\ UNCHANGED <<difficulty, pub>>
       ELSE /\ ResetVardiff(0, next)
            /\ difficulty' = next
            /\ IF solves THEN UNCHANGED pub ELSE Publish("handler")

Share(d) == LateShare(d) \/ OpenWindow(d) \/ CountShare(d) \/ \E s \in BOOLEAN : CloseWindow(d, s)
------------------------------------------------------------------------------
\* Slip: the window stays open.
SuggestInWindow(d) ==
    /\ Free("handler") /\ ~steady
    /\ difficulty' = d
    /\ Publish("handler")
    /\ UNCHANGED <<announced, windowVars, shareAge, miner>>

\* mining.suggest_difficulty.
Suggest(d) ==
    /\ Free("handler") /\ ~steady
    /\ difficulty' = d
    /\ ResetVardiff(None, 0)
    /\ Publish("handler")
    /\ UNCHANGED <<announced, shareAge, miner>>

\* lowerIdleDifficulty: a connection that never had a share is not idle.
IsIdle ==
    shareAge # None /\ shareAge >= IdleAfter /\ difficulty > MinimumDifficulty

\* A round of refreshLoop: lowerIdleDifficulty, then a fresh job.
Refresh ==
    /\ Free("refresher")
    /\ IF IsIdle
       THEN /\ difficulty' = AtLeast(MinimumDifficulty, difficulty \div 2)
            /\ shareAge' = 0
            /\ ResetVardiff(None, 0)
       ELSE UNCHANGED <<difficulty, shareAge, windowVars>>
    /\ Publish("refresher")
    /\ UNCHANGED <<announced, miner>>

Older(age) == IF age = None THEN None ELSE AtMost(age + 1, MaxAge)

\* Time passes; a steady miner does not sit on a solution, and the server
\* does not take a tick to announce a job to it.
Tick ==
    /\ steady => Quiet /\ lastDiff > 0 /\ effort < lastDiff
    /\ windowAge' = Older(windowAge)
    /\ shareAge' = Older(shareAge)
    /\ effort' = effort + rate
    /\ UNCHANGED <<difficulty, announced, windowDiff, windowShares, pub, steady, rate, changes>>

\* A steady miner gets faster, or slower, or stops.
ChangeRate(r) ==
    /\ steady /\ Quiet /\ changes < MaxChanges
    /\ rate' = r
    /\ changes' = changes + 1
    /\ effort' = 0
    /\ UNCHANGED <<difficulty, announced, windowVars, shareAge, pub, steady>>

Next ==
    \/ \E t \in Thread : ReadDifficulty(t) \/ NoTemplate(t) \/ SendJob(t) \/ DropJob(t)
    \/ \E d \in 1..MaximumDifficulty :
          LateShare(d) \/ OpenWindow(d) \/ CountShare(d) \/ \E s \in BOOLEAN : CloseWindow(d, s)
    \/ \E d \in Requested : Suggest(d)
    \/ Refresh
    \/ Tick
    \/ \E r \in Rates : ChangeRate(r)

Spec == Init /\ [][Next]_vars

\* The clock and refreshLoop run, a publication ends, and a miner that works
\* steadily submits what it finds, refreshed jobs or not.  Any other miner need
\* not do anything.
FairSpec ==
    /\ Spec
    /\ SF_vars(Tick) /\ WF_vars(Refresh)
    /\ \A t \in Thread : WF_vars(PublishStep(t))
    /\ SF_vars(steady /\ Share(lastDiff))
------------------------------------------------------------------------------
TypeOK ==
    /\ difficulty \in 1..MaximumDifficulty
    /\ lastDiff \in 0..MaximumDifficulty /\ older \in BOOLEAN
    /\ windowAge \in {None} \cup Nat /\ windowDiff \in 0..MaximumDifficulty
    /\ windowShares \in 0..MaxShares
    /\ shareAge \in {None} \cup Nat
    /\ pub \in [Thread -> [at : {"idle", "read", "send", "late"}, d : 0..MaximumDifficulty]]
    /\ steady \in BOOLEAN /\ rate \in Nat /\ effort \in Nat /\ changes \in Nat

\* An open window measures the connection's own difficulty, whichever thread
\* changed it last: the fifteen percent of a retarget compare c.difficulty
\* with what was computed from c.vardiffDifficulty (server.go:824-828).
WindowMatches == windowAge # None => windowDiff = difficulty

\* "A single lucky or delayed share cannot send difficulty across the full
\* range" (docs/protocol.md:59): unless the miner asks, a step goes to half at
\* least and double at most, or to fourfold after a burst of shares, or back
\* to what the miner was told last; and from below the minimum, where only a
\* weak network puts it, to the minimum.
StepsAreBounded ==
    [][difficulty' # difficulty /\ ~(\E d \in Requested : Suggest(d)) =>
          \/ difficulty' = lastDiff
          \/ difficulty < difficulty' /\ difficulty' = MinimumDifficulty
          \/ /\ difficulty' <= 2 * difficulty /\ 2 * difficulty' + 1 >= difficulty
          \/ /\ difficulty' <= 4 * difficulty
             /\ windowShares + 1 >= FastShares /\ windowAge <= FastWindow]_vars

\* Ticks from one share of a steady miner to the next.
Apart == (lastDiff + rate - 1) \div rate
Lowest == AtMost(MinimumDifficulty, NetworkDifficulty)
Highest == AtMost(MaximumDifficulty, NetworkDifficulty)

\* VarDiff settles: whatever a miner asked for at first and however its rate
\* changed since, it is told a difficulty at which its shares come ShareTarget
\* apart, or as near to that as the bounds and the network's difficulty let
\* them, and a miner that stopped after its first share sinks to the minimum.
Settled ==
    IF rate = 0 THEN shareAge = None \/ lastDiff = Lowest
    ELSE /\ Apart > ShareTarget => lastDiff = Lowest
         /\ Apart < ShareTarget => lastDiff = Highest
Settles == <>[](steady => Settled)

\* "An idle connection steps down gradually" (docs/protocol.md:58).
IdleStepsDown == <>[](steady /\ rate = 0 => lastDiff = Lowest)
==============================================================================

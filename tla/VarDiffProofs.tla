---------------------------- MODULE VarDiffProofs ----------------------------
(* Theorems about VarDiff, for every value of its constants.                 *)
EXTENDS VarDiff, TLAPS

\* TypeOK with WindowMatches is inductive: a retarget is computed from the
\* window's difficulty and compared with the connection's.
IInv == TypeOK /\ WindowMatches

\* A difficulty that was limited is within the configured bounds.
LEMMA WithinBounds ==
    ASSUME NEW x \in Int
    PROVE  /\ Within(x) \in 1..MaximumDifficulty
           /\ Within(x) <= x \/ Within(x) = MinimumDifficulty
           /\ Within(x) >= x \/ Within(x) = MaximumDifficulty
  BY VarDiffAssumption, SMT DEF Within, AtMost, AtLeast

\* What a window that closes may change the difficulty to.
LEMMA NextIsBounded ==
    ASSUME TypeOK, WindowMatches, windowAge # None, Closes(windowShares + 1)
    PROVE  LET next == NextDifficulty(windowShares + 1) IN
           /\ next \in 1..MaximumDifficulty
           /\ \/ difficulty < next /\ next = MinimumDifficulty
              \/ /\ next <= 2 * difficulty /\ 2 * next + 1 >= difficulty
              \/ /\ next <= 4 * difficulty
                 /\ windowShares + 1 >= FastShares /\ windowAge <= FastWindow
  <1> DEFINE n == windowShares + 1
             exact == (windowDiff * n * ShareTarget) \div windowAge
             limit == (IF Fast(n) THEN FastFactor ELSE MaxFactor) * windowDiff
             wanted == AtLeast(MinFactor(windowDiff), AtMost(limit, exact))
             next == NextDifficulty(n)
  <1>1. /\ difficulty \in 1..MaximumDifficulty /\ MaximumDifficulty \in Nat
        /\ windowDiff = difficulty
        /\ windowAge \in Nat /\ n \in Nat
    BY VarDiffAssumption DEF TypeOK, WindowMatches, None
  <1>2. windowAge > 0
    BY <1>1, VarDiffAssumption DEF Closes, Fast
  <1>3. exact \in Int
    <2>1. windowDiff * n * ShareTarget \in Nat
      <3>1. windowDiff * n \in Nat
        BY <1>1
      <3> QED
        BY <3>1, VarDiffAssumption
    <2> QED
      BY <2>1, <1>1, <1>2
  <1>4. limit \in Nat /\ limit >= windowDiff
    BY <1>1 DEF FastFactor, MaxFactor
  <1>5. MinFactor(windowDiff) \in Nat /\ MinFactor(windowDiff) <= windowDiff
        /\ 2 * MinFactor(windowDiff) + 1 >= windowDiff
    BY <1>1 DEF MinFactor
  <1>6. wanted \in Int /\ wanted <= limit /\ wanted >= MinFactor(windowDiff)
    <2> HIDE DEF exact, limit
    <2> QED
      BY <1>1, <1>3, <1>4, <1>5 DEF AtLeast, AtMost
  <1>7. next = Within(wanted)
    BY DEF NextDifficulty
  <1> HIDE DEF wanted, next, exact
  <1>8. next \in 1..MaximumDifficulty
    BY <1>6, <1>7, WithinBounds
  <1>9. next <= wanted \/ next = MinimumDifficulty
    BY <1>6, <1>7, WithinBounds
  <1>10. next >= wanted \/ next = MaximumDifficulty
    BY <1>6, <1>7, WithinBounds
  <1>11. 2 * next + 1 >= difficulty
    BY <1>1, <1>5, <1>6, <1>8, <1>10
  <1>12. next <= limit \/ (difficulty < next /\ next = MinimumDifficulty)
    <2> HIDE DEF limit
    <2> QED
      BY <1>1, <1>4, <1>6, <1>8, <1>9, VarDiffAssumption
  <1>13. CASE Fast(n)
    BY <1>13, <1>1, <1>8, <1>11, <1>12 DEF Fast, FastFactor, next
  <1>14. CASE ~Fast(n)
    BY <1>14, <1>1, <1>8, <1>11, <1>12 DEF MaxFactor, next
  <1> QED
    BY <1>13, <1>14

\* A publication that starts is well-formed.
LEMMA PublishTyped ==
    ASSUME TypeOK, NEW t \in Thread, Publish(t)
    PROVE  pub' \in [Thread -> [at : {"idle", "read", "send", "late"}, d : 0..MaximumDifficulty]]
  <1>1. [at |-> "read", d |-> 0] \in [at : {"idle", "read", "send", "late"}, d : 0..MaximumDifficulty]
    BY VarDiffAssumption
  <1> QED
    BY <1>1 DEF Publish, TypeOK

\* The invariant holds at first, and every step preserves it.
LEMMA Inductive ==
    /\ Init => IInv
    /\ IInv /\ [Next]_vars => IInv'
  <1>1. Init => IInv
    <2> SUFFICES ASSUME Init PROVE IInv
      OBVIOUS
    <2>1. Requested \subseteq 1..MaximumDifficulty /\ rate \in Nat
      BY VarDiffAssumption DEF Init, Difficulty
    <2>2. pub \in [Thread -> [at : {"idle", "read", "send", "late"}, d : 0..MaximumDifficulty]]
      <3>1. 0 \in 0..MaximumDifficulty
        BY VarDiffAssumption
      <3>2. \A t \in Thread : (IF t = "handler" THEN [at |-> "read", d |-> 0] ELSE Idle)
                                 \in [at : {"idle", "read", "send", "late"}, d : 0..MaximumDifficulty]
        BY <3>1 DEF Idle
      <3> QED
        BY <3>2 DEF Init
    <2>3. /\ difficulty \in Requested
          /\ lastDiff = 0 /\ older = FALSE
          /\ windowAge = None /\ windowDiff = 0 /\ windowShares = 0 /\ shareAge = None
          /\ steady \in BOOLEAN /\ effort = 0 /\ changes = 0
      BY DEF Init
    <2> QED
      <3>1. older \in BOOLEAN /\ steady \in BOOLEAN
        BY <2>3
      <3>2. /\ difficulty \in 1..MaximumDifficulty
            /\ lastDiff \in 0..MaximumDifficulty /\ windowDiff \in 0..MaximumDifficulty
            /\ windowShares \in 0..MaxShares /\ effort \in Nat /\ changes \in Nat
        BY <2>1, <2>3, VarDiffAssumption
      <3>3. windowAge \in {None} \cup Nat /\ shareAge \in {None} \cup Nat /\ WindowMatches
        BY <2>3 DEF WindowMatches
      <3> QED
        BY <2>1, <2>2, <3>1, <3>2, <3>3 DEF IInv, TypeOK
  <1>2. IInv /\ [Next]_vars => IInv'
    <2> SUFFICES ASSUME TypeOK, WindowMatches, [Next]_vars
                 PROVE  IInv'
      BY DEF IInv
    <2> USE VarDiffAssumption
    <2>1. ASSUME NEW t \in Thread, ReadDifficulty(t) PROVE IInv'
      BY <2>1 DEF ReadDifficulty, IInv, TypeOK, WindowMatches, None, announced, windowVars, miner
    <2>2. ASSUME NEW t \in Thread, NoTemplate(t) PROVE IInv'
      BY <2>2 DEF NoTemplate, IInv, TypeOK, WindowMatches, None, announced, windowVars, miner, Idle
    <2>3. ASSUME NEW t \in Thread, SendJob(t) PROVE IInv'
      <3>1. lastDiff' \in 0..MaximumDifficulty /\ effort' \in Nat /\ older' \in BOOLEAN
        BY <2>3 DEF SendJob, TypeOK, AtMost
      <3>2. pub' \in [Thread -> [at : {"idle", "read", "send", "late"}, d : 0..MaximumDifficulty]]
        BY <2>3 DEF SendJob, TypeOK, Idle
      <3> QED
        BY <2>3, <3>1, <3>2 DEF SendJob, IInv, TypeOK, WindowMatches, windowVars
    <2>4. ASSUME NEW t \in Thread, DropJob(t) PROVE IInv'
      BY <2>4 DEF DropJob, IInv, TypeOK, WindowMatches, None, announced, windowVars, miner, Idle
    <2>5. ASSUME NEW d \in 1..MaximumDifficulty, LateShare(d) PROVE IInv'
      BY <2>5 DEF LateShare, Found, IInv, TypeOK, WindowMatches, None, announced, windowVars
    <2>6. ASSUME NEW d \in 1..MaximumDifficulty, OpenWindow(d) PROVE IInv'
      BY <2>6 DEF OpenWindow, Found, ResetVardiff, IInv, TypeOK, WindowMatches, None, announced
    <2>7. ASSUME NEW d \in 1..MaximumDifficulty, CountShare(d) PROVE IInv'
      BY <2>7 DEF CountShare, Found, IInv, TypeOK, WindowMatches, None, announced
    <2>8. ASSUME NEW d \in 1..MaximumDifficulty, NEW s \in BOOLEAN, CloseWindow(d, s) PROVE IInv'
      <3> DEFINE next == NextDifficulty(windowShares + 1)
      <3>1. next \in 1..MaximumDifficulty
        BY <2>8, NextIsBounded DEF CloseWindow, WindowIsOf
      <3> HIDE DEF next
      <3>2. /\ Found(d)
            /\ ResetVardiff(0, difficulty')
            /\ difficulty' \in {difficulty, next}
            /\ UNCHANGED pub \/ Publish("handler")
        BY <2>8 DEF CloseWindow, next
      <3> QED
        BY <3>1, <3>2 DEF Found, ResetVardiff, Publish, IInv, TypeOK, WindowMatches, None, announced
    <2>9. ASSUME NEW d \in Requested, Suggest(d) PROVE IInv'
      <3>1. d \in 1..MaximumDifficulty
        BY DEF Difficulty
      <3>2. pub' \in [Thread -> [at : {"idle", "read", "send", "late"}, d : 0..MaximumDifficulty]]
        BY <2>9, PublishTyped DEF Suggest, Thread
      <3> QED
        BY <2>9, <3>1, <3>2 DEF Suggest, ResetVardiff, IInv, TypeOK, WindowMatches, None, announced, miner
    <2>10. CASE Refresh
      <3>1. difficulty' \in 1..MaximumDifficulty
        BY <2>10 DEF Refresh, TypeOK, AtLeast
      <3>2. pub' \in [Thread -> [at : {"idle", "read", "send", "late"}, d : 0..MaximumDifficulty]]
        BY <2>10, PublishTyped DEF Refresh, Thread
      <3>3. CASE IsIdle
        <4>1. /\ windowAge' = None /\ windowDiff' = 0 /\ windowShares' = 0 /\ shareAge' = 0
              /\ UNCHANGED <<announced, miner>>
          BY <2>10, <3>3 DEF Refresh, ResetVardiff
        <4> QED
          BY <4>1, <3>1, <3>2 DEF IInv, TypeOK, WindowMatches, announced, miner
      <3>4. CASE ~IsIdle
        <4>1. UNCHANGED <<difficulty, shareAge, windowVars, announced, miner>>
          BY <2>10, <3>4 DEF Refresh
        <4> QED
          BY <4>1, <3>1, <3>2 DEF IInv, TypeOK, WindowMatches, announced, windowVars, miner
      <3> QED
        BY <3>3, <3>4
    <2>11. CASE Tick
      BY <2>11 DEF Tick, Older, AtMost, IInv, TypeOK, WindowMatches, None, announced
    <2>12. ASSUME NEW r \in Rates, ChangeRate(r) PROVE IInv'
      BY <2>12 DEF ChangeRate, IInv, TypeOK, WindowMatches, None, announced, windowVars
    <2>13. CASE UNCHANGED vars
      BY <2>13 DEF vars, IInv, TypeOK, WindowMatches, None, announced, windowVars, miner
    <2> QED
      BY <2>1, <2>2, <2>3, <2>4, <2>5, <2>6, <2>7, <2>8, <2>9, <2>10, <2>11, <2>12, <2>13 DEF Next
  <1> QED
    BY <1>1, <1>2

\* IInv is an invariant.
THEOREM Invariance == Spec => []IInv
  BY Inductive, PTL DEF Spec

\* Difficulties stay within 1 and the configured maximum, whoever sets them.
THEOREM TypeCorrect == Spec => []TypeOK
  <1>1. IInv => TypeOK
    BY DEF IInv
  <1> QED
    BY <1>1, Invariance, PTL

\* The open window measures the connection's difficulty (server.go:824-828).
THEOREM WindowsMatch == Spec => []WindowMatches
  <1>1. IInv => WindowMatches
    BY DEF IInv
  <1> QED
    BY <1>1, Invariance, PTL

\* No step of the difficulty is larger than documented (docs/protocol.md:59).
THEOREM StepsBounded == Spec => StepsAreBounded
  <1> DEFINE Step == difficulty' # difficulty /\ ~(\E d \in Requested : Suggest(d)) =>
          \/ difficulty' = lastDiff
          \/ difficulty < difficulty' /\ difficulty' = MinimumDifficulty
          \/ /\ difficulty' <= 2 * difficulty /\ 2 * difficulty' + 1 >= difficulty
          \/ /\ difficulty' <= 4 * difficulty
             /\ windowShares + 1 >= FastShares /\ windowAge <= FastWindow
  <1>1. IInv /\ [Next]_vars => [Step]_vars
    <2> SUFFICES ASSUME TypeOK, WindowMatches, Next, difficulty' # difficulty,
                        ~(\E d \in Requested : Suggest(d)),
                        difficulty' # lastDiff
                 PROVE  \/ difficulty < difficulty' /\ difficulty' = MinimumDifficulty
                        \/ /\ difficulty' <= 2 * difficulty /\ 2 * difficulty' + 1 >= difficulty
                        \/ /\ difficulty' <= 4 * difficulty
                           /\ windowShares + 1 >= FastShares /\ windowAge <= FastWindow
      BY DEF IInv
    <2>1. \/ Refresh
          \/ \E d \in 1..MaximumDifficulty : OpenWindow(d)
          \/ \E d \in 1..MaximumDifficulty : \E s \in BOOLEAN : CloseWindow(d, s)
      BY DEF Next, ReadDifficulty, NoTemplate, SendJob, DropJob, LateShare, CountShare, Tick, ChangeRate
    <2>2. CASE Refresh
      BY <2>2, VarDiffAssumption DEF Refresh, IsIdle, TypeOK, AtLeast
    <2>3. CASE \E d \in 1..MaximumDifficulty : OpenWindow(d)
      BY <2>3 DEF OpenWindow, IsCurrent
    <2>4. ASSUME NEW d \in 1..MaximumDifficulty, NEW s \in BOOLEAN, CloseWindow(d, s)
          PROVE  /\ windowAge # None /\ Closes(windowShares + 1)
                 /\ difficulty' = NextDifficulty(windowShares + 1)
      BY <2>4 DEF CloseWindow, WindowIsOf
    <2> QED
      BY <2>1, <2>2, <2>3, <2>4, NextIsBounded
  <1> QED
    BY <1>1, Invariance, PTL DEF Spec, StepsAreBounded
==============================================================================

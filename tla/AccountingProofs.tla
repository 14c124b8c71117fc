-------------------------- MODULE AccountingProofs --------------------------
(* Proofs about Pplns, Shares, Work and Amounts, for any miners, solutions,  *)
(* windows, sizes of the duplicate maps, rewards, targets, templates and     *)
(* amounts.  The division of a reward is exact and fair.  However often a    *)
(* solution is resubmitted and whenever the table is pruned, it counts once, *)
(* and a window is that of the whole history.  No work is refused for a      *)
(* rounding, a solved block is the one that was hashed, and no amount is off *)
(* by a digit.                                                               *)
EXTENDS MCAccounting, TotalsProofs, SequenceTheorems

-----------------------------------------------------------------------------
(* The division.                                                             *)

\* Division with remainder.
LEMMA Division ==
    ASSUME NEW x \in Nat, NEW y \in Nat \ {0}
    PROVE  /\ x \div y \in Nat /\ x % y \in 0..(y - 1)
           /\ x = y * (x \div y) + (x % y)
  OBVIOUS

LEMMA DistributableType ==
    ASSUME NEW reward \in Nat
    PROVE  Distributable(reward) \in Nat
  <1> DEFINE p == reward * (FeeBase - FeeBPS)
  <1>1. FeeBase - FeeBPS \in Nat /\ FeeBase \in Nat \ {0}
    BY FeeAssumption
  <1>2. p \in Nat
    BY <1>1
  <1> HIDE DEF p
  <1>3. p \div FeeBase \in Nat
    BY <1>1, <1>2, Division
  <1> QED
    BY <1>3 DEF Distributable, p

\* The addresses of a division are finitely many, with positive work.
LEMMA GroupedType ==
    ASSUME NEW work \in [Address -> Nat]
    PROVE  /\ IsFiniteSet(Grouped(work)) /\ Grouped(work) \subseteq Address
           /\ Cardinality(Grouped(work)) \in Nat
           /\ Selected(work) \in Nat
           /\ Selected(work) = Total(Grouped(work), work)
  <1>1. Grouped(work) \subseteq Address /\ IsFiniteSet(Grouped(work))
    BY FeeAssumption, FS_Subset DEF Grouped
  <1>2. \A a \in Address \ Grouped(work) : work[a] = 0
    BY DEF Grouped
  <1>3. Total(Address, work) = Total(Grouped(work), work)
    BY <1>1, <1>2, TotalNonZero
  <1> QED
    BY <1>1, <1>3, FeeAssumption, FS_CardinalityType, TotalType DEF Selected

\* Quotient and remainder of an address.
LEMMA Exact ==
    ASSUME NEW d \in Nat, NEW work \in [Address -> Nat], Selected(work) > 0,
           NEW a \in Address
    PROVE  /\ Quotient(d, work, a) \in Nat /\ Remainder(d, work, a) \in Nat
           /\ Remainder(d, work, a) < Selected(work)
           /\ d * work[a] = Selected(work) * Quotient(d, work, a) + Remainder(d, work, a)
  <1> DEFINE x == d * work[a]
             y == Selected(work)
  <1>1. x \in Nat /\ y \in Nat \ {0}
    BY GroupedType
  <1> HIDE DEF x, y
  <1>2. /\ x \div y \in Nat /\ x % y \in 0..(y - 1)
        /\ x = y * (x \div y) + (x % y)
    BY <1>1, Division
  <1> QED
    BY <1>1, <1>2 DEF Quotient, Remainder, x, y

\* What the quotients leave is the share of the remainders.
LEMMA LeftOver ==
    ASSUME NEW d \in Nat, NEW work \in [Address -> Nat], Selected(work) > 0
    PROVE  LET r == [a \in Address |-> Remainder(d, work, a)] IN
           /\ Left(d, work) \in Nat
           /\ Total(Grouped(work), r) \in Nat
           /\ Selected(work) * Left(d, work) = Total(Grouped(work), r)
  <1> DEFINE G == Grouped(work)
             W == Selected(work)
             q == [a \in Address |-> Quotient(d, work, a)]
             r == [a \in Address |-> Remainder(d, work, a)]
             wq == [a \in Address |-> W * q[a]]
             dw == [a \in Address |-> d * work[a]]
  <1>1. IsFiniteSet(G) /\ G \subseteq Address /\ W \in Nat /\ W > 0 /\ W = Total(G, work)
    BY GroupedType
  <1>2. \A a \in G : /\ q[a] \in Nat /\ r[a] \in Nat /\ wq[a] = W * q[a] /\ wq[a] \in Nat
                     /\ dw[a] = d * work[a] /\ work[a] \in Nat
                     /\ dw[a] = wq[a] + r[a]
    <2> SUFFICES ASSUME NEW a \in G
                 PROVE  /\ q[a] \in Nat /\ r[a] \in Nat /\ wq[a] = W * q[a] /\ wq[a] \in Nat
                        /\ dw[a] = d * work[a] /\ work[a] \in Nat
                        /\ dw[a] = wq[a] + r[a]
      OBVIOUS
    <2>1. a \in Address
      BY <1>1
    <2>2. q[a] = Quotient(d, work, a) /\ r[a] = Remainder(d, work, a)
      BY <2>1
    <2>3. q[a] \in Nat /\ r[a] \in Nat /\ d * work[a] = W * q[a] + r[a]
      BY <2>1, <2>2, Exact
    <2>4. wq[a] = W * q[a] /\ dw[a] = d * work[a]
      BY <2>1
    <2>5. W * q[a] \in Nat
      BY <1>1, <2>3
    <2> QED
      BY <2>1, <2>3, <2>4, <2>5
  <1> HIDE DEF G, W, q, r, wq, dw
  <1>3. Total(G, dw) = d * W
    BY <1>1, <1>2, TotalTimes
  <1>4. Total(G, wq) = W * Total(G, q)
    BY <1>1, <1>2, TotalTimes
  <1>5. Total(G, dw) = Total(G, wq) + Total(G, r)
    BY <1>1, <1>2, TotalPlus
  <1>6. Total(G, q) \in Nat /\ Total(G, r) \in Nat
    BY <1>1, <1>2, TotalType
  <1> DEFINE Q == Total(G, q)
             S == Total(G, r)
             L == d - Q
  <1>7. d * W = W * Q + S /\ Q \in Nat /\ S \in Nat
    BY <1>3, <1>4, <1>5, <1>6
  <1> HIDE DEF Q, S
  <1>8. W * L = S /\ L \in Int
    <2>1. W * (d - Q) = W * d - W * Q
      BY <1>1, <1>7
    <2>2. W * d = d * W /\ W * Q \in Nat /\ d * W \in Nat
      BY <1>1, <1>7
    <2> QED
      BY <1>7, <2>1, <2>2
  <1>9. L \in Nat
    <2> SUFFICES ASSUME L < 0 PROVE FALSE
      BY <1>8
    <2>1. W * L < 0
      BY <1>1, <1>8
    <2> QED
      BY <1>7, <1>8, <2>1
  <1>10. Left(d, work) = L
    BY DEF Left, L, Q, G, q
  <1> HIDE DEF L
  <1> QED
    BY <1>7, <1>8, <1>9, <1>10 DEF S, G, W, r

\* The order of the left-over units is strict and total.
LEMMA BeforeOrder ==
    ASSUME NEW d \in Nat, NEW work \in [Address -> Nat], Selected(work) > 0
    PROVE  /\ \A a \in Address : ~Before(d, work, a, a)
           /\ \A a, b \in Address : a # b => Before(d, work, a, b) \/ Before(d, work, b, a)
           /\ \A a, b, c \in Address :
                 Before(d, work, a, b) /\ Before(d, work, b, c) => Before(d, work, a, c)
  <1>1. \A a \in Address : a \in Nat /\ Remainder(d, work, a) \in Nat
    BY FeeAssumption, Exact
  <1> QED
    BY <1>1 DEF Before

\* Who comes before has the smaller rank, and ranks are below the number of
\* addresses.
LEMMA RankOrder ==
    ASSUME NEW d \in Nat, NEW work \in [Address -> Nat], Selected(work) > 0
    PROVE  /\ \A a \in Grouped(work) :
                 /\ Rank(d, work, a) \in Nat
                 /\ Rank(d, work, a) < Cardinality(Grouped(work))
           /\ \A a, b \in Grouped(work) :
                 Before(d, work, a, b) => Rank(d, work, a) < Rank(d, work, b)
  <1> DEFINE G == Grouped(work)
             Below(a) == {b \in G : Before(d, work, b, a)}
  <1>1. IsFiniteSet(G) /\ G \subseteq Address /\ Cardinality(G) \in Nat
    BY GroupedType
  <1>2. \A a \in G : Rank(d, work, a) = Cardinality(Below(a)) /\ Below(a) \in SUBSET G
    BY DEF Rank
  <1> HIDE DEF G
  <1>3. ASSUME NEW a \in G
        PROVE  /\ IsFiniteSet(Below(a)) /\ Cardinality(Below(a)) \in Nat
               /\ a \notin Below(a)
               /\ Cardinality(Below(a)) < Cardinality(G)
    <2>1. IsFiniteSet(Below(a)) /\ Cardinality(Below(a)) \in Nat
             /\ Cardinality(Below(a)) <= Cardinality(G)
             /\ (Cardinality(Below(a)) = Cardinality(G) => G = Below(a))
      BY <1>1, FS_Subset, FS_CardinalityType
    <2>2. a \notin Below(a)
      BY <1>1, BeforeOrder
    <2> QED
      BY <1>1, <2>1, <2>2
  <1>4. ASSUME NEW a \in G, NEW b \in G, Before(d, work, a, b)
        PROVE  Cardinality(Below(a)) < Cardinality(Below(b))
    <2>1. Below(a) \subseteq Below(b) /\ a \in Below(b)
      BY <1>1, <1>4, BeforeOrder
    <2>2. Below(a) \in SUBSET Below(b) /\ Below(a) # Below(b)
      BY <1>3, <2>1
    <2> HIDE DEF Below
    <2>3. /\ Cardinality(Below(a)) <= Cardinality(Below(b))
          /\ Cardinality(Below(a)) # Cardinality(Below(b))
      BY <1>3, <2>2, FS_Subset
    <2> QED
      BY <1>3, <2>3
  <1> HIDE DEF Below
  <1> QED
    BY <1>2, <1>3, <1>4 DEF G

\* Every place in the order is somebody's.
LEMMA RankCovers ==
    ASSUME NEW d \in Nat, NEW work \in [Address -> Nat], Selected(work) > 0
    PROVE  /\ \A a, b \in Grouped(work) : Rank(d, work, a) = Rank(d, work, b) => a = b
           /\ \A i \in 0..(Cardinality(Grouped(work)) - 1) :
                 \E a \in Grouped(work) : Rank(d, work, a) = i
  <1> DEFINE G == Grouped(work)
             n == Cardinality(G)
             rank == [a \in G |-> Rank(d, work, a)]
  <1>1. IsFiniteSet(G) /\ G \subseteq Address /\ n \in Nat
    BY GroupedType
  <1>2. \A a, b \in G : Rank(d, work, a) = Rank(d, work, b) => a = b
    <2> SUFFICES ASSUME NEW a \in G, NEW b \in G, a # b
                 PROVE  Rank(d, work, a) # Rank(d, work, b)
      OBVIOUS
    <2>1. Before(d, work, a, b) \/ Before(d, work, b, a)
      BY <1>1, BeforeOrder
    <2>2. Rank(d, work, a) \in Nat /\ Rank(d, work, b) \in Nat
      BY RankOrder
    <2>3. Rank(d, work, a) < Rank(d, work, b) \/ Rank(d, work, b) < Rank(d, work, a)
      BY <2>1, RankOrder
    <2> QED
      BY <2>2, <2>3
  <1>3. rank \in [G -> 0..(n - 1)]
    BY <1>1, RankOrder
  <1>4. rank \in Injection(G, 0..(n - 1))
    BY <1>2, <1>3 DEF Injection, IsInjective
  <1>5. IsFiniteSet(0..(n - 1)) /\ Cardinality(0..(n - 1)) = n
    <2>1. \A m \in Nat : IsFiniteSet(0..(m - 1)) /\ Cardinality(0..(m - 1)) = m
      BY FS_Interval
    <2> HIDE DEF n
    <2> QED
      BY <1>1, <2>1
  <1>6. rank \in Surjection(G, 0..(n - 1))
    <2> HIDE DEF rank, n
    <2>1. Cardinality(G) = Cardinality(0..(n - 1))
      BY <1>5 DEF n
    <2> QED
      BY <1>4, <1>5, <2>1, FS_Injection
  <1>7. \A i \in 0..(n - 1) : \E a \in G : rank[a] = i
    BY <1>6 DEF Surjection
  <1> QED
    BY <1>2, <1>7

\* The left-over units are handed out, each to one address.
LEMMA UnitsSum ==
    ASSUME NEW d \in Nat, NEW work \in [Address -> Nat], Selected(work) > 0
    PROVE  LET u == [a \in Address |-> Units(d, work, a)] IN
           /\ \A a \in Grouped(work) : u[a] \in Nat
           /\ Total(Grouped(work), u) = Left(d, work)
  <1> DEFINE G == Grouped(work)
             n == Cardinality(G)
             J == 0..(Left(d, work) - 1)
             At(a) == {i \in J : i % n = Rank(d, work, a)}
             In(T) == {i \in J : \E a \in T : i % n = Rank(d, work, a)}
             u == [a \in Address |-> Units(d, work, a)]
             Good == {T \in SUBSET G : Total(T, u) = Cardinality(In(T))}
  <1>1. IsFiniteSet(G) /\ G \subseteq Address /\ n \in Nat /\ Left(d, work) \in Nat
    BY GroupedType, LeftOver
  <1>2. n > 0
    <2> SUFFICES ASSUME n = 0 PROVE FALSE
      BY <1>1
    <2>1. G = {}
      BY <1>1, FS_EmptySet
    <2>2. Selected(work) = 0
      BY <2>1, GroupedType, TotalEmpty
    <2> QED
      BY <2>2
  <1>3. IsFiniteSet(J) /\ Cardinality(J) = Left(d, work)
    <2> DEFINE L == Left(d, work)
    <2> HIDE DEF L
    <2>1. L \in Nat
      BY <1>1 DEF L
    <2>2. IsFiniteSet(0..(L - 1)) /\ Cardinality(0..(L - 1)) = L
      BY <2>1, FS_Interval
    <2> QED
      BY <2>2 DEF L
  <1>4. ASSUME NEW a \in G
        PROVE  u[a] = Cardinality(At(a)) /\ u[a] \in Nat /\ IsFiniteSet(At(a))
    <2>1. IsFiniteSet(At(a))
      BY <1>3, FS_Subset
    <2>2. u[a] = Cardinality(At(a))
      BY <1>1 DEF Units
    <2> QED
      BY <2>1, <2>2, FS_CardinalityType
  <1>5. {} \in Good
    <2>1. In({}) = {}
      OBVIOUS
    <2> QED
      BY <2>1, TotalEmpty, FS_EmptySet
  <1>6. ASSUME NEW T \in SUBSET G, NEW x \in G \ T, T \in Good
        PROVE  T \cup {x} \in Good
    <2>1. In(T \cup {x}) = In(T) \cup At(x)
      OBVIOUS
    <2>2. In(T) \cap At(x) = {}
      BY RankCovers
    <2>3. IsFiniteSet(In(T)) /\ IsFiniteSet(At(x))
      BY <1>3, FS_Subset
    <2>4. Total(T \cup {x}, u) = Total(T, u) + u[x]
      <3>1. IsFiniteSet(T) /\ x \notin T /\ \A y \in T \cup {x} : u[y] \in Nat
        BY <1>1, <1>4, FS_Subset
      <3> HIDE DEF u
      <3> QED
        BY <3>1, TotalAdd
    <2>5. Total(T, u) = Cardinality(In(T)) /\ u[x] = Cardinality(At(x))
      BY <1>4, <1>6
    <2> HIDE DEF In, At, u
    <2> DEFINE X == In(T)
               Y == At(x)
    <2> HIDE DEF X, Y
    <2>6. Cardinality(X \cup Y) = Cardinality(X) + Cardinality(Y)
      <3>1. IsFiniteSet(X) /\ IsFiniteSet(Y) /\ X \cap Y = {}
        BY <2>2, <2>3 DEF X, Y
      <3>2. Cardinality(X \cap Y) = 0
        BY <3>1, FS_EmptySet
      <3>3. Cardinality(X) \in Nat /\ Cardinality(Y) \in Nat
        BY <3>1, FS_CardinalityType
      <3>4. Cardinality(X \cup Y) = Cardinality(X) + Cardinality(Y) - Cardinality(X \cap Y)
        BY <3>1, FS_Union
      <3> QED
        BY <3>2, <3>3, <3>4
    <2> QED
      BY <2>1, <2>4, <2>5, <2>6 DEF X, Y
  <1>7. G \in Good
    <2> HIDE DEF Good
    <2> QED
      BY <1>1, <1>5, <1>6, SetInduction
  <1>8. In(G) = J
    <2>1. \A i \in J : i % n \in 0..(n - 1)
      BY <1>1, <1>2
    <2> QED
      BY <2>1, RankCovers
  <1>9. Total(G, u) = Left(d, work)
    BY <1>3, <1>7, <1>8
  <1> QED
    BY <1>4, <1>9

\* The fee and what is distributed make up the reward.
LEMMA FeeSplits ==
    ASSUME NEW reward \in Nat
    PROVE  /\ Distributable(reward) + PoolFee(reward) = reward
           /\ PoolFee(reward) * FeeBase >= reward * FeeBPS
  <1> DEFINE d == Distributable(reward)
             k == FeeBase - FeeBPS
             x == reward * k
  <1>1. FeeBase \in Nat \ {0} /\ FeeBPS \in Nat /\ k \in Nat /\ x \in Nat
    BY FeeAssumption
  <1>2. d = x \div FeeBase
    BY DEF Distributable
  <1>3. x = reward * FeeBase - reward * FeeBPS
    BY <1>1
  <1> HIDE DEF d, x
  <1>4. d \in Nat /\ FeeBase * d <= x
    <2>1. x \div FeeBase \in Nat /\ x % FeeBase \in 0..(FeeBase - 1)
             /\ x = FeeBase * (x \div FeeBase) + (x % FeeBase)
      BY <1>1, Division
    <2> QED
      BY <1>1, <1>2, <2>1
  <1>5. PoolFee(reward) = reward - d
    BY DEF PoolFee, d
  <1>6. (reward - d) * FeeBase = reward * FeeBase - FeeBase * d
    BY <1>1, <1>4
  <1>7. reward * FeeBase \in Nat /\ reward * FeeBPS \in Nat /\ FeeBase * d \in Nat
    BY <1>1, <1>4
  <1>8. (reward - d) * FeeBase >= reward * FeeBPS
    BY <1>3, <1>4, <1>6, <1>7
  <1> QED
    BY <1>4, <1>5, <1>8 DEF d

\* The allocations sum to what is distributed, whatever the work: no atomic
\* unit is lost or made, and the fee rounds up.
THEOREM DivisionSums ==
    ASSUME NEW reward \in Nat, NEW work \in [Address -> Nat], Selected(work) > 0
    PROVE  SumsExactly(reward, work)
  <1> DEFINE d == Distributable(reward)
             G == Grouped(work)
             q == [a \in Address |-> Quotient(d, work, a)]
             u == [a \in Address |-> Units(d, work, a)]
             m == Allocations(reward, work)
  <1>1. IsFiniteSet(G) /\ G \in SUBSET Address
    BY GroupedType
  <1>2. d \in Nat
    BY DistributableType
  <1>3. \A a \in Address \ G : m[a] = 0
    BY DEF Allocations, Amount, Grouped
  <1>4. \A a \in G : m[a] = q[a] + u[a]
    BY <1>1 DEF Allocations, Amount, Grouped
  <1> HIDE DEF d
  <1>5. \A a \in G : q[a] \in Nat
    BY <1>1, <1>2, Exact
  <1>6. (\A a \in G : u[a] \in Nat) /\ Total(G, u) = Left(d, work)
    BY <1>2, UnitsSum
  <1>7. Left(d, work) = d - Total(G, q)
    BY DEF Left
  <1> HIDE DEF G, q, u, m
  <1>8. Total(Address, m) = Total(G, m)
    BY <1>1, <1>3, TotalNonZero
  <1>9. Total(G, m) = Total(G, q) + Total(G, u)
    BY <1>1, <1>4, <1>5, <1>6, TotalPlus
  <1>10. Total(G, q) \in Nat
    BY <1>1, <1>5, TotalType
  <1>11. Total(Address, m) = d
    BY <1>2, <1>6, <1>7, <1>8, <1>9, <1>10
  <1> QED
    BY <1>11, FeeSplits DEF m, d, SumsExactly

\* Fewer units are left than there are addresses with a remainder.
LEMMA FewLeft ==
    ASSUME NEW d \in Nat, NEW work \in [Address -> Nat], Selected(work) > 0
    PROVE  LET P == {a \in Grouped(work) : Remainder(d, work, a) > 0} IN
           /\ IsFiniteSet(P) /\ Cardinality(P) \in Nat
           /\ Left(d, work) = 0 \/ Left(d, work) < Cardinality(P)
  <1> DEFINE P == {a \in Grouped(work) : Remainder(d, work, a) > 0}
             r == [a \in Address |-> Remainder(d, work, a)]
             W == Selected(work)
             L == Left(d, work)
             p == Cardinality(P)
  <1>1. IsFiniteSet(P) /\ P \in SUBSET Grouped(work) /\ p \in Nat
    BY GroupedType, FS_Subset, FS_CardinalityType
  <1>2. W \in Nat /\ W > 0 /\ L \in Nat /\ W * L = Total(Grouped(work), r)
    BY GroupedType, LeftOver
  <1>3. Total(Grouped(work), r) = Total(P, r)
    <2>1. \A a \in Grouped(work) \ P : r[a] = 0
      BY GroupedType, Exact
    <2> HIDE DEF P, r
    <2> QED
      BY <1>1, <2>1, TotalNonZero
  <1>4. \A a \in P : r[a] \in Nat /\ r[a] <= W - 1
    BY GroupedType, Exact
  <1> HIDE DEF P, r, W, L
  <1>5. Total(P, r) <= (W - 1) * p
    <2>1. W - 1 \in Nat
      BY <1>2
    <2> QED
      BY <1>1, <1>4, <2>1, TotalBound
  <1> HIDE DEF p
  <1>6. W * L <= (W - 1) * p
    BY <1>2, <1>3, <1>5
  <1>7. L = 0 \/ L < p
    <2> SUFFICES ASSUME L > 0, L >= p PROVE FALSE
      BY <1>1, <1>2
    <2>1. W - 1 \in Nat /\ p \in Nat /\ L \in Nat
      BY <1>1, <1>2
    <2>2. (W - 1) * p <= (W - 1) * L
      BY <2>1
    <2>3. (W - 1) * L = W * L - L
      BY <1>2
    <2>4. W * L \in Nat /\ (W - 1) * p \in Nat
      BY <1>2, <2>1
    <2> QED
      BY <1>6, <2>1, <2>2, <2>3, <2>4
  <1> QED
    BY <1>1, <1>7 DEF P, L, p

\* One unit for those with the highest remainders, and none without one.
LEMMA OneUnit ==
    ASSUME NEW d \in Nat, NEW work \in [Address -> Nat], Selected(work) > 0,
           NEW a \in Grouped(work)
    PROVE  /\ Units(d, work, a) = IF Rank(d, work, a) < Left(d, work) THEN 1 ELSE 0
           /\ Remainder(d, work, a) = 0 => Units(d, work, a) = 0
  <1> DEFINE P == {b \in Grouped(work) : Remainder(d, work, b) > 0}
             L == Left(d, work)
             n == Cardinality(Grouped(work))
             k == Rank(d, work, a)
             A == {i \in 0..(L - 1) : i % n = k}
  <1>1. IsFiniteSet(P) /\ Cardinality(P) \in Nat /\ (L = 0 \/ L < Cardinality(P)) /\ L \in Nat
    BY FewLeft, LeftOver
  <1>2. IsFiniteSet(Grouped(work)) /\ n \in Nat /\ Grouped(work) \subseteq Address
    BY GroupedType
  <1>3. k \in Nat /\ k < n
    BY RankOrder
  <1>4. L < n \/ L = 0
    <2>1. Cardinality(P) <= n
      BY <1>2, FS_Subset
    <2> QED
      BY <1>1, <1>2, <2>1
  <1>5. Units(d, work, a) = Cardinality(A)
    BY DEF Units
  <1>6. Units(d, work, a) = IF k < L THEN 1 ELSE 0
    <2> HIDE DEF L, n, k
    <2>1. \A i \in 0..(L - 1) : i % n = i
      BY <1>1, <1>2, <1>3, <1>4
    <2>2. CASE k < L
      <3>1. A = {k}
        BY <1>1, <1>3, <2>1, <2>2
      <3> QED
        BY <1>5, <2>2, <3>1, FS_Singleton
    <2>3. CASE ~(k < L)
      <3>1. A = {}
        BY <1>1, <1>3, <2>1, <2>3
      <3> QED
        BY <1>5, <2>3, <3>1, FS_EmptySet
    <2> QED
      BY <2>2, <2>3
  <1>7. ASSUME Remainder(d, work, a) = 0
        PROVE  Units(d, work, a) = 0
    <2>1. P \subseteq {b \in Grouped(work) : Before(d, work, b, a)}
      BY <1>7 DEF Before
    <2>2. IsFiniteSet({b \in Grouped(work) : Before(d, work, b, a)})
      BY <1>2, FS_Subset
    <2>3. Cardinality(P) <= k
      BY <2>1, <2>2, FS_Subset DEF Rank
    <2> QED
      BY <1>1, <1>3, <1>6, <2>3
  <1> QED
    BY <1>6, <1>7

\* The parts of what an address with work is paid.
LEMMA PayParts ==
    ASSUME NEW d \in Nat, NEW work \in [Address -> Nat], Selected(work) > 0,
           NEW a \in Address, work[a] > 0
    PROVE  /\ a \in Grouped(work)
           /\ Amount(d, work, a) = Quotient(d, work, a) + Units(d, work, a)
           /\ Units(d, work, a) \in {0, 1}
           /\ Units(d, work, a) = 1 => /\ Remainder(d, work, a) > 0
                                       /\ Rank(d, work, a) < Left(d, work)
           /\ Rank(d, work, a) < Left(d, work) => Units(d, work, a) = 1
  <1>1. a \in Grouped(work)
    BY DEF Grouped
  <1>2. Amount(d, work, a) = Quotient(d, work, a) + Units(d, work, a)
    BY DEF Amount
  <1>3. Remainder(d, work, a) \in Nat
    BY Exact
  <1> QED
    BY <1>1, <1>2, <1>3, OneUnit

\* Who is before another with as large a quotient gets a unit no later.
LEMMA UnitsOrder ==
    ASSUME NEW d \in Nat, NEW work \in [Address -> Nat], Selected(work) > 0,
           NEW a \in Address, NEW b \in Address, work[a] > 0, work[b] > 0,
           Before(d, work, a, b)
    PROVE  Units(d, work, b) <= Units(d, work, a)
  <1>1. a \in Grouped(work) /\ b \in Grouped(work)
    BY PayParts
  <1>2. /\ Rank(d, work, a) < Rank(d, work, b)
        /\ Rank(d, work, a) \in Nat /\ Rank(d, work, b) \in Nat
    BY <1>1, RankOrder
  <1>3. Left(d, work) \in Nat
    BY LeftOver
  <1> QED
    BY <1>2, <1>3, PayParts

\* Nobody is off their exact share by a whole unit.
LEMMA WithinOne ==
    ASSUME NEW d \in Nat, NEW work \in [Address -> Nat], Selected(work) > 0,
           NEW a \in Address
    PROVE  /\ Amount(d, work, a) \in Nat
           /\ Amount(d, work, a) * Selected(work) - d * work[a]
                 \in (1 - Selected(work))..(Selected(work) - 1)
  <1> DEFINE W == Selected(work)
             q == Quotient(d, work, a)
             r == Remainder(d, work, a)
             u == Units(d, work, a)
  <1>1. W \in Nat /\ W > 0 /\ work[a] \in Nat
    BY GroupedType
  <1>2. q \in Nat /\ r \in Nat /\ r < W /\ d * work[a] = W * q + r
    BY Exact
  <1>3. CASE work[a] = 0
    BY <1>1, <1>3 DEF Amount
  <1>4. CASE work[a] > 0
    <2>1. Amount(d, work, a) = q + u /\ u \in {0, 1} /\ (u = 1 => r > 0)
      BY <1>4, PayParts
    <2> HIDE DEF W, q, r, u
    <2>2. W * q \in Nat /\ W * u = IF u = 1 THEN W ELSE 0
      BY <1>1, <1>2, <2>1
    <2>3. (q + u) * W = W * q + W * u
      BY <1>1, <1>2, <2>1
    <2>4. (q + u) * W - (W * q + r) = (IF u = 1 THEN W ELSE 0) - r
      BY <1>1, <1>2, <2>1, <2>2, <2>3
    <2>5. (IF u = 1 THEN W ELSE 0) - r \in (1 - W)..(W - 1)
      BY <1>1, <1>2, <2>1
    <2>6. q + u \in Nat
      BY <1>2, <2>1
    <2> QED
      BY <1>2, <2>1, <2>4, <2>5, <2>6 DEF W
  <1> QED
    BY <1>1, <1>3, <1>4

\* More work never earns less.
LEMMA MoreEarnsMore ==
    ASSUME NEW d \in Nat, NEW work \in [Address -> Nat], Selected(work) > 0,
           NEW a \in Address, NEW b \in Address, work[a] > work[b]
    PROVE  Amount(d, work, a) >= Amount(d, work, b)
  <1> DEFINE W == Selected(work)
             q(c) == Quotient(d, work, c)
             r(c) == Remainder(d, work, c)
             u(c) == Units(d, work, c)
  <1>1. work[a] \in Nat /\ work[b] \in Nat /\ work[a] > 0 /\ W \in Nat /\ W > 0
    BY GroupedType
  <1>2. CASE work[b] = 0
    <2>1. Amount(d, work, b) = 0 /\ Amount(d, work, a) \in Nat
      BY <1>2, WithinOne DEF Amount
    <2> QED
      BY <2>1
  <1>3. CASE work[b] > 0
    <2>1. /\ Amount(d, work, a) = q(a) + u(a) /\ u(a) \in {0, 1}
          /\ Amount(d, work, b) = q(b) + u(b) /\ u(b) \in {0, 1}
          /\ u(b) = 1 => r(b) > 0
      BY <1>1, <1>3, PayParts
    <2>2. /\ q(a) \in Nat /\ r(a) \in Nat /\ r(a) < W /\ d * work[a] = W * q(a) + r(a)
          /\ q(b) \in Nat /\ r(b) \in Nat /\ r(b) < W /\ d * work[b] = W * q(b) + r(b)
      BY Exact
    <2>3. d * work[a] = d * work[b] + d * (work[a] - work[b])
      BY <1>1
    <2>4. d * (work[a] - work[b]) \in Nat
      BY <1>1
    <2>5. d > 0 => d * (work[a] - work[b]) > 0
      BY <1>1
    <2>6. CASE q(a) # q(b)
      <3>1. q(a) > q(b)
        <4>0. q(a) \in Nat /\ q(b) \in Nat
          BY <2>2
        <4> SUFFICES ASSUME q(a) <= q(b) - 1 PROVE FALSE
          BY <2>6, <4>0
        <4>1. W * q(a) <= W * (q(b) - 1)
          BY <1>1, <2>2
        <4>2. W * (q(b) - 1) = W * q(b) - W /\ W * q(b) \in Nat /\ W * q(a) \in Nat
          BY <1>1, <2>2
        <4> QED
          BY <1>1, <2>2, <2>3, <2>4, <4>1, <4>2
      <3> QED
        BY <2>1, <2>2, <3>1
    <2>7. CASE q(a) = q(b) /\ u(b) = 1
      <3>1. d > 0
        <4> SUFFICES ASSUME d = 0 PROVE FALSE
          OBVIOUS
        <4>1. W * q(b) \in Nat /\ d * work[b] = 0
          BY <1>1, <2>2
        <4> QED
          BY <2>1, <2>2, <2>7, <4>1
      <3>2. W * q(b) \in Nat /\ W * q(a) = W * q(b)
        BY <1>1, <2>2, <2>7
      <3>3. r(a) > r(b)
        BY <2>2, <2>3, <2>4, <2>5, <3>1, <3>2
      <3>4. u(b) <= u(a)
        BY <1>1, <1>3, <3>3, UnitsOrder DEF Before
      <3> QED
        BY <2>1, <2>2, <2>7, <3>4
    <2>8. CASE q(a) = q(b) /\ u(b) = 0
      BY <2>1, <2>2, <2>8
    <2> QED
      BY <2>1, <2>6, <2>7, <2>8
  <1> QED
    BY <1>1, <1>2, <1>3

\* Equal work: equal quotients and remainders, and the smaller address first.
LEMMA EqualWork ==
    ASSUME NEW d \in Nat, NEW work \in [Address -> Nat], Selected(work) > 0,
           NEW a \in Address, NEW b \in Address, work[a] = work[b], a < b
    PROVE  Amount(d, work, a) \in Amount(d, work, b)..(Amount(d, work, b) + 1)
  <1>1. work[a] \in Nat
    OBVIOUS
  <1>2. CASE work[a] = 0
    BY <1>2 DEF Amount
  <1>3. CASE work[a] > 0
    <2>1. /\ Quotient(d, work, a) = Quotient(d, work, b)
          /\ Remainder(d, work, a) = Remainder(d, work, b)
      BY DEF Quotient, Remainder
    <2>2. Units(d, work, b) <= Units(d, work, a)
      BY <1>3, <2>1, UnitsOrder DEF Before
    <2>3. Quotient(d, work, b) \in Nat
      BY Exact
    <2>4. /\ Amount(d, work, a) = Quotient(d, work, a) + Units(d, work, a)
          /\ Amount(d, work, b) = Quotient(d, work, b) + Units(d, work, b)
          /\ Units(d, work, a) \in {0, 1} /\ Units(d, work, b) \in {0, 1}
      BY <1>3, PayParts
    <2> QED
      BY <2>1, <2>2, <2>3, <2>4
  <1> QED
    BY <1>1, <1>2, <1>3

\* The division is fair, for any reward, fee, addresses and work: the rounding
\* of largest remainders never costs anyone a whole unit or turns the order of
\* the miners round.
THEOREM DivisionFair ==
    ASSUME NEW reward \in Nat, NEW work \in [Address -> Nat], Selected(work) > 0
    PROVE  IsFair(reward, work)
  <1> DEFINE d == Distributable(reward)
             m == Allocations(reward, work)
  <1>1. d \in Nat
    BY DistributableType
  <1>2. \A a \in Address : m[a] = Amount(d, work, a)
    BY DEF Allocations
  <1> HIDE DEF d, m
  <1>3. ASSUME NEW a \in Address, NEW b \in Address
        PROVE  /\ m[a] * Selected(work) - d * work[a]
                     \in (1 - Selected(work))..(Selected(work) - 1)
               /\ work[a] > work[b] => m[a] >= m[b]
               /\ work[a] = work[b] /\ a < b => m[a] \in m[b]..(m[b] + 1)
    BY <1>1, <1>2, WithinOne, MoreEarnsMore, EqualWork
  <1> QED
    BY <1>3 DEF IsFair, d, m
-----------------------------------------------------------------------------
(* The shares table.                                                         *)

\* Rows are inserted in the order of the pool's parents, none before its own.
RowsOK ==
    /\ \A r \in history : /\ r.id < nextId /\ r.parent <= parent
                          /\ ParentOf[r.hash] <= r.parent
    /\ \A r, s \in history : r.id < s.id => r.parent <= s.parent
    /\ \A m \in Busy : ParentOf[hand[m]] <= parent

\* What a prune is about to keep is enough, and a row that is gone is followed
\* by enough.
PruneOK ==
    /\ pruneCut # 0 => WorkIn(From(shares, pruneCut)) >= Retention
    /\ \A r \in history \ shares : WorkIn(After(history, r.id)) >= Retention

IInv == TypeOK /\ RowsOK /\ PruneOK /\ CreditedOnce /\ RetainsEnough
-----------------------------------------------------------------------------
\* More rows, more work.
LEMMA WorkMonotone ==
    ASSUME NEW T \in SUBSET Row, IsFiniteSet(T), NEW S \in SUBSET T
    PROVE  WorkIn(S) \in Nat /\ WorkIn(T) \in Nat /\ WorkIn(S) <= WorkIn(T)
  <1> DEFINE f == [row \in T |-> WorkOf[row.hash]]
             g == [row \in S |-> WorkOf[row.hash]]
  <1>1. \A row \in T : f[row] \in Nat
    BY SharesAssumption DEF Row
  <1>2. \A row \in S : f[row] = g[row]
    OBVIOUS
  <1>3. IsFiniteSet(S)
    BY FS_Subset
  <1> HIDE DEF f, g
  <1>4. Total(S, f) \in Nat /\ Total(T, f) \in Nat /\ Total(S, f) <= Total(T, f)
    BY <1>1, <1>3, TotalType, TotalMonotone
  <1>5. Total(S, f) = Total(S, g)
    BY <1>2, TotalSame
  <1> QED
    BY <1>4, <1>5 DEF WorkIn, f, g

LEMMA RetentionType == Retention \in Nat /\ WindowWork \in Nat /\ Retention - WindowWork < Retention
  BY SharesAssumption DEF Retention

-----------------------------------------------------------------------------
(* The window.                                                               *)

\* Rows of the table: finitely many, each with an id of its own.
IsTable(S) ==
    /\ S \subseteq Row /\ IsFiniteSet(S)
    /\ \A r, s \in S : r.id = s.id => r = s

LEMMA TablePart ==
    ASSUME NEW S, IsTable(S), NEW T \in SUBSET S
    PROVE  IsTable(T)
  BY FS_Subset DEF IsTable

\* What a row is worth, and to whom.
LEMMA RowType ==
    ASSUME NEW row \in Row
    PROVE  /\ row.id \in Nat /\ row.hash \in Hash /\ WorkOf[row.hash] \in Nat \ {0}
           /\ AddressOf[OwnerOf[row.hash]] \in Address
  BY SharesAssumption DEF Row

\* There is an oldest row.
LEMMA OldestIs ==
    ASSUME NEW S, IsTable(S), S # {}
    PROVE  Oldest(S) \in S /\ \A row \in S : row # Oldest(S) => Oldest(S).id < row.id
  <1> DEFINE I == {row.id : row \in S}
  <1>1. I \subseteq Nat /\ I # {}
    BY RowType DEF IsTable
  <1> HIDE DEF I
  <1>2. PICK i \in I : \A j \in I : i <= j
    BY <1>1, LeastNatural
  <1>3. \E row \in S : \A other \in S : row.id <= other.id
    BY <1>2 DEF I
  <1>4. Oldest(S) \in S /\ \A other \in S : Oldest(S).id <= other.id
    BY <1>3 DEF Oldest
  <1>5. \A row \in S : row.id \in Nat /\ (row.id = Oldest(S).id => row = Oldest(S))
    BY <1>4, RowType DEF IsTable
  <1> QED
    BY <1>4, <1>5

\* The work of rows, one row at a time.
LEMMA WorkAdd ==
    ASSUME NEW S, IsTable(S), NEW x \in S
    PROVE  /\ WorkIn(S) = WorkIn(S \ {x}) + WorkOf[x.hash]
           /\ WorkIn(S) \in Nat /\ WorkIn(S \ {x}) \in Nat
  <1> DEFINE T == S \ {x}
             f == [row \in S |-> WorkOf[row.hash]]
             g == [row \in T |-> WorkOf[row.hash]]
  <1>1. IsFiniteSet(T) /\ x \notin T /\ T \cup {x} = S
    BY FS_Subset DEF IsTable
  <1>2. \A row \in S : f[row] \in Nat
    BY RowType DEF IsTable
  <1>3. \A row \in T : f[row] = g[row]
    OBVIOUS
  <1>4. f[x] = WorkOf[x.hash]
    OBVIOUS
  <1> HIDE DEF T, f, g
  <1>5. Total(S, f) = Total(T, f) + f[x]
    BY <1>1, <1>2, TotalAdd
  <1>6. Total(T, f) = Total(T, g)
    BY <1>3, TotalSame
  <1>7. Total(T, f) \in Nat /\ f[x] \in Nat
    BY <1>1, <1>2, TotalType
  <1> QED
    BY <1>4, <1>5, <1>6, <1>7 DEF WorkIn, T, f, g

\* What counts of a row.
LEMMA CountedType ==
    ASSUME NEW S, IsTable(S), NEW row \in S
    PROVE  /\ WorkIn(After(S, row.id)) \in Nat
           /\ Counted(S, row) \in Nat
  <1>1. After(S, row.id) \in SUBSET S /\ S \in SUBSET Row /\ IsFiniteSet(S)
    BY DEF After, IsTable
  <1>2. WorkIn(After(S, row.id)) \in Nat
    BY <1>1, WorkMonotone
  <1>3. WorkOf[row.hash] \in Nat /\ WindowWork \in Nat
    BY RowType, RetentionType DEF IsTable
  <1> QED
    BY <1>2, <1>3 DEF Counted

\* The work of an address within the window is a total over its rows.
Rows(S, a) == {row \in S : AddressOf[OwnerOf[row.hash]] = a}

LEMMA IdealType ==
    ASSUME NEW S, IsTable(S)
    PROVE  /\ IdealWork(S) \in [Address -> Nat]
           /\ Selected(IdealWork(S)) \in Nat
  <1> DEFINE f == [row \in S |-> Counted(S, row)]
  <1>1. \A row \in S : f[row] \in Nat
    BY CountedType
  <1>2. \A a \in Address : IdealWork(S)[a] = Total(Rows(S, a), f)
    BY DEF IdealWork, Rows
  <1>3. DOMAIN IdealWork(S) = Address
    BY DEF IdealWork
  <1> HIDE DEF f
  <1>4. ASSUME NEW a \in Address PROVE Total(Rows(S, a), f) \in Nat
    <2>1. IsFiniteSet(Rows(S, a)) /\ Rows(S, a) \subseteq S
      BY FS_Subset DEF Rows, IsTable
    <2> QED
      BY <1>1, <2>1, TotalType
  <1>5. IdealWork(S) \in [Address -> Nat]
    BY <1>2, <1>4 DEF IdealWork
  <1> QED
    BY <1>5, GroupedType

\* The oldest row adds what of it the others leave room for, to its address,
\* and changes nothing of what counts of them.
Room(S) == WindowWork - WorkIn(S)

LEMMA OldestAdds ==
    ASSUME NEW S, IsTable(S), NEW x \in S, x = Oldest(S), NEW T, T = S \ {x}
    PROVE  /\ Counted(S, x) = IF Room(T) <= 0 THEN 0
                              ELSE IF WorkOf[x.hash] > Room(T) THEN Room(T)
                              ELSE WorkOf[x.hash]
           /\ \A a \in Address :
                 IdealWork(S)[a] = IdealWork(T)[a]
                    + (IF a = AddressOf[OwnerOf[x.hash]] THEN Counted(S, x) ELSE 0)
  <1> DEFINE f == [row \in S |-> Counted(S, row)]
             g == [row \in T |-> Counted(T, row)]
             b == AddressOf[OwnerOf[x.hash]]
  <1>1. IsTable(T) /\ IsFiniteSet(T) /\ x \notin T
    BY TablePart DEF IsTable
  <1>2. \A row \in T : x.id < row.id /\ row.id \in Nat /\ x.id \in Nat
    BY OldestIs, RowType DEF IsTable
  <1>3. After(S, x.id) = T
    <2>1. ~(x.id > x.id)
      BY RowType DEF IsTable
    <2> QED
      BY <1>2, <2>1 DEF After
  <1>4. \A row \in T : After(S, row.id) = After(T, row.id)
    BY <1>2 DEF After
  <1>5. Counted(S, x) = IF Room(T) <= 0 THEN 0
                        ELSE IF WorkOf[x.hash] > Room(T) THEN Room(T)
                        ELSE WorkOf[x.hash]
    BY <1>3 DEF Counted, Room
  <1>6. \A row \in T : f[row] = g[row] /\ f[row] \in Nat
    <2>1. \A row \in T : Counted(S, row) = Counted(T, row)
      BY <1>4 DEF Counted
    <2> QED
      BY <2>1, CountedType
  <1>7. f[x] = Counted(S, x) /\ f[x] \in Nat
    BY CountedType
  <1>8. \A a \in Address : /\ IdealWork(S)[a] = Total(Rows(S, a), f)
                           /\ IdealWork(T)[a] = Total(Rows(T, a), g)
    BY DEF IdealWork, Rows
  <1> HIDE DEF f, g
  <1>9. ASSUME NEW a \in Address
        PROVE  Total(Rows(S, a), f) = Total(Rows(T, a), g) + (IF a = b THEN f[x] ELSE 0)
    <2>1. /\ IsFiniteSet(Rows(T, a)) /\ Rows(T, a) \subseteq T
      BY <1>1, FS_Subset DEF Rows
    <2>2. Total(Rows(T, a), f) = Total(Rows(T, a), g) /\ Total(Rows(T, a), f) \in Nat
      BY <1>6, <2>1, TotalSame, TotalType
    <2>3. CASE a = b
      <3>1. Rows(S, a) = Rows(T, a) \cup {x} /\ x \notin Rows(T, a)
        BY <1>1, <2>3 DEF Rows
      <3>2. \A row \in Rows(T, a) \cup {x} : f[row] \in Nat
        BY <1>6, <1>7, <2>1
      <3>3. Total(Rows(T, a) \cup {x}, f) = Total(Rows(T, a), f) + f[x]
        BY <2>1, <3>1, <3>2, TotalAdd
      <3> QED
        BY <2>2, <2>3, <3>1, <3>3
    <2>4. CASE a # b
      <3>1. Rows(S, a) = Rows(T, a)
        BY <2>4 DEF Rows
      <3> QED
        BY <2>2, <2>4, <3>1
    <2> QED
      BY <2>3, <2>4
  <1>10. \A a \in Address : IdealWork(S)[a] = IdealWork(T)[a]
                                 + (IF a = b THEN Counted(S, x) ELSE 0)
    <2> SUFFICES ASSUME NEW a \in Address
                 PROVE  IdealWork(S)[a] = IdealWork(T)[a] + (IF a = b THEN Counted(S, x) ELSE 0)
      OBVIOUS
    <2>1. /\ IdealWork(S)[a] = Total(Rows(S, a), f)
          /\ IdealWork(T)[a] = Total(Rows(T, a), g)
      BY <1>8
    <2>2. Total(Rows(S, a), f) = Total(Rows(T, a), g) + (IF a = b THEN f[x] ELSE 0)
      BY <1>9
    <2> HIDE DEF b
    <2> QED
      BY ONLY <1>7, <2>1, <2>2
  <1> QED
    BY <1>5, <1>10

\* What is selected is the work of the rows, within the window.
Within(S) == IF WorkIn(S) <= WindowWork THEN WorkIn(S) ELSE WindowWork

LEMMA EmptyWork ==
    /\ IdealWork({}) = NoWork.work
    /\ Selected(IdealWork({})) = 0 /\ WorkIn({}) = 0 /\ Within({}) = 0
  <1>1. WorkIn({}) = 0
    BY TotalEmpty DEF WorkIn
  <1>2. \A a \in Address : IdealWork({})[a] = 0
    BY TotalEmpty DEF IdealWork
  <1>3. IdealWork({}) = [a \in Address |-> 0]
    BY <1>2 DEF IdealWork
  <1> DEFINE w == IdealWork({})
  <1>4. \A a \in Address \ {} : w[a] = 0
    BY <1>2
  <1> HIDE DEF w
  <1>5. Total(Address, w) = Total({}, w)
    BY <1>4, TotalNonZero
  <1>6. Selected(w) = 0
    BY <1>5, TotalEmpty DEF Selected
  <1> QED
    BY <1>1, <1>3, <1>6, RetentionType DEF NoWork, Within, w

LEMMA SelectedIs ==
    ASSUME NEW S, IsTable(S)
    PROVE  Selected(IdealWork(S)) = Within(S)
  <1> DEFINE Good == {T \in SUBSET S : Selected(IdealWork(T)) = Within(T)}
  <1>1. {} \in Good
    BY EmptyWork
  <1>2. ASSUME NEW T \in SUBSET S, T # {}
        PROVE  \E x \in T : T \ {x} \in Good => T \in Good
    <2>1. IsTable(T)
      BY TablePart
    <2> DEFINE x == Oldest(T)
               U == T \ {x}
               k == Counted(T, x)
               b == AddressOf[OwnerOf[x.hash]]
               before == IdealWork(U)
               after == IdealWork(T)
    <2>2. x \in T
      BY <1>2, <2>1, OldestIs
    <2>3. IsTable(U)
      BY <2>1, TablePart
    <2>4. /\ k = IF Room(U) <= 0 THEN 0
                 ELSE IF WorkOf[x.hash] > Room(U) THEN Room(U) ELSE WorkOf[x.hash]
          /\ \A a \in Address : after[a] = before[a] + (IF a = b THEN k ELSE 0)
      BY <2>1, <2>2, OldestAdds
    <2>5. k \in Nat /\ b \in Address /\ WorkOf[x.hash] \in Nat
      BY <2>1, <2>2, CountedType, RowType DEF IsTable
    <2>6. \A a \in Address : before[a] \in Nat
      BY <2>3, IdealType
    <2>7. WorkIn(T) = WorkIn(U) + WorkOf[x.hash] /\ WorkIn(U) \in Nat
      BY <2>1, <2>2, WorkAdd
    <2> HIDE DEF x, U, k, b, before, after
    <2>8. Total(Address, after) = Total(Address, before) + k
      <3>1. \A a \in Address : /\ before[a] \in Nat
                               /\ after[a] = before[a] + (IF a = b THEN k ELSE 0)
        BY <2>4, <2>6
      <3>2. IsFiniteSet(Address)
        BY FeeAssumption
      <3>3. k \in Nat /\ b \in Address
        BY <2>5
      <3> QED
        BY ONLY <3>1, <3>2, <3>3, TotalRaise
    <2>9. ASSUME Total(Address, before) = Within(U)
          PROVE  Total(Address, after) = Within(T)
      BY <2>4, <2>5, <2>7, <2>8, <2>9, RetentionType DEF Within, Room
    <2> QED
      BY <2>2, <2>9 DEF Selected, before, after, U
  <1>3. S \in Good
    <2>1. IsFiniteSet(S)
      BY DEF IsTable
    <2> HIDE DEF Good
    <2> QED
      BY <1>1, <1>2, <2>1, SetRemoval
  <1> QED
    BY <1>3

\* What the loop ought to have at the end.
Ideal(S) == [selected |-> Selected(IdealWork(S)), work |-> IdealWork(S)]

\* One turn of the loop takes it from the younger rows to all of them.
LEMMA IdealTake ==
    ASSUME NEW S, IsTable(S), NEW x \in S, x = Oldest(S), NEW T, T = S \ {x}
    PROVE  Ideal(S) = Take(Credit(x), Ideal(T), WindowWork)
  <1> DEFINE k == Counted(S, x)
             b == AddressOf[OwnerOf[x.hash]]
             before == IdealWork(T)
             after == IdealWork(S)
             w == WorkOf[x.hash]
  <1>1. IsTable(T)
    BY TablePart
  <1>2. /\ k = IF Room(T) <= 0 THEN 0 ELSE IF w > Room(T) THEN Room(T) ELSE w
        /\ \A a \in Address : after[a] = before[a] + (IF a = b THEN k ELSE 0)
    BY OldestAdds
  <1>3. b \in Address /\ w \in Nat
    BY RowType DEF IsTable
  <1>4. /\ before = [a \in Address |-> before[a]] /\ after = [a \in Address |-> after[a]]
        /\ \A a \in Address : before[a] \in Nat
    BY <1>1, IdealType DEF IdealWork
  <1>5. /\ Selected(before) = Within(T) /\ Selected(after) = Within(S)
        /\ WorkIn(S) = WorkIn(T) + w /\ WorkIn(T) \in Nat
    BY <1>1, SelectedIs, WorkAdd
  <1>6. Credit(x).address = b /\ Credit(x).work = w
    BY DEF Credit
  <1>7. /\ Ideal(T).selected = Selected(before) /\ Ideal(T).work = before
        /\ Ideal(S) = [selected |-> Selected(after), work |-> after]
    BY DEF Ideal
  <1>8. CASE Room(T) <= 0
    <2>1. Selected(before) >= WindowWork /\ Selected(after) = Selected(before)
      BY <1>3, <1>5, <1>8, RetentionType DEF Within, Room
    <2>2. after = before
      <3>1. \A a \in Address : after[a] = before[a]
        BY <1>2, <1>4, <1>8
      <3> QED
        BY <1>4, <3>1
    <2>3. Take(Credit(x), Ideal(T), WindowWork) = Ideal(T)
      BY <1>7, <2>1 DEF Take
    <2> QED
      BY <2>2, <2>3 DEF Ideal
  <1>9. CASE Room(T) > 0
    <2>1. /\ ~(Selected(before) >= WindowWork)
          /\ WindowWork - Selected(before) = Room(T)
          /\ Selected(after) = Selected(before) + k
      BY <1>2, <1>3, <1>5, <1>9, RetentionType DEF Within, Room
    <2>2. k = IF w > Room(T) THEN Room(T) ELSE w
      BY <1>2, <1>3, <1>5, <1>9, RetentionType DEF Room
    <2> HIDE DEF k, b, before, after, w
    <2>3. Take(Credit(x), Ideal(T), WindowWork)
             = [selected |-> Selected(before) + k, work |-> [before EXCEPT ![b] = @ + k]]
      BY <1>6, <1>7, <2>1, <2>2 DEF Take
    <2>4. after = [before EXCEPT ![b] = @ + k]
      <3>1. [before EXCEPT ![b] = @ + k]
               = [a \in Address |-> IF a = b THEN before[b] + k ELSE before[a]]
        BY <1>3, <1>4
      <3>2. \A a \in Address : after[a] = IF a = b THEN before[b] + k ELSE before[a]
        BY <1>2, <1>4
      <3> QED
        BY <1>4, <3>1, <3>2
    <2> QED
      BY <1>7, <2>1, <2>3, <2>4
  <1>10. Room(T) \in Int
    BY <1>5, RetentionType DEF Room
  <1> QED
    BY <1>8, <1>9, <1>10

\* The fold, as the library defines it.
IsLoop(S, credit, g) ==
    g = [s \in SUBSET S |->
            IF s = {} THEN NoWork
            ELSE Take(credit[Oldest(s)], g[s \ {Oldest(s)}], WindowWork)]

\* The window of AllocateBlock: the loop that reads the rows newest first and
\* cuts the last one gives every address what counts of its rows.
THEOREM WindowIs ==
    ASSUME NEW S, IsTable(S)
    PROVE  Window(S, Credits(S), WindowWork) = Ideal(S)
  <1> DEFINE credit == Credits(S)
  <1>1. Ideal({}) = NoWork
    BY EmptyWork DEF Ideal, NoWork
  <1>2. ASSUME NEW s \in SUBSET S, s # {}
        PROVE  /\ Oldest(s) \in s
               /\ Ideal(s) = Take(credit[Oldest(s)], Ideal(s \ {Oldest(s)}), WindowWork)
    <2>1. IsTable(s)
      BY TablePart
    <2>2. Oldest(s) \in s
      BY <1>2, <2>1, OldestIs
    <2>3. credit[Oldest(s)] = Credit(Oldest(s))
      BY <2>2 DEF Credits
    <2> HIDE DEF credit
    <2> QED
      BY <2>1, <2>2, <2>3, IdealTake
  <1> HIDE DEF credit
  <1> DEFINE G == [s \in SUBSET S |-> Ideal(s)]
  <1>3. IsLoop(S, credit, G)
    <2>1. ASSUME NEW s \in SUBSET S
          PROVE  G[s] = IF s = {} THEN NoWork
                        ELSE Take(credit[Oldest(s)], G[s \ {Oldest(s)}], WindowWork)
      <3>1. s \ {Oldest(s)} \in SUBSET S /\ G[s] = Ideal(s)
        OBVIOUS
      <3>2. G[s \ {Oldest(s)}] = Ideal(s \ {Oldest(s)})
        BY <3>1
      <3> QED
        BY <1>1, <1>2, <3>1, <3>2
    <2>2. G = [s \in SUBSET S |-> G[s]]
      OBVIOUS
    <2> HIDE DEF G
    <2>3. [s \in SUBSET S |-> G[s]]
             = [s \in SUBSET S |->
                   IF s = {} THEN NoWork
                   ELSE Take(credit[Oldest(s)], G[s \ {Oldest(s)}], WindowWork)]
      BY <2>1
    <2> QED
      BY <2>2, <2>3 DEF IsLoop
  <1> DEFINE loop == CHOOSE g :
                g = [s \in SUBSET S |->
                        IF s = {} THEN NoWork
                        ELSE Take(credit[Oldest(s)], g[s \ {Oldest(s)}], WindowWork)]
  <1>4. Window(S, credit, WindowWork) = loop[S]
    BY DEF Window, MapThenFoldSet
  <1>5. loop = CHOOSE g : IsLoop(S, credit, g)
    BY DEF IsLoop
  <1> HIDE DEF loop, G
  <1>6. IsLoop(S, credit, loop)
    BY <1>3, <1>5
  <1> DEFINE Good == {s \in SUBSET S : loop[s] = Ideal(s)}
  <1>7. {} \in Good
    BY <1>1, <1>6 DEF IsLoop
  <1>8. ASSUME NEW s \in SUBSET S, s # {}
        PROVE  \E x \in s : s \ {x} \in Good => s \in Good
    <2>1. loop[s] = Take(credit[Oldest(s)], loop[s \ {Oldest(s)}], WindowWork)
      BY <1>6, <1>8 DEF IsLoop
    <2> QED
      BY <1>2, <1>8, <2>1
  <1>9. S \in Good
    <2>1. IsFiniteSet(S)
      BY DEF IsTable
    <2> HIDE DEF Good
    <2> QED
      BY <1>7, <1>8, <2>1, SetRemoval
  <1> QED
    BY <1>4, <1>9 DEF credit

LEMMA InitIInv == Init => IInv
  <1> SUFFICES ASSUME Init PROVE IInv
    OBVIOUS
  <1>1. Busy = {}
    BY DEF Init, Busy
  <1>2. IsFiniteSet(history) /\ history \subseteq Row
    BY FS_EmptySet DEF Init
  <1>3. parent \in 1..MaxParent
    BY SharesAssumption DEF Init
  <1>4. pc \in [Miner -> {"idle", "record", "allocate"}]
           /\ hand \in [Miner -> Hash \cup {NoHash}]
           /\ submits \in [Miner -> SUBSET Hash] /\ cutoff \in [Miner -> Nat]
    BY DEF Init
  <1>5. /\ nextId \in Nat \ {0} /\ shares \subseteq history
        /\ pruneCut \in Nat
    BY DEF Init
  <1>6. pruneDue \in BOOLEAN
    BY Zenon DEF Init
  <1>7. TypeOK
    BY <1>1, <1>2, <1>3, <1>4, <1>5, <1>6 DEF TypeOK
  <1> QED
    BY <1>1, <1>7 DEF Init, IInv, RowsOK, PruneOK, CreditedOnce, RetainsEnough, Busy

\* Steps that leave the rows alone.
LEMMA RowsStay ==
    ASSUME IInv, UNCHANGED <<shares, nextId, history>>, parent' >= parent,
           parent' \in Nat, pruneCut' \in {pruneCut, 0},
           \A m \in Busy' : ParentOf[hand'[m]] <= parent'
    PROVE  RowsOK' /\ PruneOK' /\ CreditedOnce' /\ RetainsEnough'
  <1>1. RowsOK'
    <2>1. \A r \in history : r.parent \in Nat /\ parent \in Nat
      BY SharesAssumption DEF IInv, TypeOK, Row
    <2> QED
      BY <2>1 DEF IInv, RowsOK
  <1>2. PruneOK'
    BY DEF IInv, PruneOK, WorkIn, From, After
  <1> QED
    BY <1>1, <1>2 DEF IInv, CreditedOnce, RetainsEnough, WorkIn

\* The steps of a submit handler other than the insert.
LEMMA HandlerStep ==
    ASSUME IInv, NEW m \in Miner,
           \/ \E x \in Hash : Submit(m, x)
           \/ RecordFails(m) \/ AllocateBlock(m) \/ AllocationFails(m)
    PROVE  IInv'
  <1>1. ASSUME NEW x \in Hash, Submit(m, x)
        PROVE  IInv'
    <2>1. submits' \in [Miner -> SUBSET Hash]
      BY <1>1 DEF Submit, Remember, IInv, TypeOK
    <2>2. pc' = [pc EXCEPT ![m] = "record"] /\ hand' = [hand EXCEPT ![m] = x]
             /\ ParentOf[x] = parent
             /\ UNCHANGED <<parent, shares, nextId, cutoff, pruneDue, pruneCut, blocks, history>>
      BY <1>1 DEF Submit
    <2>3. \A k \in Busy' : k = m \/ (k \in Busy /\ hand'[k] = hand[k])
      BY <2>2 DEF Busy, IInv, TypeOK
    <2>4. hand'[m] = x
      BY <2>2 DEF IInv, TypeOK
    <2>5. TypeOK'
      BY <2>1, <2>2, <2>3, <2>4 DEF IInv, TypeOK
    <2>6. parent \in Nat /\ \A k \in Busy' : ParentOf[hand'[k]] <= parent'
      BY <2>2, <2>3, <2>4 DEF IInv, TypeOK, RowsOK
    <2> QED
      BY <2>2, <2>5, <2>6, RowsStay DEF IInv
  <1>2. CASE RecordFails(m) \/ AllocateBlock(m) \/ AllocationFails(m)
    <2>1. /\ pc' = [pc EXCEPT ![m] = "idle"]
          /\ UNCHANGED <<parent, shares, nextId, submits, hand, cutoff, pruneDue, pruneCut,
                         history>>
      BY <1>2 DEF RecordFails, AllocateBlock, AllocationFails
    <2>2. Busy' \subseteq Busy
      BY <2>1 DEF Busy, IInv, TypeOK
    <2>3. TypeOK'
      BY <2>1, <2>2 DEF IInv, TypeOK
    <2>4. parent \in Nat /\ \A k \in Busy' : ParentOf[hand'[k]] <= parent'
      BY <2>1, <2>2 DEF IInv, TypeOK, RowsOK
    <2> QED
      BY <2>1, <2>3, <2>4, RowsStay DEF IInv
  <1> QED
    BY <1>1, <1>2

\* A solution that the table has forgotten cannot be recorded in time: its row
\* is followed by more work than the handler may overlap with.
LEMMA Unseen ==
    ASSUME IInv, NEW m \in Busy, hand[m] \notin Stored, InTime(hand[m])
    PROVE  \A r \in history : r.hash # hand[m]
  <1> SUFFICES ASSUME NEW r \in history, r.hash = hand[m]
               PROVE  FALSE
    OBVIOUS
  <1>1. r \notin shares
    BY DEF Stored
  <1>2. WorkIn(After(history, r.id)) >= Retention
    BY <1>1 DEF IInv, PruneOK
  <1>3. After(history, r.id) \subseteq Overlapping
    <2> SUFFICES ASSUME NEW s \in history, s.id > r.id
                 PROVE  s.parent >= ParentOf[hand[m]]
      BY DEF After, Overlapping
    <2>1. r.id < s.id /\ r \in Row /\ s \in Row
      BY DEF IInv, TypeOK, Row
    <2>2. r.parent <= s.parent /\ ParentOf[r.hash] <= r.parent
      BY <2>1 DEF IInv, RowsOK
    <2>3. r.parent \in Nat /\ s.parent \in Nat /\ ParentOf[r.hash] \in Nat
      BY <2>1, SharesAssumption DEF Row
    <2> QED
      BY <2>2, <2>3
  <1>4. Overlapping \subseteq history /\ history \in SUBSET Row /\ IsFiniteSet(history)
    BY DEF Overlapping, IInv, TypeOK
  <1>5. IsFiniteSet(Overlapping) /\ Overlapping \in SUBSET Row
    BY <1>4, FS_Subset
  <1>6. /\ WorkIn(After(history, r.id)) \in Nat /\ WorkIn(Overlapping) \in Nat
        /\ WorkIn(After(history, r.id)) <= WorkIn(Overlapping)
    BY <1>3, <1>5, WorkMonotone
  <1>7. WorkOf[hand[m]] \in Nat
    BY SharesAssumption DEF IInv, TypeOK
  <1> QED
    BY <1>2, <1>6, <1>7, RetentionType DEF InTime

\* RecordShare: one new row, or none.
LEMMA RecordStep ==
    ASSUME IInv, NEW m \in Miner, RecordShare(m)
    PROVE  IInv'
  <1> DEFINE x == hand[m]
             row == [id |-> nextId, hash |-> x, parent |-> parent]
  <1>1. m \in Busy /\ x \in Hash /\ UNCHANGED <<parent, submits, hand, pruneDue, pruneCut, blocks>>
    BY DEF RecordShare, Busy, IInv, TypeOK
  <1>2. CASE x \in Stored
    <2>1. pc' = [pc EXCEPT ![m] = "idle"] /\ UNCHANGED <<shares, nextId, cutoff, history>>
      BY <1>2 DEF RecordShare
    <2>2. Busy' \subseteq Busy
      BY <2>1 DEF Busy, IInv, TypeOK
    <2>3. TypeOK'
      BY <1>1, <2>1, <2>2 DEF IInv, TypeOK
    <2>4. parent \in Nat /\ \A k \in Busy' : ParentOf[hand'[k]] <= parent'
      BY <1>1, <2>1, <2>2 DEF IInv, TypeOK, RowsOK
    <2> QED
      BY <1>1, <2>1, <2>3, <2>4, RowsStay DEF IInv
  <1>3. CASE x \notin Stored
    <2>1. /\ InTime(x)
          /\ shares' = shares \cup {row} /\ history' = history \cup {row}
          /\ nextId' = nextId + 1 /\ cutoff' = [cutoff EXCEPT ![m] = nextId]
          /\ pc' = [pc EXCEPT ![m] = IF x \in BlockHash THEN "allocate" ELSE "idle"]
      BY <1>3 DEF RecordShare
    <2>2. row \in Row /\ row.id = nextId /\ row.hash = x /\ row.parent = parent
      BY <1>1 DEF Row, IInv, TypeOK
    <2> HIDE DEF row
    <2>3. Busy' \subseteq Busy
      BY <1>1, <2>1 DEF Busy, IInv, TypeOK
    <2>4. TypeOK'
      <3>1. history' \subseteq Row /\ shares' \subseteq history'
        BY <2>1, <2>2 DEF IInv, TypeOK
      <3>2. IsFiniteSet(history')
        BY <2>1, FS_AddElement DEF IInv, TypeOK
      <3> QED
        BY <1>1, <2>1, <2>3, <3>1, <3>2 DEF IInv, TypeOK
    <2>5. RowsOK'
      <3>1. \A r \in history : /\ r.id \in Nat /\ r.parent \in Nat /\ r.id < nextId
                               /\ r.parent <= parent /\ ParentOf[r.hash] <= r.parent
        BY DEF IInv, TypeOK, Row, RowsOK
      <3>2. nextId \in Nat /\ parent \in Nat /\ ParentOf[x] <= parent
        BY <1>1 DEF IInv, TypeOK, RowsOK
      <3>3. \A r \in history' : /\ r.id < nextId' /\ r.parent <= parent'
                                /\ ParentOf[r.hash] <= r.parent
        BY <1>1, <2>1, <2>2, <3>1, <3>2
      <3>4. ASSUME NEW r \in history', NEW s \in history', r.id < s.id
            PROVE  r.parent <= s.parent
        <4>1. CASE r \in history /\ s \in history
          BY <3>4, <4>1 DEF IInv, RowsOK
        <4>2. CASE s = row
          BY <1>1, <2>2, <3>3, <4>2
        <4>3. CASE r = row /\ s \in history
          BY <2>2, <3>1, <3>2, <3>4, <4>3
        <4> QED
          BY <2>1, <4>1, <4>2, <4>3
      <3>5. \A k \in Busy' : ParentOf[hand'[k]] <= parent'
        BY <1>1, <2>3 DEF IInv, RowsOK
      <3> QED
        BY <3>3, <3>4, <3>5 DEF RowsOK
    <2>6. PruneOK'
      <3>1. IsFiniteSet(history') /\ history' \in SUBSET Row /\ shares' \subseteq history'
        BY <2>4 DEF TypeOK
      <3>2. IsFiniteSet(shares')
        BY <3>1, FS_Subset
      <3>3. ASSUME pruneCut' # 0
            PROVE  WorkIn(From(shares', pruneCut')) >= Retention
        <4>1. From(shares, pruneCut) \subseteq From(shares', pruneCut)
          BY <2>1 DEF From
        <4>2. From(shares', pruneCut) \in SUBSET Row /\ IsFiniteSet(From(shares', pruneCut))
          BY <3>1, <3>2, FS_Subset DEF From
        <4>3. WorkIn(From(shares, pruneCut)) >= Retention
          BY <1>1, <3>3 DEF IInv, PruneOK
        <4> QED
          BY <1>1, <4>1, <4>2, <4>3, WorkMonotone, RetentionType
      <3>4. ASSUME NEW r \in history' \ shares'
            PROVE  WorkIn(After(history', r.id)) >= Retention
        <4>1. r \in history \ shares
          BY <2>1, <3>4
        <4>2. After(history, r.id) \subseteq After(history', r.id)
          BY <2>1 DEF After
        <4>3. After(history', r.id) \in SUBSET Row /\ IsFiniteSet(After(history', r.id))
          BY <3>1, FS_Subset DEF After
        <4>4. WorkIn(After(history, r.id)) >= Retention
          BY <4>1 DEF IInv, PruneOK
        <4> QED
          BY <4>2, <4>3, <4>4, WorkMonotone, RetentionType
      <3> QED
        BY <3>3, <3>4 DEF PruneOK, WorkIn, From, After
    <2>7. CreditedOnce'
      <3>1. \A r \in history : r.hash # x
        BY <1>1, <1>3, <2>1, Unseen
      <3> QED
        BY <2>1, <2>2, <3>1 DEF IInv, CreditedOnce
    <2>8. RetainsEnough'
      <3>1. shares' \in SUBSET Row /\ IsFiniteSet(shares')
        BY <2>4, FS_Subset DEF TypeOK
      <3>2. WorkIn(shares) <= WorkIn(shares') /\ WorkIn(shares) \in Nat /\ WorkIn(shares') \in Nat
        BY <2>1, <3>1, WorkMonotone
      <3>3. WorkIn(shares)' = WorkIn(shares')
        BY DEF WorkIn
      <3> QED
        BY <2>1, <3>2, <3>3, RetentionType DEF IInv, RetainsEnough
    <2> QED
      BY <2>4, <2>5, <2>6, <2>7, <2>8 DEF IInv
  <1> QED
    BY <1>2, <1>3

\* The steps of templateLoop.
LEMMA LoopStep ==
    ASSUME IInv, NewParent \/ PruneScan \/ PruneDelete \/ PruneFails
    PROVE  IInv'
  <1>1. CASE NewParent
    <2>1. TypeOK' /\ Busy' = Busy /\ hand' = hand /\ parent \in Nat /\ parent' = parent + 1
      BY <1>1, SharesAssumption DEF NewParent, IInv, TypeOK, Busy
    <2>2. \A k \in Busy' : ParentOf[hand'[k]] <= parent'
      <3>1. \A k \in Busy : ParentOf[hand[k]] \in Nat /\ ParentOf[hand[k]] <= parent
        BY SharesAssumption DEF IInv, TypeOK, RowsOK
      <3> QED
        BY <2>1, <3>1
    <2> QED
      BY <1>1, <2>1, <2>2, RowsStay DEF NewParent, IInv
  <1>2. CASE PruneFails
    <2>1. TypeOK' /\ Busy' = Busy /\ hand' = hand /\ parent \in Nat /\ parent' = parent
      <3>1. /\ pruneCut' = 0 /\ pruneDue' = FALSE
            /\ UNCHANGED <<parent, shares, nextId, submits, pc, hand, cutoff, blocks, history>>
        BY <1>2 DEF PruneFails
      <3>2. parent \in Nat /\ Busy' = Busy
        BY <3>1, SharesAssumption DEF IInv, TypeOK, Busy
      <3> QED
        BY <3>1, <3>2 DEF IInv, TypeOK
    <2>2. \A k \in Busy' : ParentOf[hand'[k]] <= parent'
      BY <2>1 DEF IInv, RowsOK
    <2> QED
      BY <1>2, <2>1, <2>2, RowsStay DEF PruneFails, IInv
  <1>3. CASE PruneScan
    <2>1. /\ \/ pruneCut' = pruneCut
             \/ pruneCut' \in Nat /\ WorkIn(From(shares, pruneCut')) >= Retention
          /\ pruneDue' \in BOOLEAN
          /\ UNCHANGED <<parent, shares, nextId, submits, pc, hand, cutoff, blocks, history>>
      <3>1. \A cut \in Cutoffs : cut \in Nat /\ WorkIn(From(shares, cut)) >= Retention
        BY DEF Cutoffs, IInv, TypeOK, Row
      <3>2. pruneDue \in BOOLEAN
        BY DEF IInv, TypeOK
      <3> QED
        BY <1>3, <3>1, <3>2, Zenon DEF PruneScan
    <2>2. TypeOK' /\ Busy' = Busy
      BY <2>1 DEF IInv, TypeOK, Busy
    <2>3. PruneOK'
      BY <2>1 DEF IInv, PruneOK, WorkIn, From, After
    <2>4. RowsOK' /\ CreditedOnce' /\ RetainsEnough'
      BY <2>1, <2>2 DEF IInv, RowsOK, CreditedOnce, RetainsEnough, WorkIn
    <2> QED
      BY <2>2, <2>3, <2>4 DEF IInv
  <1>4. CASE PruneDelete
    <2>1. /\ pruneCut # 0 /\ shares' = From(shares, pruneCut)
          /\ pruneCut' = 0 /\ pruneDue' = FALSE
          /\ UNCHANGED <<parent, nextId, submits, pc, hand, cutoff, blocks, history>>
      BY <1>4 DEF PruneDelete
    <2>2. TypeOK' /\ Busy' = Busy
      BY <2>1 DEF IInv, TypeOK, Busy, From
    <2>3. WorkIn(From(shares, pruneCut)) >= Retention
      BY <2>1 DEF IInv, PruneOK
    <2>4. PruneOK'
      <3>1. ASSUME NEW r \in history \ From(shares, pruneCut)
            PROVE  WorkIn(After(history, r.id)) >= Retention
        <4>1. CASE r \notin shares
          BY <3>1, <4>1 DEF IInv, PruneOK
        <4>2. CASE r \in shares
          <5>1. r.id < pruneCut /\ r.id \in Nat /\ pruneCut \in Nat
            BY <3>1, <4>2 DEF From, IInv, TypeOK, Row
          <5>2. From(shares, pruneCut) \subseteq After(history, r.id)
            BY <5>1 DEF From, After, IInv, TypeOK, Row
          <5>3. After(history, r.id) \in SUBSET Row /\ IsFiniteSet(After(history, r.id))
            BY FS_Subset DEF After, IInv, TypeOK
          <5> QED
            BY <2>3, <5>2, <5>3, WorkMonotone, RetentionType
        <4> QED
          BY <4>1, <4>2
      <3> QED
        BY <2>1, <3>1 DEF PruneOK, WorkIn, After
    <2>5. RowsOK' /\ CreditedOnce'
      BY <2>1, <2>2 DEF IInv, RowsOK, CreditedOnce
    <2>6. RetainsEnough'
      BY <2>1, <2>3 DEF RetainsEnough, WorkIn
    <2> QED
      BY <2>2, <2>4, <2>5, <2>6 DEF IInv
  <1> QED
    BY <1>1, <1>2, <1>3, <1>4

\* IInv holds in every reachable state.
THEOREM Invariance == Spec => []IInv
  <1>1. IInv /\ [Next]_vars => IInv'
    <2> SUFFICES ASSUME IInv, [Next]_vars PROVE IInv'
      OBVIOUS
    <2>1. CASE UNCHANGED vars
      BY <2>1 DEF vars, IInv, TypeOK, RowsOK, PruneOK, CreditedOnce, RetainsEnough,
         Busy, WorkIn, From, After
    <2> QED
      BY <2>1, HandlerStep, RecordStep, LoopStep DEF Next
  <1> QED
    BY <1>1, InitIInv, PTL DEF Spec

\* A solution is credited at most once, whatever is resubmitted, forgotten by
\* the duplicate maps, or pruned.
THEOREM NoDoubleCredit == Spec => []CreditedOnce
  BY Invariance, PTL DEF IInv

\* A prune keeps the retained work, whatever is recorded between its scan and
\* its delete.
THEOREM PruneRetains == Spec => []RetainsEnough
  BY Invariance, PTL DEF IInv
-----------------------------------------------------------------------------
(* The frozen allocation.                                                    *)

\* What a prune has taken is older than what is left.
Suffix == \A r \in history \ shares, s \in shares : r.id < s.id

\* A handler that is about to allocate has its winning row in the history, and
\* little enough was recorded since for a prune to have left its window alone.
WinnersOK ==
    \A m \in Miner : pc[m] = "allocate" =>
        /\ \E row \in history : row.id = cutoff[m] /\ row.hash = hand[m]
        /\ WorkIn(After(history, cutoff[m])) <= Retention - WindowWork

\* Every block was won by a row that is in the history.
FoundBlock ==
    [hash : Hash, cutoff : Nat, selected : Nat, amounts : [Address -> Nat]]
BlocksOK ==
    /\ blocks \in Seq(FoundBlock)
    /\ \A i \in DOMAIN blocks : blocks[i].cutoff < nextId

FrozenInv ==
    IsTable(history) /\ Suffix /\ WinnersOK /\ BlocksOK /\ FrozenAtCutoff

LEMMA WindowFits == Retention - WindowWork \in Nat
  <1>1. WindowWork \in Nat /\ RetentionFactor \in Nat /\ RetentionFactor >= 1
    BY SharesAssumption
  <1>2. RetentionFactor * WindowWork = (RetentionFactor - 1) * WindowWork + WindowWork
    BY <1>1
  <1>3. (RetentionFactor - 1) * WindowWork \in Nat
    BY <1>1
  <1> QED
    BY <1>1, <1>2, <1>3 DEF Retention

\* Work of rows that are not the same rows adds up.
LEMMA WorkUnion ==
    ASSUME NEW S, IsTable(S), NEW A \in SUBSET S, NEW B \in SUBSET S, A \cap B = {}
    PROVE  /\ WorkIn(A \cup B) = WorkIn(A) + WorkIn(B)
           /\ WorkIn(A) \in Nat /\ WorkIn(B) \in Nat
  <1> DEFINE f == [row \in S |-> WorkOf[row.hash]]
             fA == [row \in A |-> WorkOf[row.hash]]
             fB == [row \in B |-> WorkOf[row.hash]]
             fU == [row \in A \cup B |-> WorkOf[row.hash]]
  <1>1. IsFiniteSet(A) /\ IsFiniteSet(B)
    BY FS_Subset DEF IsTable
  <1>2. \A row \in A \cup B : f[row] \in Nat
    BY RowType DEF IsTable
  <1>3. /\ \A row \in A : f[row] = fA[row]
        /\ \A row \in B : f[row] = fB[row]
        /\ \A row \in A \cup B : f[row] = fU[row]
    OBVIOUS
  <1> HIDE DEF f, fA, fB, fU
  <1>4. Total(A \cup B, f) = Total(A, f) + Total(B, f)
    BY <1>1, <1>2, TotalUnion
  <1>5. Total(A, f) \in Nat /\ Total(B, f) \in Nat
    BY <1>1, <1>2, TotalType
  <1>6. /\ Total(A, f) = Total(A, fA) /\ Total(B, f) = Total(B, fB)
        /\ Total(A \cup B, f) = Total(A \cup B, fU)
    BY <1>3, TotalSame
  <1> QED
    BY <1>4, <1>5, <1>6 DEF WorkIn, fA, fB, fU

\* The row that won stays within the time its handler has: whatever came after
\* it overlaps with the handler.
LEMMA LaterOverlap ==
    ASSUME IInv, FrozenInv, NEW m \in Miner, pc[m] = "allocate"
    PROVE  /\ cutoff[m] \in Nat /\ cutoff[m] < nextId
           /\ After(history, cutoff[m]) \subseteq Overlapping
  <1>1. PICK w \in history : w.id = cutoff[m] /\ w.hash = hand[m]
    BY DEF FrozenInv, WinnersOK
  <1>2. w.id < nextId /\ ParentOf[w.hash] <= w.parent /\ w.id \in Nat
    BY RowType DEF IInv, RowsOK, TypeOK
  <1>3. ASSUME NEW s \in history, s.id > cutoff[m]
        PROVE  s.parent >= ParentOf[hand[m]]
    <2>1. w.parent <= s.parent
      <3>1. w.id < s.id
        BY <1>1, <1>2, <1>3, RowType DEF IInv, TypeOK
      <3> QED
        BY <1>3, <3>1 DEF IInv, RowsOK
    <2>2. s.parent \in Nat /\ w.parent \in Nat /\ ParentOf[w.hash] \in Nat
      BY <1>3, SharesAssumption DEF IInv, TypeOK, Row
    <2> QED
      BY <1>1, <1>2, <2>1, <2>2
  <1>4. m \in Busy
    BY DEF Busy
  <1> QED
    BY <1>1, <1>2, <1>3, <1>4 DEF After, Overlapping

\* What a prune has taken is beyond the window of a handler at work.
LEMMA GoneCountsNothing ==
    ASSUME IInv, FrozenInv, NEW m \in Miner, pc[m] = "allocate",
           NEW r \in history \ shares, r.id <= cutoff[m]
    PROVE  Counted(UpTo(history, cutoff[m]), r) = 0
  <1> DEFINE c == cutoff[m]
             H == UpTo(history, c)
             A == After(H, r.id)
             B == After(history, c)
  <1>1. c \in Nat /\ IsTable(history) /\ r.id \in Nat
    BY LaterOverlap, RowType DEF FrozenInv, IInv, TypeOK
  <1>2. \A s \in history : s.id \in Nat
    BY RowType DEF IInv, TypeOK
  <1>3. A \in SUBSET history /\ B \in SUBSET history /\ A \cap B = {}
    BY <1>1, <1>2 DEF UpTo, After
  <1>4. After(history, r.id) = A \cup B
    BY <1>1, <1>2 DEF UpTo, After
  <1>5. WorkIn(After(history, r.id)) >= Retention
    BY DEF IInv, PruneOK
  <1>6. WorkIn(B) <= Retention - WindowWork
    BY DEF FrozenInv, WinnersOK
  <1> HIDE DEF A, B, c, H
  <1>7. /\ WorkIn(A \cup B) = WorkIn(A) + WorkIn(B)
        /\ WorkIn(A) \in Nat /\ WorkIn(B) \in Nat
    BY <1>1, <1>3, WorkUnion
  <1>8. WindowWork - WorkIn(A) <= 0
    BY <1>4, <1>5, <1>6, <1>7, RetentionType
  <1> QED
    BY <1>8 DEF Counted, A, H, c

\* The window that AllocateBlock reads from the table is that of the whole
\* history up to the winning share.
LEMMA FrozenIs ==
    ASSUME IInv, FrozenInv, NEW m \in Miner, pc[m] = "allocate"
    PROVE  /\ IsTable(UpTo(history, cutoff[m]))
           /\ FrozenWindow(cutoff[m]) = Ideal(UpTo(history, cutoff[m]))
  <1> DEFINE c == cutoff[m]
             H == UpTo(history, c)
             S == UpTo(shares, c)
             fH == [row \in H |-> Counted(H, row)]
             fS == [row \in S |-> Counted(S, row)]
  <1>1. H \in SUBSET history /\ S \in SUBSET H /\ IsTable(history)
    BY DEF UpTo, FrozenInv, IInv, TypeOK
  <1>2. IsTable(H) /\ IsTable(S)
    BY <1>1, TablePart
  <1>3. \A row \in S : After(H, row.id) = After(S, row.id)
    <2> SUFFICES ASSUME NEW row \in S, NEW s \in H, s.id > row.id, s \notin S
                 PROVE  FALSE
      BY <1>1 DEF After
    <2>1. s \in history \ shares /\ row \in shares
      BY DEF UpTo
    <2>2. s.id < row.id
      BY <2>1 DEF FrozenInv, Suffix
    <2>3. s.id \in Nat /\ row.id \in Nat
      BY <1>1, <1>2, RowType DEF IsTable
    <2> QED
      BY <2>2, <2>3
  <1>4. \A row \in S : fH[row] = fS[row]
    BY <1>1, <1>3 DEF Counted
  <1>5. \A row \in H \ S : fH[row] = 0
    <2> SUFFICES ASSUME NEW row \in H \ S PROVE Counted(H, row) = 0
      OBVIOUS
    <2>1. row \in history \ shares /\ row.id <= cutoff[m]
      BY DEF UpTo
    <2> QED
      BY <2>1, GoneCountsNothing
  <1>6. ASSUME NEW a \in Address
        PROVE  IdealWork(H)[a] = IdealWork(S)[a]
    <2>1. /\ IdealWork(H)[a] = Total(Rows(H, a), fH)
          /\ IdealWork(S)[a] = Total(Rows(S, a), fS)
      BY DEF IdealWork, Rows
    <2> HIDE DEF fH, fS, H, S
    <2>2. Rows(S, a) \in SUBSET Rows(H, a)
      BY <1>1 DEF Rows
    <2>3. \A row \in Rows(H, a) \ Rows(S, a) : fH[row] = 0
      BY <1>5 DEF Rows
    <2>4. Total(Rows(H, a), fH) = Total(Rows(S, a), fH)
      BY <2>2, <2>3, TotalNonZero
    <2>5. \A row \in Rows(S, a) : fH[row] = fS[row]
      BY <1>4 DEF Rows
    <2>6. Total(Rows(S, a), fH) = Total(Rows(S, a), fS)
      BY <2>5, TotalSame
    <2> QED
      BY <2>1, <2>4, <2>6
  <1>7. IdealWork(H) = IdealWork(S)
    <2>1. /\ IdealWork(H) = [a \in Address |-> IdealWork(H)[a]]
          /\ IdealWork(S) = [a \in Address |-> IdealWork(S)[a]]
      BY DEF IdealWork
    <2> HIDE DEF H, S
    <2> QED
      BY <1>6, <2>1
  <1>8. Window(S, Credits(S), WindowWork) = Ideal(S)
    BY <1>2, WindowIs
  <1> QED
    BY <1>2, <1>7, <1>8 DEF FrozenWindow, Ideal

LEMMA InitFrozen == Init => FrozenInv
  <1> SUFFICES ASSUME Init PROVE FrozenInv
    OBVIOUS
  <1>1. IsTable(history)
    BY FS_EmptySet DEF Init, IsTable
  <1>2. Suffix /\ WinnersOK
    BY DEF Init, Suffix, WinnersOK
  <1>3. BlocksOK /\ FrozenAtCutoff
    BY DEF Init, BlocksOK, FrozenAtCutoff
  <1> QED
    BY <1>1, <1>2, <1>3 DEF FrozenInv

\* Steps that record nothing and find nothing.
LEMMA FrozenStays ==
    ASSUME FrozenInv, UNCHANGED <<history, nextId, blocks>>, Suffix',
           \A m \in Miner : pc'[m] = "allocate" =>
               pc[m] = "allocate" /\ cutoff'[m] = cutoff[m] /\ hand'[m] = hand[m]
    PROVE  FrozenInv'
  <1>1. IsTable(history)' /\ BlocksOK'
    BY DEF FrozenInv, IsTable, BlocksOK
  <1>2. WinnersOK'
    BY DEF FrozenInv, WinnersOK, WorkIn, After
  <1>3. FrozenAtCutoff'
    BY DEF FrozenInv, FrozenAtCutoff, IdealWork, UpTo, Counted, WorkIn, After
  <1> QED
    BY <1>1, <1>2, <1>3 DEF FrozenInv

LEMMA BlockType ==
    ASSUME FrozenInv, NEW i \in DOMAIN blocks
    PROVE  blocks[i].cutoff \in Nat /\ blocks[i].cutoff < nextId
  <1>1. blocks \in Seq(FoundBlock)
    BY DEF FrozenInv, BlocksOK
  <1>2. blocks[i] \in FoundBlock
    BY <1>1
  <1> QED
    BY <1>2 DEF FoundBlock, FrozenInv, BlocksOK

LEMMA SuffixStays ==
    ASSUME FrozenInv, UNCHANGED <<history, shares>>
    PROVE  Suffix'
  BY DEF FrozenInv, Suffix

\* A handler submits, is told that its share is known, or gives up.
LEMMA FrozenHandler ==
    ASSUME IInv, FrozenInv, NEW m \in Miner,
           \/ \E x \in Hash : Submit(m, x)
           \/ RecordFails(m) \/ AllocationFails(m)
           \/ RecordShare(m) /\ hand[m] \in Stored
    PROVE  FrozenInv'
  <1>1. pc \in [Miner -> {"idle", "record", "allocate"}] /\ hand \in [Miner -> Hash \cup {NoHash}]
    BY DEF IInv, TypeOK
  <1>2. ASSUME NEW x \in Hash, Submit(m, x)
        PROVE  FrozenInv'
    <2>1. /\ UNCHANGED <<history, nextId, blocks, shares, cutoff>>
          /\ pc' = [pc EXCEPT ![m] = "record"] /\ hand' = [hand EXCEPT ![m] = x]
      BY <1>2 DEF Submit
    <2>2. \A k \in Miner : pc'[k] = "allocate" =>
              pc[k] = "allocate" /\ cutoff'[k] = cutoff[k] /\ hand'[k] = hand[k]
      BY <1>1, <2>1
    <2> QED
      BY <2>1, <2>2, SuffixStays, FrozenStays
  <1>3. CASE RecordFails(m) \/ AllocationFails(m) \/ (RecordShare(m) /\ hand[m] \in Stored)
    <2>1. /\ UNCHANGED <<history, nextId, blocks, shares, cutoff, hand>>
          /\ pc' = [pc EXCEPT ![m] = "idle"]
      BY <1>3 DEF RecordFails, AllocationFails, RecordShare
    <2>2. \A k \in Miner : pc'[k] = "allocate" =>
              pc[k] = "allocate" /\ cutoff'[k] = cutoff[k] /\ hand'[k] = hand[k]
      BY <1>1, <2>1
    <2> QED
      BY <2>1, <2>2, SuffixStays, FrozenStays
  <1> QED
    BY <1>2, <1>3

\* A new row: later than every winning row, so that no window changes, and in
\* time for every handler at work.
LEMMA FrozenRecord ==
    ASSUME IInv, FrozenInv, IInv', NEW m \in Miner, RecordShare(m), hand[m] \notin Stored
    PROVE  FrozenInv'
  <1> DEFINE x == hand[m]
             row == [id |-> nextId, hash |-> x, parent |-> parent]
  <1>1. /\ InTime(x)
        /\ shares' = shares \cup {row} /\ history' = history \cup {row}
        /\ nextId' = nextId + 1 /\ cutoff' = [cutoff EXCEPT ![m] = nextId]
        /\ pc' = [pc EXCEPT ![m] = IF x \in BlockHash THEN "allocate" ELSE "idle"]
        /\ UNCHANGED <<hand, blocks>> /\ pc[m] = "record"
    BY DEF RecordShare
  <1>2. row.id = nextId /\ row.hash = x /\ nextId \in Nat
    BY DEF IInv, TypeOK
  <1> HIDE DEF row
  <1>3. \A r \in history : r.id \in Nat /\ r.id < nextId
    BY RowType DEF IInv, TypeOK, RowsOK
  <1>4. IsTable(history') /\ row \in history'
    <2>1. history' \subseteq Row /\ IsFiniteSet(history')
      BY DEF IInv, TypeOK
    <2>2. \A r, s \in history' : r.id = s.id => r = s
      BY <1>1, <1>2, <1>3 DEF FrozenInv, IsTable
    <2> QED
      BY <1>1, <2>1, <2>2 DEF IsTable
  <1>5. Suffix'
    <2>1. history' \ shares' \subseteq history \ shares
      BY <1>1
    <2>2. ASSUME NEW r \in history \ shares, NEW s \in shares'
          PROVE  r.id < s.id
      BY <1>1, <1>2, <1>3, <2>2 DEF FrozenInv, Suffix
    <2> QED
      BY <2>1, <2>2 DEF Suffix
  <1>6. WinnersOK'
    <2> SUFFICES ASSUME NEW k \in Miner, pc'[k] = "allocate"
                 PROVE  /\ \E r \in history' : r.id = cutoff'[k] /\ r.hash = hand'[k]
                        /\ WorkIn(After(history', cutoff'[k])) <= Retention - WindowWork
      BY DEF WinnersOK, WorkIn, After
    <2>1. CASE k = m
      <3>1. cutoff'[m] = nextId /\ hand'[m] = x
        BY <1>1 DEF IInv, TypeOK
      <3>2. \A r \in history' : ~(r.id > nextId)
        BY <1>1, <1>2, <1>3
      <3>3. After(history', nextId) = {}
        BY <3>2 DEF After
      <3> QED
        BY <1>2, <1>4, <2>1, <3>1, <3>3, EmptyWork, WindowFits
    <2>2. CASE k # m
      <3>1. pc[k] = "allocate" /\ cutoff'[k] = cutoff[k] /\ hand'[k] = hand[k]
        BY <1>1, <2>2 DEF IInv, TypeOK
      <3>2. cutoff[k] \in Nat /\ cutoff[k] < nextId /\ After(history, cutoff[k]) \subseteq Overlapping
        BY <3>1, LaterOverlap
      <3>3. \E r \in history' : r.id = cutoff[k] /\ r.hash = hand[k]
        BY <1>1, <3>1 DEF FrozenInv, WinnersOK
      <3> DEFINE A == After(history, cutoff[k])
                 B == After(history', cutoff[k])
      <3>4. B = A \cup {row} /\ row \notin A
        BY <1>1, <1>2, <1>3, <3>2 DEF After
      <3>5. IsTable(B) /\ row \in B /\ B \ {row} = A
        BY <1>4, <3>4, TablePart DEF After
      <3> HIDE DEF A, B
      <3>6. WorkIn(B) = WorkIn(A) + WorkOf[x] /\ WorkIn(A) \in Nat
        BY <1>2, <3>5, WorkAdd
      <3>7. WorkIn(A) <= WorkIn(Overlapping) /\ WorkIn(Overlapping) \in Nat
        <4>1. Overlapping \in SUBSET history /\ history \in SUBSET Row /\ IsFiniteSet(history)
          BY DEF Overlapping, IInv, TypeOK
        <4>2. IsFiniteSet(Overlapping) /\ Overlapping \in SUBSET Row
          BY <4>1, FS_Subset
        <4> QED
          BY <3>2, <4>2, WorkMonotone DEF A
      <3>8. WorkOf[x] \in Nat
        <4>1. x \in Hash
          BY <1>1 DEF IInv, TypeOK, Busy
        <4> QED
          BY <4>1, SharesAssumption
      <3> QED
        BY <1>1, <3>1, <3>3, <3>6, <3>7, <3>8, WindowFits, RetentionType DEF InTime, B
    <2> QED
      BY <2>1, <2>2
  <1>7. BlocksOK'
    <2>1. ASSUME NEW i \in DOMAIN blocks PROVE blocks[i].cutoff < nextId'
      BY <1>1, <1>2, BlockType
    <2> QED
      BY <1>1, <2>1 DEF FrozenInv, BlocksOK, FoundBlock
  <1>8. FrozenAtCutoff'
    <2>1. ASSUME NEW i \in DOMAIN blocks
          PROVE  UpTo(history', blocks[i].cutoff) = UpTo(history, blocks[i].cutoff)
      <3>1. blocks[i].cutoff \in Nat /\ blocks[i].cutoff < nextId
        BY BlockType
      <3> QED
        BY <1>1, <1>2, <3>1 DEF UpTo
    <2> QED
      BY <1>1, <2>1 DEF FrozenInv, FrozenAtCutoff, IdealWork, UpTo, Counted, WorkIn, After
  <1> QED
    BY <1>4, <1>5, <1>6, <1>7, <1>8 DEF FrozenInv, IsTable

\* A block: its window is that of the history, and the division loses nothing.
LEMMA FrozenAllocate ==
    ASSUME IInv, FrozenInv, NEW m \in Miner, AllocateBlock(m)
    PROVE  FrozenInv'
  <1> DEFINE c == cutoff[m]
             H == UpTo(history, c)
             work == IdealWork(H)
             block == [hash |-> hand[m], cutoff |-> c, selected |-> Selected(work),
                       amounts |-> Allocations(Reward, work)]
  <1>1. /\ pc[m] = "allocate" /\ pc' = [pc EXCEPT ![m] = "idle"]
        /\ UNCHANGED <<parent, shares, nextId, submits, hand, cutoff, pruneDue, pruneCut, history>>
    BY DEF AllocateBlock
  <1>2. IsTable(H) /\ FrozenWindow(c) = Ideal(H)
    BY <1>1, FrozenIs
  <1>3. \/ blocks' = blocks
        \/ Selected(work) # 0 /\ blocks' = Append(blocks, block)
    <2> DEFINE window == FrozenWindow(cutoff[m])
    <2>1. window.selected = Selected(work) /\ window.work = work
      BY <1>2 DEF Ideal
    <2>2. \/ blocks' = blocks
          \/ /\ window.selected # 0
             /\ blocks' = Append(blocks, [hash |-> hand[m], cutoff |-> cutoff[m],
                                         selected |-> window.selected,
                                         amounts |-> Allocations(Reward, window.work)])
      BY DEF AllocateBlock
    <2> HIDE DEF window, work
    <2> QED
      BY <2>1, <2>2
  <1>4. \A k \in Miner : pc'[k] = "allocate" =>
            pc[k] = "allocate" /\ cutoff'[k] = cutoff[k] /\ hand'[k] = hand[k]
    BY <1>1 DEF IInv, TypeOK
  <1>5. CASE blocks' = blocks
    BY <1>1, <1>4, <1>5, SuffixStays, FrozenStays
  <1>6. CASE Selected(work) # 0 /\ blocks' = Append(blocks, block)
    <2>1. work \in [Address -> Nat] /\ Selected(work) \in Nat
      BY <1>2, IdealType
    <2>2. c \in Nat /\ c < nextId
      BY <1>1, LaterOverlap
    <2>3. hand[m] \in Hash
      BY <1>1 DEF IInv, TypeOK, Busy
    <2> HIDE DEF c, H, work
    <2>4. Selected(work) > 0
      BY <1>6, <2>1
    <2>5. Total(Address, Allocations(Reward, work)) = Distributable(Reward)
      BY <2>1, <2>4, SharesAssumption, DivisionSums DEF SumsExactly
    <2>6. Allocations(Reward, work) \in [Address -> Nat]
      <3>1. Distributable(Reward) \in Nat
        BY SharesAssumption, DistributableType
      <3>2. \A a \in Address : Amount(Distributable(Reward), work, a) \in Nat
        BY <2>1, <2>4, <3>1, WithinOne
      <3> QED
        BY <3>2 DEF Allocations
    <2>7. block \in FoundBlock
      BY <2>1, <2>2, <2>3, <2>6 DEF FoundBlock
    <2>8. /\ block.cutoff = c /\ block.selected = Selected(work)
          /\ block.amounts = Allocations(Reward, work)
      OBVIOUS
    <2> HIDE DEF block
    <2>9. blocks \in Seq(FoundBlock)
      BY DEF FrozenInv, BlocksOK
    <2>10. /\ blocks' \in Seq(FoundBlock)
           /\ \A i \in DOMAIN blocks' : \/ i \in DOMAIN blocks /\ blocks'[i] = blocks[i]
                                        \/ blocks'[i] = block
      BY <1>6, <2>7, <2>9
    <2>11. BlocksOK'
      BY <1>1, <2>2, <2>8, <2>10 DEF FrozenInv, BlocksOK, FoundBlock
    <2>12. FrozenAtCutoff'
      <3> SUFFICES ASSUME NEW i \in DOMAIN blocks'
                   PROVE  LET w == IdealWork(UpTo(history, blocks'[i].cutoff))
                          IN /\ blocks'[i].selected = Selected(w)
                             /\ blocks'[i].amounts = Allocations(Reward, w)
                             /\ Total(Address, blocks'[i].amounts) = Distributable(Reward)
        BY <1>1 DEF FrozenAtCutoff, IdealWork, UpTo, Counted, WorkIn, After
      <3>1. CASE i \in DOMAIN blocks /\ blocks'[i] = blocks[i]
        BY <3>1 DEF FrozenInv, FrozenAtCutoff
      <3>2. CASE blocks'[i] = block
        BY <2>5, <2>8, <3>2 DEF work, H
      <3> QED
        BY <2>10, <3>1, <3>2
    <2>13. IsTable(history)' /\ WinnersOK' /\ Suffix'
      BY <1>1, <1>4 DEF FrozenInv, IsTable, WinnersOK, Suffix, WorkIn, After
    <2> QED
      BY <2>11, <2>12, <2>13 DEF FrozenInv
  <1> QED
    BY <1>3, <1>5, <1>6

\* The steps of templateLoop: a prune takes the oldest rows.
LEMMA FrozenLoop ==
    ASSUME IInv, FrozenInv, NewParent \/ PruneScan \/ PruneDelete \/ PruneFails
    PROVE  FrozenInv'
  <1>1. UNCHANGED <<history, nextId, blocks, pc, cutoff, hand>>
    BY DEF NewParent, PruneScan, PruneDelete, PruneFails
  <1>2. CASE UNCHANGED shares
    BY <1>1, <1>2, SuffixStays, FrozenStays
  <1>3. CASE PruneDelete
    <2>1. shares' = From(shares, pruneCut)
      BY <1>3 DEF PruneDelete
    <2>2. ASSUME NEW r \in history \ shares', NEW s \in shares'
          PROVE  r.id < s.id
      <3>1. s \in shares /\ s.id >= pruneCut /\ pruneCut \in Nat
        BY <2>1 DEF From, IInv, TypeOK
      <3>2. r.id \in Nat /\ s.id \in Nat
        BY <3>1, RowType DEF IInv, TypeOK
      <3>3. CASE r \in shares
        BY <2>1, <3>1, <3>2, <3>3 DEF From
      <3>4. CASE r \notin shares
        BY <3>1, <3>4 DEF FrozenInv, Suffix
      <3> QED
        BY <3>3, <3>4
    <2> QED
      BY <1>1, <2>2, FrozenStays DEF Suffix
  <1> QED
    BY <1>2, <1>3 DEF NewParent, PruneScan, PruneFails

LEMMA FrozenStep == IInv /\ FrozenInv /\ IInv' /\ [Next]_vars => FrozenInv'
  <1> SUFFICES ASSUME IInv, FrozenInv, IInv', [Next]_vars PROVE FrozenInv'
    OBVIOUS
  <1>1. CASE UNCHANGED vars
    BY <1>1, SuffixStays, FrozenStays DEF vars
  <1>2. ASSUME NEW m \in Miner, RecordShare(m) PROVE FrozenInv'
    BY <1>2, FrozenHandler, FrozenRecord
  <1> QED
    BY <1>1, <1>2, FrozenHandler, FrozenAllocate, FrozenLoop DEF Next

\* The allocation of a block is the division by the full history up to its
\* winning share: no later share enters it, and no prune between RecordShare
\* and AllocateBlock takes anything from it, for any miners, shares, windows,
\* prunes and interleavings of the handlers.
THEOREM FrozenForGood == Spec => []FrozenAtCutoff
  <1>1. Spec => []FrozenInv
    <2>1. Init /\ IInv => FrozenInv
      BY InitFrozen
    <2> QED
      BY <2>1, FrozenStep, InitFrozen, Invariance, PTL DEF Spec
  <1>2. FrozenInv => FrozenAtCutoff
    BY DEF FrozenInv
  <1> QED
    BY <1>1, <1>2, PTL
-----------------------------------------------------------------------------
(* The Merkle root, as the term it is computed from.                         *)

\* The fold over a branch: the root from the leaf on, with the subtrees whose
\* positions are in the set.
IsRoot(S, tx, branch, g) ==
    g = [s \in SUBSET S |->
            IF s = {} THEN TransactionLeaf(tx)
            ELSE MerklePair(branch[Max(s)], g[s \ {Max(s)}])]

\* The last of finitely many positions.
LEMMA MaxIs ==
    ASSUME NEW n \in Nat, NEW s \in SUBSET (1..n), s # {}
    PROVE  Max(s) \in s /\ \A i \in s : i <= Max(s)
  <1> DEFINE I == {n - i : i \in s}
  <1>1. I \subseteq Nat /\ I # {}
    <2>1. \A i \in s : n - i \in Nat
      OBVIOUS
    <2> QED
      BY <2>1
  <1> HIDE DEF I
  <1>2. PICK k \in I : \A j \in I : k <= j
    BY <1>1, LeastNatural
  <1>3. PICK m \in s : k = n - m
    BY <1>2 DEF I
  <1>4. \A i \in s : m >= i
    <2> SUFFICES ASSUME NEW i \in s PROVE m >= i
      OBVIOUS
    <2>1. k <= n - i
      BY <1>2 DEF I
    <2> QED
      BY <1>3, <2>1
  <1>5. \E x \in s : \A y \in s : x >= y
    BY <1>3, <1>4
  <1>6. Max(s) \in s /\ \A y \in s : Max(s) >= y
    BY <1>5 DEF Max
  <1> QED
    BY <1>6

\* The fold exists: one more position at the end asks for one more pair.
LEMMA RootExists ==
    ASSUME NEW n \in Nat, NEW tx, NEW branch
    PROVE  \E g : IsRoot(1..n, tx, branch, g)
  <1> DEFINE S == 1..n
             Good == {T \in SUBSET S : \E g : IsRoot(T, tx, branch, g)}
  <1>1. {} \in Good
    <2> DEFINE g == [s \in SUBSET {} |-> TransactionLeaf(tx)]
    <2>1. \A s \in SUBSET {} : s = {}
      OBVIOUS
    <2>2. IsRoot({}, tx, branch, g)
      BY <2>1 DEF IsRoot
    <2> QED
      BY <2>2
  <1>2. ASSUME NEW T \in SUBSET S, T # {}
        PROVE  \E x \in T : T \ {x} \in Good => T \in Good
    <2> DEFINE x == Max(T)
               U == T \ {x}
    <2>1. x \in T /\ \A i \in T : i <= x
      BY <1>2, MaxIs
    <2>2. ASSUME NEW g, IsRoot(U, tx, branch, g)
          PROVE  \E h : IsRoot(T, tx, branch, h)
      <3> DEFINE step(f, s) ==
                    IF s = {} THEN TransactionLeaf(tx)
                    ELSE MerklePair(branch[Max(s)], f[s \ {Max(s)}])
                 h == [s \in SUBSET T |->
                          IF x \in s THEN MerklePair(branch[x], g[s \ {x}]) ELSE g[s]]
      <3>1. \A s \in SUBSET U : g[s] = step(g, s)
        BY <2>2 DEF IsRoot
      <3>2. ASSUME NEW s \in SUBSET T, x \in s
            PROVE  h[s] = step(h, s)
        <4>1. Max(s) = x
          <5>1. s \in SUBSET S /\ s # {}
            BY <3>2
          <5>2. Max(s) \in s /\ \A i \in s : i <= Max(s)
            BY <5>1, MaxIs
          <5>3. Max(s) <= x /\ x <= Max(s) /\ Max(s) \in Nat /\ x \in Nat
            <6>1. x \in s /\ Max(s) \in T /\ T \subseteq 1..n
              BY <3>2, <5>2
            <6>2. Max(s) <= x /\ x <= Max(s)
              BY <2>1, <5>2, <6>1
            <6>3. x \in T
              BY <2>1
            <6>4. \A i \in T : i \in Nat
              BY <6>1
            <6>5. Max(s) \in Nat /\ x \in Nat
              BY <6>1, <6>3, <6>4
            <6> QED
              BY <6>2, <6>5
          <5> HIDE DEF x
          <5> QED
            BY <5>3
        <4>2. s \ {x} \in SUBSET T /\ x \notin s \ {x}
          BY <3>2
        <4> HIDE DEF x
        <4>3. h[s \ {x}] = g[s \ {x}] /\ h[s] = MerklePair(branch[x], g[s \ {x}])
          BY <3>2, <4>2
        <4> QED
          BY <3>2, <4>1, <4>3
      <3>3. ASSUME NEW s \in SUBSET T, x \notin s
            PROVE  h[s] = step(h, s)
        <4>1. s \in SUBSET U /\ h[s] = g[s]
          BY <3>3
        <4>2. CASE s = {}
          BY <3>1, <4>1, <4>2
        <4>3. CASE s # {}
          <5>1. s \ {Max(s)} \in SUBSET T /\ x \notin s \ {Max(s)}
            BY <3>3
          <5>2. h[s \ {Max(s)}] = g[s \ {Max(s)}]
            BY <5>1
          <5> QED
            BY <3>1, <4>1, <4>3, <5>2
        <4> QED
          BY <4>2, <4>3
      <3>4. h = [s \in SUBSET T |-> h[s]]
        OBVIOUS
      <3>5. \A s \in SUBSET T : h[s] = step(h, s)
        BY <3>2, <3>3
      <3> HIDE DEF h
      <3>6. IsRoot(T, tx, branch, h)
        BY <3>4, <3>5 DEF IsRoot
      <3> QED
        BY <3>6
    <2> HIDE DEF x
    <2> QED
      BY <2>1, <2>2
  <1>3. S \in Good
    <2>1. IsFiniteSet(S)
      BY FS_Interval
    <2> HIDE DEF Good, S
    <2> QED
      BY <1>1, <1>2, <2>1, SetRemoval
  <1> QED
    BY <1>3

\* What Root is: the fold at all positions, which pairs the last subtree with
\* the root of those before.
LEMMA RootIs ==
    ASSUME NEW A, NEW branch \in Seq(A), NEW tx
    PROVE  \E g : /\ Root(tx, branch) = g[1..Len(branch)]
                  /\ g[{}] = TransactionLeaf(tx)
                  /\ \A k \in 1..Len(branch) :
                        g[1..k] = MerklePair(branch[k], g[1..(k - 1)])
  <1> DEFINE n == Len(branch)
             loop == CHOOSE g :
                g = [s \in SUBSET (1..n) |->
                        IF s = {} THEN TransactionLeaf(tx)
                        ELSE MerklePair(branch[Max(s)], g[s \ {Max(s)}])]
  <1>1. n \in Nat /\ DOMAIN branch = 1..n
    OBVIOUS
  <1>2. Root(tx, branch) = loop[1..n]
    BY <1>1 DEF Root, FoldLeft, MapThenFoldSet
  <1>3. loop = CHOOSE g : IsRoot(1..n, tx, branch, g)
    BY DEF IsRoot
  <1> HIDE DEF loop, n
  <1>4. IsRoot(1..n, tx, branch, loop)
    BY <1>1, <1>3, RootExists
  <1>5. loop[{}] = TransactionLeaf(tx)
    BY <1>4 DEF IsRoot
  <1>6. ASSUME NEW k \in 1..n
        PROVE  loop[1..k] = MerklePair(branch[k], loop[1..(k - 1)])
    <2>1. 1..k \in SUBSET (1..n) /\ k \in 1..k
      BY <1>1
    <2>2. Max(1..k) = k
      <3>1. Max(1..k) \in 1..k /\ k <= Max(1..k)
        BY <1>1, <2>1, MaxIs
      <3> QED
        BY <1>1, <3>1
    <2>3. (1..k) \ {k} = 1..(k - 1)
      BY <1>1
    <2>4. loop[1..k] = MerklePair(branch[Max(1..k)], loop[(1..k) \ {Max(1..k)}])
      BY <1>4, <2>1 DEF IsRoot
    <2> QED
      BY <2>2, <2>3, <2>4
  <1> QED
    BY <1>2, <1>5, <1>6 DEF n

\* The root tells the transaction and the branch it was computed from.
LEMMA RootInjective ==
    ASSUME NEW A, NEW b1 \in Seq(A), NEW b2 \in Seq(A), NEW tx1, NEW tx2,
           Root(tx1, b1) = Root(tx2, b2)
    PROVE  tx1 = tx2 /\ b1 = b2
  <1>1. PICK g : /\ Root(tx1, b1) = g[1..Len(b1)]
                 /\ g[{}] = TransactionLeaf(tx1)
                 /\ \A k \in 1..Len(b1) : g[1..k] = MerklePair(b1[k], g[1..(k - 1)])
    BY RootIs
  <1>2. PICK h : /\ Root(tx2, b2) = h[1..Len(b2)]
                 /\ h[{}] = TransactionLeaf(tx2)
                 /\ \A k \in 1..Len(b2) : h[1..k] = MerklePair(b2[k], h[1..(k - 1)])
    BY RootIs
  <1> DEFINE m == Len(b1)
             n == Len(b2)
             Same(j, k) == j = k /\ tx1 = tx2 /\ \A i \in 1..j : b1[i] = b2[i]
             Bad == {j \in 0..m : \E k \in 0..n : g[1..j] = h[1..k] /\ ~Same(j, k)}
  <1>3. m \in Nat /\ n \in Nat
    OBVIOUS
  <1>4. Bad = {}
    <2> SUFFICES ASSUME Bad # {} PROVE FALSE
      OBVIOUS
    <2>1. Bad \subseteq Nat
      BY <1>3
    <2> HIDE DEF Bad
    <2>2. PICK j \in Bad : \A i \in Bad : j <= i
      BY <2>1, LeastNatural
    <2>3. PICK k \in 0..n : g[1..j] = h[1..k] /\ ~Same(j, k)
      BY <2>2 DEF Bad
    <2>4. j \in 0..m
      BY <2>2 DEF Bad
    <2>5. 1..0 = {}
      OBVIOUS
    <2> HIDE DEF Same
    <2>6. CASE j = 0 /\ k = 0
      <3>1. <<0, tx1>> = <<0, tx2>>
        BY <1>1, <1>2, <2>3, <2>5, <2>6 DEF TransactionLeaf
      <3>2. tx1 = tx2
        BY <3>1
      <3> QED
        BY <2>3, <2>5, <2>6, <3>2 DEF Same
    <2>7. CASE j = 0 /\ k > 0
      <3>1. <<0, tx1>> = <<1, b2[k], h[1..(k - 1)]>>
        BY <1>1, <1>2, <2>3, <2>5, <2>7 DEF TransactionLeaf, MerklePair
      <3> QED
        BY <3>1
    <2>8. CASE j > 0 /\ k = 0
      <3>1. <<1, b1[j], g[1..(j - 1)]>> = <<0, tx2>>
        BY <1>1, <1>2, <2>3, <2>4, <2>5, <2>8 DEF TransactionLeaf, MerklePair
      <3> QED
        BY <3>1
    <2>9. CASE j > 0 /\ k > 0
      <3>1. <<1, b1[j], g[1..(j - 1)]>> = <<1, b2[k], h[1..(k - 1)]>>
        BY <1>1, <1>2, <1>3, <2>3, <2>4, <2>9 DEF MerklePair
      <3>2. b1[j] = b2[k] /\ g[1..(j - 1)] = h[1..(k - 1)]
        BY <3>1
      <3>3. j - 1 \in 0..m /\ k - 1 \in 0..n /\ j - 1 \notin Bad
        BY <1>3, <2>1, <2>2, <2>3, <2>4, <2>9
      <3>4. Same(j - 1, k - 1)
        BY <3>2, <3>3 DEF Bad
      <3>5. j = k /\ tx1 = tx2 /\ \A i \in 1..j : b1[i] = b2[i]
        <4>1. j = k
          BY <2>3, <2>4, <3>4 DEF Same
        <4>2. \A i \in 1..j : i = j \/ i \in 1..(j - 1)
          BY <2>4
        <4> QED
          BY <3>2, <3>4, <4>1, <4>2 DEF Same
      <3> QED
        BY <2>3, <3>5 DEF Same
    <2> QED
      BY <1>3, <2>3, <2>4, <2>6, <2>7, <2>8, <2>9
  <1>5. Same(m, n)
    <2>1. m \in 0..m /\ n \in 0..n
      BY <1>3
    <2>2. g[1..m] = h[1..n]
      BY <1>1, <1>2
    <2> HIDE DEF Same
    <2> QED
      BY <1>4, <2>1, <2>2
  <1> QED
    BY <1>3, <1>5

\* A template: its block has the fields that solving replaces, and both its
\* branches are sequences of subtrees.
IsTemplate(t, A) ==
    /\ t.branch \in Seq(A) /\ t.block.branch \in Seq(A)
    /\ {"parent", "nonce", "time", "commitment", "work", "branch"} \subseteq DOMAIN t.block

\* The block that is submitted is the one that was hashed, and commits to its
\* transactions if the template's own block does, for any consistent template,
\* extranonce, time and nonce.
THEOREM SolvedMatches ==
    ASSUME NEW A, NEW t, IsTemplate(t, A), Consistent(t),
           NEW extra, NEW jobTime, NEW nonce
    PROVE  LET block == SolvedBlock(t, extra, jobTime, nonce)
           IN /\ HeaderOf(block) = SolvedHeader(t, extra, jobTime, nonce)
              /\ Committed(t.block) => Committed(block)
  <1> DEFINE block == SolvedBlock(t, extra, jobTime, nonce)
             root == Root(Coinbase(t, extra), t.branch)
  <1>1. /\ block.parent = t.block.parent /\ block.branch = t.block.branch
        /\ block.work = Coinbase(t, extra) /\ block.commitment = root
        /\ block.nonce = nonce /\ block.time = jobTime
    BY DEF SolvedBlock, IsTemplate
  <1>2. t.block.parent = t.parent /\ t.block.commitment = t.commitment
    <2>1. /\ HeaderOf(t.block).parent = t.block.parent
          /\ HeaderOf(t.block).commitment = t.block.commitment
      BY DEF HeaderOf
    <2>2. t.header.parent = t.parent /\ t.header.commitment = t.commitment
      BY DEF Consistent
    <2> QED
      BY <2>1, <2>2 DEF Consistent
  <1>3. t.commitment = Root(Coinbase(t, t.workNonce), t.branch)
    BY DEF Consistent
  <1> HIDE DEF block, root
  <1>4. HeaderOf(block) = SolvedHeader(t, extra, jobTime, nonce)
    BY <1>1, <1>2 DEF HeaderOf, SolvedHeader, root
  <1>5. ASSUME Committed(t.block)
        PROVE  Committed(block)
    <2>1. Root(Coinbase(t, t.workNonce), t.branch) = Root(t.block.work, t.block.branch)
      BY <1>2, <1>3, <1>5 DEF Committed
    <2>2. t.branch = t.block.branch
      BY <2>1, RootInjective DEF IsTemplate
    <2> QED
      BY <1>1, <2>2 DEF Committed, root
  <1> QED
    BY <1>4, <1>5 DEF block

-----------------------------------------------------------------------------
(* Amounts: texts of digits, and what they are worth.                        *)

\* The fold over the digits, from the first one on, at the positions of a set.
IsFold(S, digits, g) ==
    g = [s \in SUBSET S |->
            IF s = {} THEN 0
            ELSE g[s \ {Max(s)}] * Base + digits[Max(s)]]

\* The fold exists: one more position at the end asks for one more turn.
LEMMA FoldExists ==
    ASSUME NEW n \in Nat, NEW digits
    PROVE  \E g : IsFold(1..n, digits, g)
  <1> DEFINE S == 1..n
             Good == {T \in SUBSET S : \E g : IsFold(T, digits, g)}
  <1>1. {} \in Good
    <2> DEFINE g == [s \in SUBSET {} |-> 0]
    <2>1. \A s \in SUBSET {} : s = {}
      OBVIOUS
    <2>2. IsFold({}, digits, g)
      BY <2>1 DEF IsFold
    <2> QED
      BY <2>2
  <1>2. ASSUME NEW T \in SUBSET S, T # {}
        PROVE  \E x \in T : T \ {x} \in Good => T \in Good
    <2> DEFINE x == Max(T)
               U == T \ {x}
    <2>1. x \in T /\ \A i \in T : i <= x
      BY <1>2, MaxIs
    <2>2. ASSUME NEW g, IsFold(U, digits, g)
          PROVE  \E h : IsFold(T, digits, h)
      <3> DEFINE step(f, s) ==
                    IF s = {} THEN 0
                    ELSE f[s \ {Max(s)}] * Base + digits[Max(s)]
                 h == [s \in SUBSET T |->
                          IF x \in s THEN g[s \ {x}] * Base + digits[x] ELSE g[s]]
      <3>1. \A s \in SUBSET U : g[s] = step(g, s)
        BY <2>2 DEF IsFold
      <3>2. ASSUME NEW s \in SUBSET T, x \in s
            PROVE  h[s] = step(h, s)
        <4>1. Max(s) = x
          <5>1. s \in SUBSET S /\ s # {}
            BY <3>2
          <5>2. Max(s) \in s /\ \A i \in s : i <= Max(s)
            BY <5>1, MaxIs
          <5>3. Max(s) <= x /\ x <= Max(s) /\ Max(s) \in Nat /\ x \in Nat
            <6>1. x \in s /\ Max(s) \in T /\ T \subseteq 1..n
              BY <3>2, <5>2
            <6>2. Max(s) <= x /\ x <= Max(s)
              BY <2>1, <5>2, <6>1
            <6>3. x \in T
              BY <2>1
            <6>4. \A i \in T : i \in Nat
              BY <6>1
            <6>5. Max(s) \in Nat /\ x \in Nat
              BY <6>1, <6>3, <6>4
            <6> QED
              BY <6>2, <6>5
          <5> HIDE DEF x
          <5> QED
            BY <5>3
        <4>2. s \ {x} \in SUBSET T /\ x \notin s \ {x}
          BY <3>2
        <4> HIDE DEF x
        <4>3. h[s \ {x}] = g[s \ {x}] /\ h[s] = g[s \ {x}] * Base + digits[x]
          BY <3>2, <4>2
        <4> QED
          BY <3>2, <4>1, <4>3
      <3>3. ASSUME NEW s \in SUBSET T, x \notin s
            PROVE  h[s] = step(h, s)
        <4>1. s \in SUBSET U /\ h[s] = g[s]
          BY <3>3
        <4>2. CASE s = {}
          BY <3>1, <4>1, <4>2
        <4>3. CASE s # {}
          <5>1. s \ {Max(s)} \in SUBSET T /\ x \notin s \ {Max(s)}
            BY <3>3
          <5>2. h[s \ {Max(s)}] = g[s \ {Max(s)}]
            BY <5>1
          <5> QED
            BY <3>1, <4>1, <4>3, <5>2
        <4> QED
          BY <4>2, <4>3
      <3>4. h = [s \in SUBSET T |-> h[s]]
        OBVIOUS
      <3>5. \A s \in SUBSET T : h[s] = step(h, s)
        BY <3>2, <3>3
      <3> HIDE DEF h
      <3>6. IsFold(T, digits, h)
        BY <3>4, <3>5 DEF IsFold
      <3> QED
        BY <3>6
    <2> HIDE DEF x
    <2> QED
      BY <2>1, <2>2
  <1>3. S \in Good
    <2>1. IsFiniteSet(S)
      BY FS_Interval
    <2> HIDE DEF Good, S
    <2> QED
      BY <1>1, <1>2, <2>1, SetRemoval
  <1> QED
    BY <1>3

\* What Value is: the fold at all positions, whose last turn adds the last digit
\* to what those before it are worth.
LEMMA ValueIs ==
    ASSUME NEW A, NEW digits \in Seq(A)
    PROVE  \E g : /\ Value(digits) = g[1..Len(digits)]
                  /\ g[{}] = 0
                  /\ \A k \in 1..Len(digits) :
                        g[1..k] = g[1..(k - 1)] * Base + digits[k]
  <1> DEFINE n == Len(digits)
             loop == CHOOSE g :
                g = [s \in SUBSET (1..n) |->
                        IF s = {} THEN 0
                        ELSE g[s \ {Max(s)}] * Base + digits[Max(s)]]
  <1>1. n \in Nat /\ DOMAIN digits = 1..n
    OBVIOUS
  <1>2. Value(digits) = loop[1..n]
    BY <1>1 DEF Value, FoldLeft, MapThenFoldSet
  <1>3. loop = CHOOSE g : IsFold(1..n, digits, g)
    BY DEF IsFold
  <1> HIDE DEF loop, n
  <1>4. IsFold(1..n, digits, loop)
    BY <1>1, <1>3, FoldExists
  <1>5. loop[{}] = 0
    BY <1>4 DEF IsFold
  <1>6. ASSUME NEW k \in 1..n
        PROVE  loop[1..k] = loop[1..(k - 1)] * Base + digits[k]
    <2>1. 1..k \in SUBSET (1..n) /\ k \in 1..k
      BY <1>1
    <2>2. Max(1..k) = k
      <3>1. Max(1..k) \in 1..k /\ k <= Max(1..k)
        BY <1>1, <2>1, MaxIs
      <3> QED
        BY <1>1, <3>1
    <2>3. (1..k) \ {k} = 1..(k - 1)
      BY <1>1
    <2>4. loop[1..k] = loop[(1..k) \ {Max(1..k)}] * Base + digits[Max(1..k)]
      BY <1>4, <2>1 DEF IsFold
    <2> QED
      BY <2>2, <2>3, <2>4
  <1> QED
    BY <1>2, <1>5, <1>6 DEF n

\* What starts at zero and goes on from every number to the next covers them all.
LEMMA CountUp ==
    ASSUME NEW n \in Nat, NEW Good, 0 \in Good,
           \A k \in Nat : k < n /\ k \in Good => k + 1 \in Good
    PROVE  n \in Good
  <1> SUFFICES ASSUME n \notin Good PROVE FALSE
    OBVIOUS
  <1> DEFINE Bad == {k \in 0..n : k \notin Good}
  <1>1. Bad \subseteq Nat /\ Bad # {}
    BY DEF Bad
  <1> HIDE DEF Bad
  <1>2. PICK k \in Bad : \A j \in Bad : k <= j
    BY <1>1, LeastNatural
  <1>3. k \in 0..n /\ k \notin Good /\ k # 0
    BY <1>2 DEF Bad
  <1>4. k - 1 \in 0..n /\ k - 1 \notin Bad
    BY <1>2, <1>3 DEF Bad
  <1>5. k - 1 \in Good
    BY <1>4 DEF Bad
  <1>6. (k - 1) + 1 \in Good
    BY <1>3, <1>5
  <1> QED
    BY <1>3, <1>6

\* Every sequence is reached by appending one element after the other.
LEMMA SequenceInduction ==
    ASSUME NEW A, NEW Good, <<>> \in Good,
           \A s \in Seq(A), e \in A : s \in Good => Append(s, e) \in Good,
           NEW t \in Seq(A)
    PROVE  t \in Good
  <1> DEFINE Short == {k \in Nat : \A s \in Seq(A) : Len(s) = k => s \in Good}
  <1>1. 0 \in Short
    <2>1. \A s \in Seq(A) : Len(s) = 0 => s = <<>>
      BY EmptySeq
    <2> QED
      BY <2>1
  <1>2. ASSUME NEW k \in Nat, k \in Short
        PROVE  k + 1 \in Short
    <2> SUFFICES ASSUME NEW s \in Seq(A), Len(s) = k + 1 PROVE s \in Good
      OBVIOUS
    <2>1. s # <<>>
      BY EmptySeq
    <2>2. PICK front \in Seq(A), e \in A : s = Append(front, e)
      BY <2>1, SequenceEmptyOrAppend
    <2>3. Len(front) \in Nat /\ Len(s) = Len(front) + 1
      BY <2>2
    <2>4. front \in Good
      BY <1>2, <2>3
    <2> QED
      BY <2>2, <2>4
  <1>3. Len(t) \in Nat
    OBVIOUS
  <1> HIDE DEF Short
  <1>4. Len(t) \in Short
    BY <1>1, <1>2, <1>3, CountUp
  <1> QED
    BY <1>4 DEF Short

\* One more digit is worth itself, and makes those before it worth Base times
\* as much.
LEMMA ValueAppend ==
    ASSUME NEW s \in Seq(Nat), NEW d \in Nat
    PROVE  Value(s) \in Nat /\ Value(Append(s, d)) = Value(s) * Base + d
  <1> DEFINE n == Len(s)
             t == Append(s, d)
  <1>1. n \in Nat /\ t \in Seq(Nat) /\ Len(t) = n + 1 /\ t[n + 1] = d
        /\ \A k \in 1..n : t[k] = s[k] /\ s[k] \in Nat
    BY AppendProperties
  <1>2. PICK g : /\ Value(s) = g[1..n] /\ g[{}] = 0
                 /\ \A k \in 1..n : g[1..k] = g[1..(k - 1)] * Base + s[k]
    BY ValueIs
  <1> HIDE DEF t, n
  <1>3. PICK h : /\ Value(t) = h[1..(n + 1)] /\ h[{}] = 0
                 /\ \A k \in 1..(n + 1) : h[1..k] = h[1..(k - 1)] * Base + t[k]
    <2>1. \A u \in Seq(Nat) :
             \E h : /\ Value(u) = h[1..Len(u)] /\ h[{}] = 0
                    /\ \A k \in 1..Len(u) : h[1..k] = h[1..(k - 1)] * Base + u[k]
      BY ValueIs
    <2>2. \E h : /\ Value(t) = h[1..Len(t)] /\ h[{}] = 0
                 /\ \A k \in 1..Len(t) : h[1..k] = h[1..(k - 1)] * Base + t[k]
      BY <1>1, <2>1
    <2> QED
      BY <1>1, <2>2
  <1> DEFINE Good == {k \in 0..n : g[1..k] = h[1..k] /\ g[1..k] \in Nat}
  <1>4. 0 \in Good
    <2>1. 1..0 = {}
      OBVIOUS
    <2> QED
      BY <1>1, <1>2, <1>3, <2>1
  <1>5. ASSUME NEW k \in Nat, k < n, k \in Good
        PROVE  k + 1 \in Good
    <2>1. k + 1 \in 1..n /\ k + 1 \in 1..(n + 1) /\ (k + 1) - 1 = k
      BY <1>1, <1>5
    <2>2. g[1..(k + 1)] = g[1..k] * Base + s[k + 1]
      BY <1>2, <2>1
    <2>3. h[1..(k + 1)] = h[1..k] * Base + s[k + 1]
      BY <1>1, <1>3, <2>1
    <2>4. g[1..k] = h[1..k] /\ g[1..k] \in Nat /\ s[k + 1] \in Nat /\ Base \in Nat
      BY <1>1, <1>5, <2>1, AmountsAssumption
    <2>5. g[1..k] * Base + s[k + 1] \in Nat
      <3>1. \A a, b, c \in Nat : a * b + c \in Nat
        OBVIOUS
      <3> QED
        BY <2>4, <3>1
    <2> QED
      BY <2>1, <2>2, <2>3, <2>4, <2>5
  <1> HIDE DEF Good
  <1>6. n \in Good
    BY <1>1, <1>4, <1>5, CountUp
  <1>7. g[1..n] = h[1..n] /\ g[1..n] \in Nat
    BY <1>6 DEF Good
  <1>8. h[1..(n + 1)] = h[1..n] * Base + t[n + 1]
    <2>1. n + 1 \in 1..(n + 1) /\ (n + 1) - 1 = n
      BY <1>1
    <2> QED
      BY <1>3, <2>1
  <1> QED
    BY <1>1, <1>2, <1>3, <1>7, <1>8 DEF t

LEMMA ValueEmpty == Value(<<>>) = 0
  <1>1. <<>> \in Seq(Nat) /\ Len(<<>>) = 0 /\ 1..0 = {}
    OBVIOUS
  <1>2. \E g : Value(<<>>) = g[1..Len(<<>>)] /\ g[{}] = 0
    BY <1>1, ValueIs
  <1> QED
    BY <1>1, <1>2

LEMMA ZerosAre ==
    ASSUME NEW n \in Nat
    PROVE  /\ Zeros(n) \in Seq(Nat) /\ Len(Zeros(n)) = n
           /\ \A i \in 1..n : Zeros(n)[i] = 0
           /\ Zeros(0) = <<>>
           /\ Zeros(n + 1) = Append(Zeros(n), 0)
  <1>1. \A k \in Nat : Zeros(k) \in [1..k -> Nat]
    BY DEF Zeros
  <1>2. \A k \in Nat : Zeros(k) \in Seq(Nat) /\ Len(Zeros(k)) = k
    BY <1>1, SeqDef
  <1>3. \A k \in Nat : \A i \in 1..k : Zeros(k)[i] = 0
    BY DEF Zeros
  <1>4. Zeros(0) = <<>>
    BY <1>2, EmptySeq
  <1>5. Zeros(n + 1) = Append(Zeros(n), 0)
    <2> DEFINE a == Append(Zeros(n), 0)
    <2>1. /\ a \in Seq(Nat) /\ Len(a) = n + 1
          /\ \A i \in 1..n : a[i] = 0
          /\ a[n + 1] = 0
      <3>1. Zeros(n) \in Seq(Nat) /\ Len(Zeros(n)) = n /\ 0 \in Nat
        BY <1>2
      <3>2. /\ a \in Seq(Nat) /\ Len(a) = Len(Zeros(n)) + 1
            /\ \A i \in 1..Len(Zeros(n)) : a[i] = Zeros(n)[i]
            /\ a[Len(Zeros(n)) + 1] = 0
        BY <3>1, AppendProperties
      <3> HIDE DEF a
      <3> QED
        BY <1>3, <3>1, <3>2
    <2>2. n + 1 \in Nat /\ \A i \in 1..(n + 1) : i \in 1..n \/ i = n + 1
      OBVIOUS
    <2>3. /\ Zeros(n + 1) \in Seq(Nat) /\ Len(Zeros(n + 1)) = n + 1
          /\ \A i \in 1..(n + 1) : Zeros(n + 1)[i] = 0
      BY <1>2, <1>3, <2>2
    <2> HIDE DEF a
    <2>4. \A i \in 1..(n + 1) : a[i] = 0
      BY <2>1, <2>2
    <2> QED
      BY <2>1, <2>3, <2>4, SeqEqual DEF a
  <1> QED
    BY <1>2, <1>3, <1>4, <1>5

\* An appended element moves across a concatenation.
LEMMA ConcatAppend ==
    ASSUME NEW A, NEW s \in Seq(A), NEW t \in Seq(A), NEW e \in A
    PROVE  s \o Append(t, e) = Append(s \o t, e)
  <1>1. <<e>> \in Seq(A) /\ s \o t \in Seq(A)
    BY ConcatProperties
  <1>2. Append(t, e) = t \o <<e>> /\ Append(s \o t, e) = (s \o t) \o <<e>>
    BY <1>1, AppendIsConcat
  <1>3. (s \o t) \o <<e>> = s \o (t \o <<e>>)
    BY <1>1, ConcatAssociative
  <1> QED
    BY <1>2, <1>3

\* A unit with one more decimal is Base times as large.
LEMMA UnitIs ==
    ASSUME NEW n \in Nat
    PROVE  /\ Unit(0) = 1
           /\ Unit(n) \in Nat \ {0}
           /\ Unit(n + 1) = Unit(n) * Base
  <1> DEFINE U(k) == <<1>> \o Zeros(k)
  <1>1. <<1>> \in Seq(Nat)
    OBVIOUS
  <1>2. \A k \in Nat : U(k) \in Seq(Nat)
    BY <1>1, ZerosAre, ConcatProperties
  <1>3. ASSUME NEW k \in Nat
        PROVE  U(k + 1) = Append(U(k), 0)
    <2>1. Zeros(k) \in Seq(Nat) /\ Zeros(k + 1) = Append(Zeros(k), 0)
      BY ZerosAre
    <2>2. <<1>> \o Append(Zeros(k), 0) = Append(<<1>> \o Zeros(k), 0)
      <3> DEFINE one == <<1>>
                 zeros == Zeros(k)
      <3>1. one \in Seq(Nat) /\ zeros \in Seq(Nat) /\ 0 \in Nat
        BY <1>1, <2>1
      <3> HIDE DEF one, zeros
      <3>2. one \o Append(zeros, 0) = Append(one \o zeros, 0)
        BY <3>1, ConcatAppend
      <3> QED
        BY <3>2 DEF one, zeros
    <2> QED
      BY <2>1, <2>2
  <1>4. U(0) = Append(<<>>, 1)
    <2>1. Zeros(0) = <<>>
      BY ZerosAre
    <2>2. <<1>> \o <<>> = <<1>>
      BY <1>1, ConcatEmptySeq
    <2>3. Append(<<>>, 1) = <<1>>
      OBVIOUS
    <2> QED
      BY <2>1, <2>2, <2>3
  <1>5. \A k \in Nat : Unit(k) = Value(U(k))
    BY DEF Unit
  <1> HIDE DEF U
  <1>6. Unit(0) = 1
    <2>1. Value(Append(<<>>, 1)) = Value(<<>>) * Base + 1
      <3>1. <<>> \in Seq(Nat) /\ 1 \in Nat
        OBVIOUS
      <3> QED
        BY <3>1, ValueAppend
    <2>2. 0 * Base = 0
      BY AmountsAssumption
    <2> QED
      BY <1>4, <1>5, <2>1, <2>2, ValueEmpty
  <1>7. \A k \in Nat : Unit(k) \in Nat /\ Unit(k + 1) = Unit(k) * Base
    <2>1. \A k \in Nat : Value(U(k)) \in Nat /\ Value(Append(U(k), 0)) = Value(U(k)) * Base + 0
      BY <1>2, ValueAppend
    <2>2. \A m \in Nat : m * Base + 0 = m * Base
      BY AmountsAssumption
    <2> SUFFICES ASSUME NEW k \in Nat
                 PROVE  Unit(k) \in Nat /\ Unit(k + 1) = Unit(k) * Base
      OBVIOUS
    <2>3. k + 1 \in Nat /\ Unit(k + 1) = Value(U(k + 1)) /\ Unit(k) = Value(U(k))
      BY <1>5
    <2>4. U(k + 1) = Append(U(k), 0)
      BY <1>3
    <2>5. Value(U(k)) \in Nat /\ Value(Append(U(k), 0)) = Value(U(k)) * Base + 0
      BY <2>1
    <2> QED
      BY <2>2, <2>3, <2>4, <2>5
  <1> DEFINE Good == {k \in Nat : Unit(k) # 0}
  <1>8. 0 \in Good
    BY <1>6
  <1>9. ASSUME NEW k \in Nat, k \in Good
        PROVE  k + 1 \in Good
    <2>1. \A m \in Nat : m # 0 => m * Base # 0
      BY AmountsAssumption
    <2> QED
      BY <1>7, <1>9, <2>1
  <1> HIDE DEF Good
  <1>10. n \in Good
    BY <1>8, <1>9, CountUp
  <1> QED
    BY <1>6, <1>7, <1>10 DEF Good

\* What comes before t is worth a unit of as many decimals as t has digits.
LEMMA ValueConcat ==
    ASSUME NEW s \in Seq(Nat), NEW t \in Seq(Nat)
    PROVE  /\ Value(t) \in Nat
           /\ Value(s \o t) = Value(s) * Unit(Len(t)) + Value(t)
  <1> DEFINE Good == {u \in Seq(Nat) : Value(s \o u) = Value(s) * Unit(Len(u)) + Value(u)}
  <1>1. \A u \in Seq(Nat) : Value(u) \in Nat
    BY ValueAppend
  <1>2. <<>> \in Good
    <2>1. s \o <<>> = s /\ Len(<<>>) = 0 /\ <<>> \in Seq(Nat)
      BY ConcatEmptySeq
    <2>2. Unit(0) = 1 /\ Value(<<>>) = 0
      BY UnitIs, ValueEmpty
    <2> QED
      BY <1>1, <2>1, <2>2
  <1>3. ASSUME NEW u \in Seq(Nat), NEW d \in Nat, u \in Good
        PROVE  Append(u, d) \in Good
    <2> DEFINE v == Value(s)
               w == Value(u)
               x == Unit(Len(u))
    <2>1. Len(u) \in Nat /\ Append(u, d) \in Seq(Nat) /\ Len(Append(u, d)) = Len(u) + 1
      BY AppendProperties
    <2>2. s \o u \in Seq(Nat) /\ s \o Append(u, d) = Append(s \o u, d)
      BY ConcatProperties, ConcatAppend
    <2>3. Value(Append(s \o u, d)) = Value(s \o u) * Base + d
      BY <2>2, ValueAppend
    <2>4. Value(s \o u) = v * x + w
      BY <1>3
    <2>5. Value(Append(u, d)) = w * Base + d
      BY ValueAppend
    <2>6. Unit(Len(u) + 1) = x * Base /\ x \in Nat
      BY <2>1, UnitIs
    <2>7. v \in Nat /\ w \in Nat /\ Base \in Nat
      BY <1>1, AmountsAssumption
    <2> HIDE DEF v, w, x
    <2>8. (v * x + w) * Base + d = v * (x * Base) + (w * Base + d)
      BY <2>6, <2>7
    <2>9. Value(s \o Append(u, d)) = v * Unit(Len(Append(u, d))) + Value(Append(u, d))
      BY <2>1, <2>2, <2>3, <2>4, <2>5, <2>6, <2>8
    <2> QED
      BY <2>1, <2>9 DEF v
  <1> HIDE DEF Good
  <1>4. t \in Good
    BY <1>2, <1>3, SequenceInduction
  <1> QED
    BY <1>1, <1>4 DEF Good


\* Decimals add up, zeros at the end multiply and zeros in front change nothing.
LEMMA UnitAdds ==
    ASSUME NEW m \in Nat, NEW n \in Nat
    PROVE  Unit(m + n) = Unit(m) * Unit(n)
  <1> DEFINE Good == {k \in Nat : Unit(m + k) = Unit(m) * Unit(k)}
  <1>1. \A k \in Nat : Unit(k) \in Nat /\ Unit(k + 1) = Unit(k) * Base
    BY UnitIs
  <1>2. 0 \in Good
    <2>1. Unit(0) = 1 /\ m + 0 = m
      BY UnitIs
    <2> QED
      BY <1>1, <2>1
  <1>3. ASSUME NEW k \in Nat, k \in Good
        PROVE  k + 1 \in Good
    <2> DEFINE u == Unit(m)
               v == Unit(k)
    <2>1. m + k \in Nat /\ m + (k + 1) = (m + k) + 1
      OBVIOUS
    <2>2. Unit(m + (k + 1)) = Unit(m + k) * Base
      BY <1>1, <2>1
    <2>3. Unit(m + k) = u * v /\ Unit(k + 1) = v * Base
      BY <1>1, <1>3
    <2>4. u \in Nat /\ v \in Nat /\ Base \in Nat
      BY <1>1, AmountsAssumption
    <2> HIDE DEF u, v
    <2>5. (u * v) * Base = u * (v * Base)
      BY <2>4
    <2>6. Unit(m + (k + 1)) = u * Unit(k + 1)
      BY <2>2, <2>3, <2>5
    <2> QED
      BY <2>6 DEF u
  <1> HIDE DEF Good
  <1>4. n \in Good
    BY <1>2, <1>3, CountUp
  <1> QED
    BY <1>4 DEF Good

LEMMA ValueZeros ==
    ASSUME NEW n \in Nat, NEW s \in Seq(Nat)
    PROVE  /\ Value(s \o Zeros(n)) = Value(s) * Unit(n)
           /\ Value(Zeros(n) \o s) = Value(s)
  <1> DEFINE Good == {k \in Nat : Value(Zeros(k)) = 0}
  <1>1. \A k \in Nat : /\ Zeros(k) \in Seq(Nat) /\ Len(Zeros(k)) = k
                       /\ Zeros(0) = <<>> /\ Zeros(k + 1) = Append(Zeros(k), 0)
    BY ZerosAre
  <1>2. 0 \in Good
    BY <1>1, ValueEmpty
  <1>3. ASSUME NEW k \in Nat, k \in Good
        PROVE  k + 1 \in Good
    <2>1. Zeros(k) \in Seq(Nat) /\ Zeros(k + 1) = Append(Zeros(k), 0) /\ 0 \in Nat
      BY <1>1
    <2>2. Value(Append(Zeros(k), 0)) = Value(Zeros(k)) * Base + 0
      BY <2>1, ValueAppend
    <2>3. 0 * Base + 0 = 0
      BY AmountsAssumption
    <2>4. Value(Zeros(k)) = 0 /\ k + 1 \in Nat
      BY <1>3
    <2>5. Value(Zeros(k + 1)) = 0
      BY <2>1, <2>2, <2>3, <2>4
    <2> QED
      BY <2>4, <2>5
  <1> HIDE DEF Good
  <1>4. Value(Zeros(n)) = 0
    <2>1. n \in Good
      BY <1>2, <1>3, CountUp
    <2> QED
      BY <2>1 DEF Good
  <1>5. Zeros(n) \in Seq(Nat) /\ Len(Zeros(n)) = n /\ Value(s) \in Nat /\ Len(s) \in Nat
    <2>1. Value(s) \in Nat
      BY ValueConcat
    <2>2. Len(s) \in Nat
      BY LenProperties
    <2>3. Zeros(n) \in Seq(Nat) /\ Len(Zeros(n)) = n
      BY <1>1
    <2> QED
      BY <2>1, <2>2, <2>3
  <1>6. Value(s \o Zeros(n)) = Value(s) * Unit(Len(Zeros(n))) + Value(Zeros(n))
    BY <1>5, ValueConcat
  <1>7. Value(Zeros(n) \o s) = Value(Zeros(n)) * Unit(Len(s)) + Value(s)
    BY <1>5, ValueConcat
  <1>8. Unit(n) \in Nat /\ Unit(Len(s)) \in Nat
    BY <1>5, UnitIs
  <1>9. /\ \A x, y \in Nat : x * y + 0 = x * y
        /\ \A x, y \in Nat : 0 * x + y = y
    OBVIOUS
  <1> QED
    BY <1>4, <1>5, <1>6, <1>7, <1>8, <1>9

\* More decimals, a larger unit; and no number outgrows all units.
LEMMA UnitGrows ==
    ASSUME NEW n \in Nat
    PROVE  /\ \A m \in 0..n : Unit(m) <= Unit(n)
           /\ n < Unit(n)
  <1>1. \A k \in Nat : /\ Unit(0) = 1 /\ Unit(k) \in Nat \ {0}
                       /\ Unit(k + 1) = Unit(k) * Base
    BY UnitIs
  <1>2. \A u \in Nat \ {0} : u + 1 <= u * Base
    <2> SUFFICES ASSUME NEW u \in Nat \ {0} PROVE u + 1 <= u * Base
      OBVIOUS
    <2>1. Base - 2 \in Nat /\ Base \in Nat
      BY AmountsAssumption
    <2>2. u * (Base - 2) \in Nat
      <3>1. \A x, y \in Nat : x * y \in Nat
        OBVIOUS
      <3> QED
        BY <2>1, <3>1
    <2>3. u * (Base - 2) = u * Base - 2 * u
      BY <2>1
    <2> QED
      BY <2>1, <2>2, <2>3
  <1> DEFINE Good == {k \in Nat : k < Unit(k) /\ \A m \in 0..k : Unit(m) <= Unit(k)}
  <1>3. 0 \in Good
    BY <1>1
  <1>4. ASSUME NEW k \in Nat, k \in Good
        PROVE  k + 1 \in Good
    <2>1. Unit(k) + 1 <= Unit(k + 1) /\ Unit(k) \in Nat /\ Unit(k + 1) \in Nat
      <3>1. k + 1 \in Nat
        OBVIOUS
      <3> QED
        BY <1>1, <1>2, <3>1
    <2>2. k + 1 < Unit(k + 1)
      BY <1>4, <2>1
    <2>3. ASSUME NEW m \in 0..(k + 1)
          PROVE  Unit(m) <= Unit(k + 1)
      <3>1. CASE m = k + 1
        BY <2>1, <3>1
      <3>2. CASE m \in 0..k
        <4>1. Unit(m) <= Unit(k) /\ Unit(m) \in Nat
          BY <1>1, <1>4, <3>2
        <4> QED
          BY <2>1, <4>1
      <3> QED
        BY <3>1, <3>2
    <2> QED
      BY <2>2, <2>3
  <1> HIDE DEF Good
  <1>5. n \in Good
    BY <1>3, <1>4, CountUp
  <1> QED
    BY <1>5 DEF Good

\* The quotient of x by y is the number of times y fits.
LEMMA QuotientIs ==
    ASSUME NEW x \in Nat, NEW y \in Nat \ {0}, NEW p \in Nat,
           y * p <= x, x < y * p + y
    PROVE  x \div y = p
  <1> DEFINE q == x \div y
             r == x % y
  <1>1. q \in Nat /\ r \in 0..(y - 1) /\ x = y * q + r
    BY Division
  <1> HIDE DEF q, r
  <1>2. y * q \in Nat /\ y * p \in Nat
    <2>1. \A a, b \in Nat : a * b \in Nat
      OBVIOUS
    <2> QED
      BY <1>1, <2>1
  <1>3. ~(q <= p - 1)
    <2> SUFFICES ASSUME q <= p - 1 PROVE FALSE
      OBVIOUS
    <2>1. y * q <= y * (p - 1) /\ y * (p - 1) = y * p - y
      BY <1>1
    <2> QED
      BY <1>1, <1>2, <2>1
  <1>4. ~(p <= q - 1)
    <2> SUFFICES ASSUME p <= q - 1 PROVE FALSE
      OBVIOUS
    <2>1. y * p <= y * (q - 1) /\ y * (q - 1) = y * q - y
      BY <1>1
    <2> QED
      BY <1>1, <1>2, <2>1
  <1>5. q = p
    BY <1>1, <1>3, <1>4
  <1> QED
    BY <1>5 DEF q

\* The digits above a place and the digit at it are the digits from it up.
LEMMA NextDigit ==
    ASSUME NEW n \in Nat, NEW u \in Nat \ {0}
    PROVE  /\ n \div u \in Nat
           /\ (n \div (u * Base)) * Base + ((n \div u) % Base) = n \div u
  <1> DEFINE q == n \div u
             r == n % u
             p == q \div Base
             s == q % Base
  <1>1. Base \in Nat \ {0}
    BY AmountsAssumption
  <1>2. q \in Nat /\ r \in 0..(u - 1) /\ n = u * q + r
    BY Division
  <1>3. p \in Nat /\ s \in 0..(Base - 1) /\ q = Base * p + s
    <2> HIDE DEF q
    <2> QED
      BY <1>1, <1>2, Division
  <1> HIDE DEF q, r, p, s
  <1>4. n = (u * Base) * p + (u * s + r)
    <2>1. u * (Base * p + s) = (u * Base) * p + u * s
      BY <1>1, <1>3
    <2>2. (u * Base) * p \in Nat /\ u * s \in Nat
      <3>1. \A a, b \in Nat : a * b \in Nat
        OBVIOUS
      <3>2. u * Base \in Nat
        BY <1>1, <3>1
      <3> QED
        BY <1>3, <3>1, <3>2
    <2> QED
      BY <1>2, <1>3, <2>1, <2>2
  <1>5. u * s + r \in Nat /\ u * s + r < u * Base
    <2>1. u * s <= u * (Base - 1) /\ u * (Base - 1) = u * Base - u
      BY <1>1, <1>3
    <2>2. u * s \in Nat /\ u * Base \in Nat
      <3>1. \A a, b \in Nat : a * b \in Nat
        OBVIOUS
      <3> QED
        BY <1>1, <1>3, <3>1
    <2> QED
      BY <1>2, <2>1, <2>2
  <1>6. u * Base \in Nat \ {0}
    BY <1>1
  <1>7. n \div (u * Base) = p
    <2>1. (u * Base) * p \in Nat
      <3>1. \A a, b \in Nat : a * b \in Nat
        OBVIOUS
      <3> QED
        BY <1>3, <1>6, <3>1
    <2>2. (u * Base) * p <= n /\ n < (u * Base) * p + (u * Base)
      BY <1>4, <1>5, <1>6, <2>1
    <2> QED
      BY <1>3, <1>6, <2>2, QuotientIs
  <1>8. p * Base + s = q
    BY <1>1, <1>3
  <1> QED
    <2>1. q = n \div u /\ s = (n \div u) % Base
      BY DEF q, s
    <2>2. (n \div (u * Base)) * Base + ((n \div u) % Base) = p * Base + s
      BY <1>7, <2>1
    <2> QED
      BY <1>2, <1>8, <2>1, <2>2


\* The texts of numbers.
Numbers == Seq(0..(Base - 1))

LEMMA NumberIsSeq ==
    ASSUME NEW s \in Numbers
    PROVE  s \in Seq(Nat) /\ Len(s) \in Nat
  <1> DEFINE D == 0..(Base - 1)
  <1>1. D \subseteq Nat
    OBVIOUS
  <1>2. s \in Seq(D)
    BY DEF Numbers
  <1> HIDE DEF D
  <1>3. s \in Seq(Nat)
    BY <1>1, <1>2, SeqMonotonic
  <1>4. Len(s) \in Nat
    BY <1>2, LenProperties
  <1> QED
    BY <1>3, <1>4

\* There is a first unit that is more than n, and it has a decimal at least.
LEMMA LengthExists ==
    ASSUME NEW n \in Nat
    PROVE  \E k \in 1..(n + 1) : n < Unit(k) /\ (k > 1 => n >= Unit(k - 1))
  <1> DEFINE I == {k \in Nat \ {0} : n < Unit(k)}
  <1>1. n + 1 \in I
    <2>1. n + 1 \in Nat \ {0}
      OBVIOUS
    <2>2. n + 1 < Unit(n + 1) /\ Unit(n + 1) \in Nat
      BY <2>1, UnitGrows, UnitIs
    <2> QED
      BY <2>1, <2>2
  <1>2. I \subseteq Nat
    OBVIOUS
  <1>3. PICK k \in I : \A j \in I : k <= j
    BY <1>1, <1>2, LeastNatural
  <1>4. k \in 1..(n + 1) /\ n < Unit(k)
    BY <1>1, <1>3
  <1>5. ASSUME k > 1 PROVE n >= Unit(k - 1)
    <2>1. k - 1 \in Nat \ {0} /\ k - 1 \notin I
      BY <1>3, <1>4, <1>5
    <2>2. Unit(k - 1) \in Nat
      BY <2>1, UnitIs
    <2> QED
      BY <2>1, <2>2
  <1> QED
    BY <1>4, <1>5

\* The digits of n are a number without leading zeros that is worth n.
LEMMA DigitsAre ==
    ASSUME NEW n \in Nat
    PROVE  /\ Digits(n) \in Numbers /\ Digits(n) # <<>>
           /\ Value(Digits(n)) = n
           /\ Len(Digits(n)) > 1 => Digits(n)[1] # 0 /\ n >= Unit(Len(Digits(n)) - 1)
  <1> DEFINE length == CHOOSE k \in 1..(n + 1) : n < Unit(k) /\ (k > 1 => n >= Unit(k - 1))
             s == [i \in 1..length |-> (n \div Unit(length - i)) % Base]
  <1>1. Digits(n) = s
    BY DEF Digits
  <1>2. length \in 1..(n + 1) /\ n < Unit(length) /\ (length > 1 => n >= Unit(length - 1))
    BY LengthExists
  <1> HIDE DEF length
  <1>3. length \in Nat \ {0} /\ Base \in Nat \ {0, 1}
    BY <1>2, AmountsAssumption
  <1>4. ASSUME NEW i \in 1..length
        PROVE  /\ Unit(length - i) \in Nat \ {0}
               /\ (n \div Unit(length - i)) \in Nat
               /\ (n \div Unit(length - i)) % Base \in 0..(Base - 1)
    <2>1. length - i \in Nat
      BY <1>3
    <2>2. Unit(length - i) \in Nat \ {0}
      BY <2>1, UnitIs
    <2>3. (n \div Unit(length - i)) \in Nat
      BY <2>2, Division
    <2> QED
      BY <1>3, <2>2, <2>3, Division
  <1>5. s \in Numbers /\ Len(s) = length
    <2>1. s \in [1..length -> 0..(Base - 1)]
      BY <1>4
    <2> HIDE DEF s
    <2> QED
      BY <1>3, <2>1, SeqDef DEF Numbers
  <1>6. Value(s) = n
    <2>1. PICK g : /\ Value(s) = g[1..length] /\ g[{}] = 0
                   /\ \A k \in 1..length : g[1..k] = g[1..(k - 1)] * Base + s[k]
      <3>1. \A t \in Numbers : \E g : /\ Value(t) = g[1..Len(t)] /\ g[{}] = 0
                   /\ \A k \in 1..Len(t) : g[1..k] = g[1..(k - 1)] * Base + t[k]
        BY ValueIs DEF Numbers
      <3> HIDE DEF s
      <3> QED
        BY <1>5, <3>1
    <2> DEFINE Good == {k \in 0..length : g[1..k] = n \div Unit(length - k)}
    <2>2. 0 \in Good
      <3>1. n \div Unit(length) = 0
        <4>1. Unit(length) \in Nat \ {0}
          BY <1>3, UnitIs
        <4>2. Unit(length) * 0 = 0
          BY <4>1
        <4> QED
          BY <1>2, <4>1, <4>2, QuotientIs
      <3>2. 1..0 = {} /\ length - 0 = length
        BY <1>3
      <3> HIDE DEF s
      <3> QED
        BY <1>3, <2>1, <3>1, <3>2
    <2>3. ASSUME NEW k \in Nat, k < length, k \in Good
          PROVE  k + 1 \in Good
      <3> DEFINE u == Unit(length - (k + 1))
      <3>1. k + 1 \in 1..length /\ (k + 1) - 1 = k
        BY <1>3, <2>3
      <3>2. s[k + 1] = (n \div u) % Base
        BY <3>1
      <3>3. u \in Nat \ {0}
        BY <1>4, <3>1
      <3>4. Unit(length - k) = u * Base
        <4>1. length - (k + 1) \in Nat /\ (length - (k + 1)) + 1 = length - k
          BY <1>3, <3>1
        <4> QED
          BY <4>1, UnitIs
      <3>5. g[1..k] = n \div (u * Base)
        BY <2>3, <3>4
      <3> HIDE DEF s
      <3>6. g[1..(k + 1)] = g[1..k] * Base + s[k + 1]
        BY <2>1, <3>1
      <3>7. (n \div (u * Base)) * Base + ((n \div u) % Base) = n \div u
        BY <3>3, NextDigit
      <3>8. g[1..(k + 1)] = n \div u
        <4>1. g[1..(k + 1)] = (n \div (u * Base)) * Base + ((n \div u) % Base)
          BY <3>2, <3>5, <3>6
        <4> QED
          BY <3>7, <4>1
      <3>9. k + 1 \in 0..length
        BY <1>3, <3>1
      <3> QED
        BY <3>8, <3>9, Zenon DEF u
    <2> HIDE DEF Good, s
    <2>4. length \in Good
      BY <1>3, <2>2, <2>3, CountUp
    <2>5. g[1..length] = n \div Unit(0)
      <3>1. length - length = 0
        BY <1>3
      <3> QED
        BY <2>4, <3>1 DEF Good
    <2>6. Unit(0) = 1
      BY UnitIs
    <2> QED
      BY <2>1, <2>5, <2>6
  <1>7. ASSUME length > 1 PROVE s[1] # 0
    <2> DEFINE u == Unit(length - 1)
               q == n \div u
    <2>1. length - 1 \in Nat /\ 1 \in 1..length
      BY <1>3
    <2>2. u \in Nat \ {0} /\ Unit(length) = u * Base
      <3>1. (length - 1) + 1 = length
        BY <1>3
      <3> QED
        BY <2>1, <3>1, UnitIs
    <2>3. s[1] = q % Base
      BY <2>1
    <2> HIDE DEF u
    <2>4. q \in Nat /\ (n % u) \in 0..(u - 1) /\ n = u * q + (n % u)
      BY <2>2, Division
    <2>5. n >= u /\ n < u * Base
      BY <1>2, <1>7, <2>2 DEF u
    <2> HIDE DEF q
    <2>6. 1 <= q
      <3> SUFFICES ASSUME q = 0 PROVE FALSE
        BY <2>4
      <3>1. u * q = 0
        BY <2>2
      <3> QED
        BY <2>2, <2>4, <2>5, <3>1
    <2>7. q < Base
      <3> SUFFICES ASSUME Base <= q PROVE FALSE
        BY <1>3, <2>4
      <3>1. u * Base <= u * q
        BY <1>3, <2>2, <2>4
      <3>2. \A a, b \in Nat : a * b \in Nat
        OBVIOUS
      <3>3. u * Base \in Nat /\ u * q \in Nat
        BY <1>3, <2>2, <2>4, <3>2
      <3> QED
        BY <2>2, <2>4, <2>5, <3>1, <3>3
    <2>8. q % Base = q
      BY <1>3, <2>4, <2>7
    <2> HIDE DEF s
    <2> QED
      BY <2>3, <2>4, <2>6, <2>8
  <1>8. s # <<>>
    <2>1. Len(<<>>) = 0
      OBVIOUS
    <2> HIDE DEF s
    <2> QED
      BY <1>3, <1>5, <2>1
  <1> HIDE DEF s
  <1> QED
    BY <1>1, <1>2, <1>5, <1>6, <1>7, <1>8

LEMMA IsNumberIs ==
    ASSUME NEW s \in Seq(Character)
    PROVE  IsNumber(s) => s \in Numbers /\ s # <<>>
  <1> SUFFICES ASSUME IsNumber(s) PROVE s \in Numbers
    BY DEF IsNumber
  <1>1. s \in [1..Len(s) -> Character] /\ Len(s) \in Nat /\ DOMAIN s = 1..Len(s)
    BY LenProperties
  <1>2. \A i \in 1..Len(s) : s[i] \in 0..(Base - 1)
    BY <1>1 DEF IsNumber, ToSet
  <1> DEFINE D == 0..(Base - 1)
  <1> HIDE DEF D
  <1>3. \E n \in Nat : s \in [1..n -> D]
    BY <1>1, <1>2 DEF D
  <1>4. s \in Seq(D)
    BY ONLY <1>3, SeqDef
  <1> QED
    BY <1>4 DEF Numbers, D

LEMMA NumberIs ==
    ASSUME NEW s \in Numbers
    PROVE  /\ s \in Seq(Character) /\ Len(s) \in Nat
           /\ \A i \in 1..Len(s) : s[i] \in 0..(Base - 1) /\ s[i] # Point
           /\ s # <<>> => IsNumber(s)
  <1> DEFINE D == 0..(Base - 1)
  <1>1. s \in Seq(D) /\ D \subseteq Character
    BY DEF Numbers, Character
  <1>2. \A d \in D : d # Point
    BY DEF Point
  <1> HIDE DEF D
  <1>3. s \in Seq(Character)
    BY <1>1, SeqMonotonic
  <1>4. Len(s) \in Nat /\ DOMAIN s = 1..Len(s) /\ \A i \in 1..Len(s) : s[i] \in D
    BY <1>1, LenProperties, ElementOfSeq
  <1>5. ToSet(s) \subseteq D
    BY <1>4 DEF ToSet
  <1> QED
    BY <1>2, <1>3, <1>4, <1>5 DEF IsNumber, D

\* The first of some numbers.
LEMMA MinIs ==
    ASSUME NEW I, I \subseteq Nat, I # {}
    PROVE  Min(I) \in I /\ \A i \in I : Min(I) <= i
  <1>1. \E x \in I : \A y \in I : x <= y
    BY LeastNatural
  <1> QED
    BY <1>1 DEF Min

\* Where the first point of a text is.
LEMMA FirstPoint ==
    ASSUME NEW text \in Seq(Character), Point \in ToSet(text)
    PROVE  /\ Whole(text) \in 0..(Len(text) - 1)
           /\ text[Whole(text) + 1] = Point
           /\ \A i \in 1..Whole(text) : text[i] # Point
           /\ SelectInSeq(text, LAMBDA v : v = Point) = Whole(text) + 1
  <1> DEFINE I == {i \in 1..Len(text) : text[i] = Point}
  <1>1. Len(text) \in Nat /\ DOMAIN text = 1..Len(text)
    BY LenProperties
  <1>2. I \subseteq Nat /\ I # {} /\ \A i \in I : i \in 1..Len(text)
    BY <1>1 DEF ToSet
  <1>3. SelectInSeq(text, LAMBDA v : v = Point) = Min(I)
    BY <1>2 DEF SelectInSeq
  <1>4. Min(I) \in I /\ \A i \in I : Min(I) <= i
    <2> HIDE DEF I
    <2> QED
      BY <1>2, MinIs
  <1> DEFINE m == Min(I)
  <1>5. m \in 1..Len(text) /\ text[m] = Point
    BY <1>4
  <1>6. \A i \in 1..(m - 1) : text[i] # Point
    BY <1>1, <1>4, <1>5
  <1> HIDE DEF m
  <1>7. Whole(text) = m - 1
    BY <1>3 DEF Whole, m
  <1>8. m - 1 \in 0..(Len(text) - 1) /\ (m - 1) + 1 = m
    BY <1>1, <1>5
  <1> QED
    BY <1>3, <1>5, <1>6, <1>7, <1>8 DEF m

\* What the point separates, and what is left without it.
LEMMA PartsAre ==
    ASSUME NEW text \in Seq(Character)
    PROVE  /\ Point \notin ToSet(text) =>
                 Parts(text) = <<text>> /\ RemoveFirst(text, Point) = text
           /\ Point \in ToSet(text) =>
                 \E a, b \in Seq(Character) :
                    /\ Parts(text) = <<a, b>>
                    /\ Len(b) = Len(text) - Whole(text) - 1
                    /\ RemoveFirst(text, Point) = a \o b
  <1>1. Len(text) \in Nat /\ DOMAIN text = 1..Len(text)
    BY LenProperties
  <1>2. ASSUME Point \notin ToSet(text)
        PROVE  Parts(text) = <<text>> /\ RemoveFirst(text, Point) = text
    BY <1>1, <1>2 DEF Parts, RemoveFirst, ToSet
  <1>3. ASSUME Point \in ToSet(text)
        PROVE  \E a, b \in Seq(Character) :
                    /\ Parts(text) = <<a, b>>
                    /\ Len(b) = Len(text) - Whole(text) - 1
                    /\ RemoveFirst(text, Point) = a \o b
    <2> DEFINE w == Whole(text)
               a == SubSeq(text, 1, w)
               b == SubSeq(text, w + 2, Len(text))
    <2>1. w \in 0..(Len(text) - 1)
      BY <1>3, FirstPoint
    <2>2. Parts(text) = <<a, b>>
      BY <1>3 DEF Parts
    <2>3. a \in Seq(Character)
      <3>1. \A i \in 1..w : text[i] \in Character
        BY <1>1, <2>1, ElementOfSeq
      <3> HIDE DEF w
      <3> QED
        BY <2>1, <3>1, SubSeqProperties
    <2>4. b \in Seq(Character) /\ Len(b) = Len(text) - w - 1
      <3> DEFINE low == w + 2
                 high == Len(text)
      <3>1. \A i \in low..high : text[i] \in Character
        BY <1>1, <2>1, ElementOfSeq
      <3>2. low \in Int /\ high \in Int
        BY <1>1, <2>1
      <3>3. (IF low <= high THEN high - low + 1 ELSE 0) = Len(text) - w - 1
        BY <1>1, <2>1
      <3> HIDE DEF w, low, high
      <3>4. /\ SubSeq(text, low, high) \in Seq(Character)
            /\ Len(SubSeq(text, low, high)) = IF low <= high THEN high - low + 1 ELSE 0
        BY <3>1, <3>2, SubSeqProperties
      <3> QED
        BY <3>3, <3>4 DEF low, high
    <2>5. RemoveFirst(text, Point) = a \o b
      <3>1. \E i \in 1..Len(text) : text[i] = Point
        BY <1>1, <1>3 DEF ToSet
      <3>2. SelectInSeq(text, LAMBDA v : v = Point) = w + 1
        BY <1>3, FirstPoint
      <3>3. RemoveFirst(text, Point) = RemoveAt(text, w + 1)
        BY <3>1, <3>2 DEF RemoveFirst
      <3>4. (w + 1) - 1 = w /\ (w + 1) + 1 = w + 2
        BY <2>1
      <3> HIDE DEF w
      <3> QED
        BY <3>3, <3>4 DEF RemoveAt
    <2> HIDE DEF a, b
    <2> QED
      BY <2>2, <2>3, <2>4, <2>5
  <1> QED
    BY <1>2, <1>3

\* A fraction filled up with zeros is in units of the number of decimals.
LEMMA FractionExact ==
    ASSUME NEW a \in Numbers, NEW b \in Numbers, NEW k \in Nat, Len(b) <= k
    PROVE  LET atomic == Value(a) * Unit(k) + Value(b \o Zeros(k - Len(b)))
           IN atomic * Unit(Len(b)) = Value(a \o b) * Unit(k)
  <1> DEFINE x == Value(a)
             y == Value(b)
             f == Unit(Len(b))
             z == Unit(k - Len(b))
  <1>1. a \in Seq(Nat) /\ b \in Seq(Nat) /\ Len(b) \in Nat /\ k - Len(b) \in Nat
    <2>1. a \in Seq(Nat) /\ b \in Seq(Nat) /\ Len(b) \in Nat
      BY NumberIsSeq
    <2> QED
      BY <2>1
  <1>2. x \in Nat /\ y \in Nat /\ f \in Nat /\ z \in Nat
    BY <1>1, ValueConcat, UnitIs
  <1>3. Unit(k) = f * z
    <2>1. Len(b) + (k - Len(b)) = k
      BY <1>1
    <2>2. Unit(Len(b) + (k - Len(b))) = f * z
      BY <1>1, UnitAdds
    <2> QED
      BY <2>1, <2>2
  <1>4. Value(b \o Zeros(k - Len(b))) = y * z
    BY <1>1, ValueZeros
  <1>5. Value(a \o b) = x * f + y
    BY <1>1, ValueConcat
  <1> HIDE DEF x, y, f, z
  <1>6. (x * (f * z) + y * z) * f = (x * f + y) * (f * z)
    BY <1>2
  <1> QED
    BY <1>3, <1>4, <1>5, <1>6 DEF f, x

\* The texts of an accepted amount: a number, or two.
LEMMA CanonicalParts ==
    ASSUME NEW text \in Seq(Character), \A i \in DOMAIN Parts(text) : IsNumber(Parts(text)[i])
    PROVE  \/ /\ Point \notin ToSet(text) /\ Parts(text) = <<text>> /\ Len(Parts(text)) = 1
              /\ text \in Numbers /\ RemoveFirst(text, Point) = text
           \/ /\ Point \in ToSet(text) /\ Len(Parts(text)) = 2
              /\ \E a, b \in Numbers :
                    /\ Parts(text)[1] = a /\ Parts(text)[2] = b
                    /\ Len(b) = Len(text) - Whole(text) - 1
                    /\ RemoveFirst(text, Point) = a \o b
  <1>1. CASE Point \notin ToSet(text)
    <2>1. Parts(text) = <<text>> /\ RemoveFirst(text, Point) = text
      BY <1>1, PartsAre
    <2>2. 1 \in DOMAIN Parts(text) /\ Parts(text)[1] = text /\ Len(Parts(text)) = 1
      BY <2>1
    <2>3. IsNumber(text)
      BY <2>2
    <2> QED
      BY <1>1, <2>1, <2>2, <2>3, IsNumberIs
  <1>2. CASE Point \in ToSet(text)
    <2>1. PICK a \in Seq(Character), b \in Seq(Character) :
             /\ Parts(text) = <<a, b>>
             /\ Len(b) = Len(text) - Whole(text) - 1
             /\ RemoveFirst(text, Point) = a \o b
      BY <1>2, PartsAre
    <2>2. /\ 1 \in DOMAIN Parts(text) /\ Parts(text)[1] = a
          /\ 2 \in DOMAIN Parts(text) /\ Parts(text)[2] = b /\ Len(Parts(text)) = 2
      BY <2>1
    <2>3. IsNumber(a) /\ IsNumber(b)
      BY <2>2
    <2>4. a \in Numbers /\ b \in Numbers
      BY <2>3, IsNumberIs
    <2> QED
      BY <1>2, <2>1, <2>2, <2>4
  <1> QED
    BY <1>1, <1>2

\* What is accepted is what is written, digit by digit.
LEMMA WrittenWhole ==
    ASSUME NEW text \in Seq(Character), Point \notin ToSet(text), text \in Numbers,
           RemoveFirst(text, Point) = text, NEW k \in Nat
    PROVE  (Value(text) * Unit(k)) * Unit(Fraction(text))
              = Value(RemoveFirst(text, Point)) * Unit(k)
  <1>1. Value(text) \in Nat /\ Unit(k) \in Nat /\ Unit(0) = 1
    <2>1. text \in Seq(Nat)
      BY NumberIsSeq
    <2> QED
      BY <2>1, ValueConcat, UnitIs
  <1>2. \A x, y \in Nat : (x * y) * 1 = x * y
    OBVIOUS
  <1> QED
    BY <1>1, <1>2 DEF Fraction

LEMMA DecimalIsExact ==
    ASSUME NEW text \in Seq(Character), NEW k \in Nat, Decimal(text, k) # Invalid
    PROVE  Decimal(text, k) * Unit(Fraction(text)) = Value(RemoveFirst(text, Point)) * Unit(k)
  <1> DEFINE parts == Parts(text)
  <1>1. Canonical(parts)
    BY DEF Decimal
  <1>2. \A i \in DOMAIN parts : IsNumber(parts[i])
    BY <1>1 DEF Canonical
  <1>3. CASE /\ Point \notin ToSet(text) /\ parts = <<text>> /\ Len(parts) = 1
             /\ text \in Numbers /\ RemoveFirst(text, Point) = text
    <2>1. parts[1] = text
      BY <1>3
    <2>2. Decimal(text, k) = Value(text) * Unit(k)
      BY <1>1, <1>3, <2>1 DEF Decimal
    <2> QED
      BY <1>3, <2>2, WrittenWhole
  <1>4. ASSUME Point \in ToSet(text), Len(parts) = 2,
               NEW a \in Numbers, NEW b \in Numbers,
               parts[1] = a, parts[2] = b, Len(b) = Len(text) - Whole(text) - 1,
               RemoveFirst(text, Point) = a \o b
        PROVE  Decimal(text, k) * Unit(Fraction(text)) = Value(RemoveFirst(text, Point)) * Unit(k)
    <2>1. ~(Len(parts[2]) > k)
      BY <1>1, <1>4 DEF Decimal
    <2>2. Len(b) <= k /\ Fraction(text) = Len(b)
      <3>1. Len(b) \in Nat
        BY NumberIsSeq
      <3> QED
        BY <1>4, <2>1, <3>1 DEF Fraction
    <2>3. Decimal(text, k) = Value(a) * Unit(k) + Value(b \o Zeros(k - Len(b)))
      BY <1>1, <1>4, <2>1 DEF Decimal
    <2>4. (Value(a) * Unit(k) + Value(b \o Zeros(k - Len(b)))) * Unit(Len(b))
             = Value(a \o b) * Unit(k)
      BY <2>2, FractionExact
    <2> QED
      BY ONLY <1>4, <2>2, <2>3, <2>4
  <1> QED
    BY <1>2, <1>3, <1>4, CanonicalParts

LEMMA PercentIsExact ==
    ASSUME NEW text \in Seq(Character), ParsePercentBPS(text) # Invalid
    PROVE  ParsePercentBPS(text) * Unit(Fraction(text)) = Value(RemoveFirst(text, Point)) * Unit(2)
  <1> DEFINE parts == Parts(text)
             bps == Value(parts[1]) * Unit(2)
                       + (IF Len(parts) = 1 THEN 0
                          ELSE Value(parts[2] \o Zeros(2 - Len(parts[2]))))
  <1>1. /\ \A i \in DOMAIN parts : IsNumber(parts[i])
        /\ ~(Len(parts) = 2 /\ Len(parts[2]) > 2)
        /\ ParsePercentBPS(text) = bps
    BY DEF ParsePercentBPS
  <1>2. CASE /\ Point \notin ToSet(text) /\ parts = <<text>> /\ Len(parts) = 1
             /\ text \in Numbers /\ RemoveFirst(text, Point) = text
    <2>1. bps = Value(text) * Unit(2)
      <3>1. parts[1] = text
        BY <1>2
      <3>2. Value(text) \in Nat /\ Unit(2) \in Nat
        BY <1>2, NumberIsSeq, ValueConcat, UnitIs
      <3>3. \A x, y \in Nat : x * y + 0 = x * y
        OBVIOUS
      <3> QED
        BY <1>2, <3>1, <3>2, <3>3
    <2> HIDE DEF bps
    <2> QED
      BY <1>1, <1>2, <2>1, WrittenWhole
  <1>3. ASSUME Point \in ToSet(text), Len(parts) = 2,
               NEW a \in Numbers, NEW b \in Numbers,
               parts[1] = a, parts[2] = b, Len(b) = Len(text) - Whole(text) - 1,
               RemoveFirst(text, Point) = a \o b
        PROVE  ParsePercentBPS(text) * Unit(Fraction(text))
                  = Value(RemoveFirst(text, Point)) * Unit(2)
    <2>1. Len(b) <= 2 /\ Fraction(text) = Len(b)
      <3>1. Len(b) \in Nat
        BY NumberIsSeq
      <3> QED
        BY <1>1, <1>3, <3>1 DEF Fraction
    <2>2. bps = Value(a) * Unit(2) + Value(b \o Zeros(2 - Len(b)))
      BY <1>3
    <2> HIDE DEF bps
    <2> QED
      BY <1>1, <1>3, <2>1, <2>2, FractionExact
  <1> QED
    BY <1>1, <1>2, <1>3, CanonicalParts

\* A number has no point, and the point of two numbers is between them.
LEMMA PartsOf ==
    ASSUME NEW a \in Numbers, NEW b \in Numbers
    PROVE  Parts(a) = <<a>> /\ Parts(a \o <<Point>> \o b) = <<a, b>>
  <1> DEFINE text == a \o <<Point>> \o b
             n == Len(a)
             m == Len(b)
  <1>1. /\ a \in Seq(Character) /\ n \in Nat /\ \A i \in 1..n : a[i] # Point
        /\ b \in Seq(Character) /\ m \in Nat
        /\ DOMAIN a = 1..n
    BY NumberIs, LenProperties
  <1>2. <<Point>> \in Seq(Character) /\ Len(<<Point>>) = 1 /\ <<Point>>[1] = Point
    BY DEF Character
  <1>3. Parts(a) = <<a>>
    BY <1>1 DEF Parts, ToSet
  <1> DEFINE front == a \o <<Point>>
  <1>4. /\ front \in Seq(Character) /\ Len(front) = n + 1
        /\ \A i \in 1..n : front[i] = a[i]
        /\ front[n + 1] = Point
    <2>1. /\ front \in Seq(Character) /\ Len(front) = n + 1
          /\ \A i \in 1..(n + 1) : front[i] = IF i <= n THEN a[i] ELSE <<Point>>[i - n]
      <3>1. /\ front \in Seq(Character) /\ Len(front) = Len(a) + Len(<<Point>>)
            /\ \A i \in 1..(Len(a) + Len(<<Point>>)) :
                  front[i] = IF i <= Len(a) THEN a[i] ELSE <<Point>>[i - Len(a)]
        BY <1>1, <1>2, ConcatProperties
      <3> HIDE DEF front
      <3> QED
        BY <1>2, <3>1
    <2>2. n + 1 \in 1..(n + 1) /\ ~(n + 1 <= n) /\ (n + 1) - n = 1
      BY <1>1
    <2>3. \A i \in 1..n : i \in 1..(n + 1) /\ i <= n
      BY <1>1
    <2> HIDE DEF front
    <2> QED
      BY <1>2, <2>1, <2>2, <2>3
  <1> HIDE DEF front
  <1>5. /\ text \in Seq(Character) /\ Len(text) = n + 1 + m
        /\ \A i \in 1..n : text[i] = a[i]
        /\ text[n + 1] = Point
        /\ \A i \in 1..m : text[n + 1 + i] = b[i]
    <2>1. /\ front \o b \in Seq(Character) /\ Len(front \o b) = Len(front) + m
          /\ \A i \in 1..(Len(front) + m) :
                (front \o b)[i] = IF i <= Len(front) THEN front[i] ELSE b[i - Len(front)]
      BY <1>1, <1>4, ConcatProperties
    <2>2. text = front \o b
      BY DEF front
    <2> HIDE DEF text
    <2>3. \A i \in 1..(n + 1) : text[i] = front[i]
      BY <1>1, <1>4, <2>1, <2>2
    <2>4. \A i \in 1..m : text[n + 1 + i] = b[i]
      <3> SUFFICES ASSUME NEW i \in 1..m PROVE text[n + 1 + i] = b[i]
        OBVIOUS
      <3>1. n + 1 + i \in 1..(Len(front) + m) /\ ~(n + 1 + i <= Len(front))
            /\ n + 1 + i - Len(front) = i
        BY <1>1, <1>4
      <3> QED
        BY <2>1, <2>2, <3>1
    <2> QED
      BY <1>1, <1>4, <2>1, <2>2, <2>3, <2>4
  <1> HIDE DEF text
  <1>6. Point \in ToSet(text)
    <2>1. n + 1 \in DOMAIN text
      BY <1>1, <1>5, LenProperties
    <2> QED
      BY <1>5, <2>1 DEF ToSet
  <1>7. Whole(text) = n
    <2> DEFINE w == Whole(text)
    <2>1. w \in 0..(n + m) /\ text[w + 1] = Point /\ \A i \in 1..w : text[i] # Point
      <3>1. /\ w \in 0..(Len(text) - 1) /\ text[w + 1] = Point
            /\ \A i \in 1..w : text[i] # Point
        BY <1>5, <1>6, FirstPoint
      <3>2. Len(text) - 1 = n + m
        BY <1>1, <1>5
      <3> QED
        BY <3>1, <3>2
    <2> HIDE DEF w
    <2>2. ~(w < n)
      <3> SUFFICES ASSUME w < n PROVE FALSE
        OBVIOUS
      <3>1. w + 1 \in 1..n
        BY <1>1, <2>1
      <3> QED
        BY <1>1, <1>5, <2>1, <3>1
    <2>3. ~(w > n)
      <3> SUFFICES ASSUME w > n PROVE FALSE
        OBVIOUS
      <3>1. n + 1 \in 1..w
        BY <1>1, <2>1
      <3> QED
        BY <1>5, <2>1, <3>1
    <2>4. w = n
      BY <1>1, <2>1, <2>2, <2>3
    <2> QED
      BY <2>4 DEF w
  <1>8. SubSeq(text, 1, n) = a
    <2> DEFINE s == SubSeq(text, 1, n)
    <2>1. \A i \in 1..n : text[i] \in Character
      BY <1>1, <1>5, ElementOfSeq
    <2>2. /\ s \in Seq(Character) /\ Len(s) = IF 1 <= n THEN n - 1 + 1 ELSE 0
          /\ \A i \in 1..(n - 1 + 1) : s[i] = text[1 + i - 1]
      BY <1>1, <2>1, SubSeqProperties
    <2> HIDE DEF s
    <2>3. Len(s) = n
      BY <1>1, <2>2
    <2>4. ASSUME NEW i \in 1..n PROVE s[i] = a[i]
      <3>1. i \in 1..(n - 1 + 1) /\ 1 + i - 1 = i
        BY <1>1
      <3> QED
        BY <1>5, <2>2, <3>1
    <2>5. s = a
      BY <1>1, <2>2, <2>3, <2>4, SeqEqual
    <2> QED
      BY <2>5 DEF s
  <1>9. SubSeq(text, n + 2, Len(text)) = b
    <2> DEFINE high == n + 1 + m
               low == n + 2
               s == SubSeq(text, low, high)
    <2>1. \A i \in low..high : text[i] \in Character
      <3>1. \A i \in low..high : i \in 1..Len(text)
        BY <1>1, <1>5
      <3> QED
        BY <1>5, <3>1, ElementOfSeq
    <2>2. /\ low \in Int /\ high \in Int /\ high - low + 1 = m
          /\ m = IF low <= high THEN m ELSE 0
      BY <1>1
    <2>3. /\ s \in Seq(Character)
          /\ Len(s) = IF low <= high THEN high - low + 1 ELSE 0
          /\ \A i \in 1..(high - low + 1) : s[i] = text[low + i - 1]
      <3> HIDE DEF low, high
      <3> QED
        BY <2>1, <2>2, SubSeqProperties
    <2>4. Len(s) = m
      <3> HIDE DEF low, high, s
      <3> QED
        BY <2>2, <2>3
    <2>5. ASSUME NEW i \in 1..m PROVE s[i] = b[i]
      <3>1. low + i - 1 = n + 1 + i
        BY <1>1
      <3> HIDE DEF low, high, s
      <3> QED
        BY <1>5, <2>2, <2>3, <3>1
    <2> HIDE DEF s
    <2>6. s = b
      BY <1>1, <2>3, <2>4, <2>5, SeqEqual
    <2> QED
      BY <1>5, <2>6 DEF s
  <1>10. Parts(text) = <<a, b>>
    BY <1>5, <1>6, <1>7, <1>8, <1>9 DEF Parts
  <1> QED
    BY <1>3, <1>10 DEF text

\* What is cut off at the end is zeros.
LEMMA TrimRightIs ==
    ASSUME NEW s \in Numbers
    PROVE  \E k \in 0..Len(s) :
              /\ TrimRight(s) \in Numbers /\ Len(TrimRight(s)) = k
              /\ s = TrimRight(s) \o Zeros(Len(s) - k)
  <1> DEFINE n == Len(s)
             kept == {k \in 0..n : \A i \in (k + 1)..n : s[i] = 0}
             k == CHOOSE j \in kept : \A other \in kept : j <= other
             D == 0..(Base - 1)
             t == SubSeq(s, 1, k)
  <1>1. n \in Nat /\ s \in Seq(D) /\ \A i \in 1..n : s[i] \in D
    BY NumberIs DEF Numbers
  <1>2. kept \subseteq Nat /\ n \in kept
    BY <1>1
  <1>3. k \in kept
    <2>1. \E j \in kept : \A other \in kept : j <= other
      <3> HIDE DEF kept
      <3> QED
        BY <1>2, LeastNatural
    <2> HIDE DEF kept
    <2> QED
      BY <2>1
  <1>4. TrimRight(s) = t
    BY DEF TrimRight
  <1> HIDE DEF k
  <1>5. k \in 0..n /\ \A i \in (k + 1)..n : s[i] = 0
    BY <1>3
  <1> HIDE DEF D, n
  <1>6. t \in Seq(D) /\ Len(t) = k /\ \A i \in 1..k : t[i] = s[i]
    <2>1. \A i \in 1..k : s[i] \in D
      BY <1>1, <1>5
    <2>2. /\ t \in Seq(D) /\ Len(t) = IF 1 <= k THEN k - 1 + 1 ELSE 0
          /\ \A i \in 1..(k - 1 + 1) : t[i] = s[1 + i - 1]
      BY <1>1, <1>5, <2>1, SubSeqProperties
    <2> HIDE DEF t
    <2>3. \A i \in 1..k : i \in 1..(k - 1 + 1) /\ 1 + i - 1 = i
      BY <1>1, <1>5
    <2>4. Len(t) = k
      BY <1>1, <1>5, <2>2
    <2> QED
      BY <2>2, <2>3, <2>4
  <1> HIDE DEF t
  <1>7. s = t \o Zeros(n - k)
    <2>1. n - k \in Nat
      BY <1>1, <1>5
    <2>2. Zeros(n - k) \in Seq(Nat) /\ Len(Zeros(n - k)) = n - k
          /\ \A i \in 1..(n - k) : Zeros(n - k)[i] = 0
      BY <2>1, ZerosAre
    <2>3. D \subseteq Nat
      BY DEF D
    <2>4. s \in Seq(Nat) /\ t \in Seq(Nat)
      BY <1>1, <1>6, <2>3, SeqMonotonic
    <2> DEFINE z == Zeros(n - k)
               c == t \o z
    <2>5. /\ c \in Seq(Nat) /\ Len(c) = Len(t) + Len(z)
          /\ \A i \in 1..(Len(t) + Len(z)) : c[i] = IF i <= Len(t) THEN t[i] ELSE z[i - Len(t)]
      BY <2>2, <2>4, ConcatProperties
    <2> HIDE DEF z, c
    <2>6. Len(z) = n - k /\ \A i \in 1..(n - k) : z[i] = 0
      BY <2>2 DEF z
    <2>7. Len(c) = n
      BY <1>1, <1>5, <1>6, <2>5, <2>6
    <2>8. ASSUME NEW i \in 1..n PROVE s[i] = c[i]
      <3>1. i \in 1..(Len(t) + Len(z))
        BY <1>1, <1>5, <1>6, <2>6
      <3>2. CASE i <= k
        <4>1. i \in 1..k
          BY <1>1, <1>5, <3>2
        <4> QED
          BY <1>6, <2>5, <3>1, <3>2, <4>1
      <3>3. CASE ~(i <= k)
        <4>1. i \in (k + 1)..n /\ i - k \in 1..(n - k)
          BY <1>1, <1>5, <3>3
        <4>2. c[i] = z[i - k]
          BY <1>6, <2>5, <3>1, <3>3
        <4> QED
          BY <1>5, <2>6, <4>1, <4>2
      <3> QED
        BY <3>2, <3>3
    <2>9. s = c
      BY <1>1, <2>4, <2>5, <2>7, <2>8, SeqEqual DEF n
    <2> QED
      BY <2>9 DEF c, z
  <1> QED
    BY <1>4, <1>5, <1>6, <1>7 DEF n, D, Numbers

\* What is left of a text is a text.
LEMMA TrimSpaceIs ==
    ASSUME NEW text \in Seq(Character)
    PROVE  TrimSpace(text) \in Seq(Character)
  <1> DEFINE n == Len(text)
             kept == {i \in DOMAIN text : text[i] # Blank}
  <1>1. n \in Nat /\ DOMAIN text = 1..n /\ \A i \in 1..n : text[i] \in Character
    BY LenProperties, ElementOfSeq
  <1>2. kept \in SUBSET (1..n)
    BY <1>1
  <1>3. TrimSpace(text) = IF kept = {} THEN <<>> ELSE SubSeq(text, Min(kept), Max(kept))
    BY DEF TrimSpace
  <1> HIDE DEF kept, n
  <1>4. CASE kept = {}
    BY <1>3, <1>4
  <1>5. CASE kept # {}
    <2>1. Max(kept) \in kept
      BY <1>1, <1>2, <1>5, MaxIs
    <2>2. kept \subseteq Nat
      BY <1>1, <1>2
    <2>3. Min(kept) \in kept
      BY <1>5, <2>2, MinIs
    <2> DEFINE low == Min(kept)
               high == Max(kept)
    <2>4. low \in 1..n /\ high \in 1..n
      BY <1>2, <2>1, <2>3
    <2>5. low \in Int /\ high \in Int /\ \A i \in low..high : i \in 1..n
      <3> HIDE DEF low, high
      <3> QED
        BY <1>1, <2>4
    <2>6. SubSeq(text, low, high) \in Seq(Character)
      <3> HIDE DEF low, high
      <3> QED
        BY <1>1, <2>5, SubSeqProperties
    <2> QED
      BY <1>3, <1>5, <2>6
  <1> QED
    BY <1>4, <1>5

\* A text with no blanks is left as it is.
LEMMA NothingToTrim ==
    ASSUME NEW text \in Seq(Character \ {Blank}), text # <<>>
    PROVE  TrimSpace(text) = text
  <1> DEFINE n == Len(text)
             kept == {i \in DOMAIN text : text[i] # Blank}
             D == Character \ {Blank}
  <1>1. text \in Seq(D) /\ \A d \in D : d # Blank
    OBVIOUS
  <1>2. TrimSpace(text) = IF kept = {} THEN <<>> ELSE SubSeq(text, Min(kept), Max(kept))
    BY DEF TrimSpace
  <1> HIDE DEF D
  <1>3. n \in Nat /\ DOMAIN text = 1..n /\ \A i \in 1..n : text[i] \in D
    BY <1>1, LenProperties, ElementOfSeq
  <1>4. n # 0
    BY <1>1, EmptySeq
  <1>5. kept = 1..n
    BY <1>1, <1>3
  <1> HIDE DEF kept, n
  <1>6. 1..n # {} /\ 1..n \subseteq Nat /\ 1 \in 1..n /\ n \in 1..n
    <2>1. 1 \in 1..n /\ n \in 1..n
      BY <1>3, <1>4
    <2>2. 1..n \subseteq Nat
      BY <1>3
    <2> QED
      BY <2>1, <2>2
  <1>7. Min(1..n) \in 1..n /\ \A i \in 1..n : Min(1..n) <= i
    BY <1>6, MinIs
  <1>8. Max(1..n) \in 1..n /\ \A i \in 1..n : i <= Max(1..n)
    BY <1>3, <1>6, MaxIs
  <1>9. Min(1..n) = 1 /\ Max(1..n) = n
    BY <1>3, <1>6, <1>7, <1>8
  <1>10. SubSeq(text, 1, n) = text
    BY <1>1, SubSeqFull DEF n
  <1> QED
    BY <1>2, <1>5, <1>6, <1>9, <1>10

\* An amount that is taken is what the trimmed text says.
LEMMA ParseIsExact ==
    ASSUME NEW text \in Seq(Character), NEW k \in Nat, Parse(text, k) # Invalid
    PROVE  Parse(text, k) * Unit(Fraction(TrimSpace(text)))
              = Value(RemoveFirst(TrimSpace(text), Point)) * Unit(k)
  <1>1. Parse(text, k) = Decimal(TrimSpace(text), k)
    BY DEF Parse
  <1> QED
    BY <1>1, TrimSpaceIs, DecimalIsExact

\* What is written with digits and a point has nothing to trim.
LEMMA WrittenTrims ==
    ASSUME NEW a \in Numbers, a # <<>>, NEW b \in Numbers
    PROVE  /\ TrimSpace(a) = a
           /\ TrimSpace(a \o <<Point>> \o b) = a \o <<Point>> \o b
  <1> DEFINE D == 0..(Base - 1)
             E == Character \ {Blank}
  <1>1. a \in Seq(D) /\ b \in Seq(D)
    BY DEF Numbers
  <1>2. D \subseteq E /\ Point \in E
    BY DEF Character, Point, Blank
  <1> HIDE DEF D
  <1>3. TrimSpace(a) = a
    <2>1. a \in Seq(E)
      <3> HIDE DEF E
      <3> QED
        BY <1>1, <1>2, SeqMonotonic
    <2> QED
      BY <2>1, NothingToTrim
  <1> DEFINE text == a \o <<Point>> \o b
  <1>4. text \in Seq(E) /\ text # <<>>
    <2> HIDE DEF E
    <2>1. a \in Seq(E) /\ b \in Seq(E)
      BY <1>1, <1>2, SeqMonotonic
    <2>2. <<Point>> \in Seq(E) /\ Len(<<Point>>) = 1
      BY <1>2
    <2> DEFINE front == a \o <<Point>>
    <2>3. front \in Seq(E) /\ Len(front) = Len(a) + 1
      BY <2>1, <2>2, ConcatProperties
    <2> HIDE DEF front
    <2>4. front \o b \in Seq(E) /\ Len(front \o b) = Len(front) + Len(b)
      BY <2>1, <2>3, ConcatProperties
    <2>5. Len(a) \in Nat /\ Len(b) \in Nat
      BY <2>1, LenProperties
    <2>6. Len(front \o b) # 0
      BY <2>3, <2>4, <2>5
    <2> QED
      BY <2>4, <2>6 DEF front
  <1> HIDE DEF text
  <1>5. TrimSpace(text) = text
    BY <1>4, NothingToTrim
  <1> QED
    BY <1>3, <1>5 DEF text

\* What is shown, read back, is the amount.
LEMMA FormatIsExact ==
    ASSUME NEW n \in Nat, NEW k \in Nat
    PROVE  Parse(FormatAmount(n, k), k) = n
  <1> DEFINE u == Unit(k)
             q == n \div u
             rest == n % u
             whole == Digits(q)
             fraction == Zeros(k - Len(Digits(rest))) \o Digits(rest)
  <1>1. u \in Nat \ {0}
    BY UnitIs
  <1>2. q \in Nat /\ rest \in 0..(u - 1) /\ n = u * q + rest
    <2> HIDE DEF u
    <2> QED
      BY <1>1, Division
  <1>3. FormatAmount(n, k) = IF rest = 0 THEN whole
                             ELSE whole \o <<Point>> \o TrimRight(fraction)
    BY DEF FormatAmount
  <1> HIDE DEF u, q, rest
  <1>4. /\ whole \in Numbers /\ whole # <<>> /\ Value(whole) = q
        /\ Len(whole) > 1 => whole[1] # 0
    BY <1>2, DigitsAre
  <1>5. IsNumber(whole)
    BY <1>4, NumberIs
  <1>6. u * q = q * u /\ q * u \in Nat
    <2>1. \A x, y \in Nat : x * y = y * x /\ x * y \in Nat
      OBVIOUS
    <2> QED
      BY <1>1, <1>2, <2>1
  <1>7. CASE rest = 0
    <2> HIDE DEF whole
    <2> DEFINE parts == Parts(whole)
    <2>1. parts = <<whole>>
      BY <1>4, PartsOf
    <2>2. parts[1] = whole /\ Len(parts) = 1 /\ DOMAIN parts = {1}
      BY <2>1
    <2>3. Canonical(parts)
      BY <1>4, <1>5, <2>2 DEF Canonical
    <2>4. Decimal(whole, k) = Value(whole) * Unit(k)
      BY <2>2, <2>3 DEF Decimal
    <2>5. Decimal(whole, k) = q * u
      BY <1>4, <2>4 DEF u
    <2>6. n = q * u
      BY <1>2, <1>6, <1>7
    <2>7. TrimSpace(whole) = whole
      BY <1>4, WrittenTrims
    <2> QED
      BY <1>3, <1>7, <2>5, <2>6, <2>7 DEF Parse
  <1>8. CASE rest # 0
    <2> DEFINE d == Digits(rest)
               m == Len(d)
    <2>1. rest \in Nat /\ rest < u
      BY <1>1, <1>2
    <2>2. d \in Numbers /\ d # <<>> /\ Value(d) = rest /\ (m > 1 => rest >= Unit(m - 1))
      BY <2>1, DigitsAre
    <2> HIDE DEF d
    <2>3. d \in Seq(Nat) /\ m \in Nat
      BY <2>2, NumberIsSeq
    <2>4. m <= k
      <3> SUFFICES ASSUME m > k PROVE FALSE
        BY <2>3
      <3>1. k # 0
        <4> SUFFICES ASSUME k = 0 PROVE FALSE
          OBVIOUS
        <4>1. u = 1
          BY UnitIs DEF u
        <4> QED
          BY <1>8, <2>1, <4>1
      <3>2. m > 1 /\ m - 1 \in Nat /\ k \in 0..(m - 1)
        BY <2>3, <3>1
      <3> HIDE DEF m
      <3>3. u <= Unit(m - 1) /\ Unit(m - 1) \in Nat
        BY <3>2, UnitGrows, UnitIs DEF u
      <3> QED
        BY <1>1, <2>1, <2>2, <3>2, <3>3 DEF m
    <2>5. k - m \in Nat
      BY <2>3, <2>4
    <2>6. /\ Zeros(k - m) \in Numbers /\ Zeros(k - m) \in Seq(Nat) /\ Len(Zeros(k - m)) = k - m
      <3> DEFINE z == k - m
      <3>1. Zeros(z) \in Seq(Nat) /\ Len(Zeros(z)) = z /\ \A i \in 1..z : Zeros(z)[i] = 0
        BY <2>5, ZerosAre
      <3>2. 0 \in 0..(Base - 1)
        BY AmountsAssumption
      <3> DEFINE D == 0..(Base - 1)
      <3> HIDE DEF D, z
      <3>3. z \in Nat
        BY <2>5 DEF z
      <3>4. Zeros(z) \in [1..z -> D]
        BY <3>2 DEF Zeros, D
      <3>5. \E j \in Nat : Zeros(z) \in [1..j -> D]
        BY <3>3, <3>4
      <3>6. Zeros(z) \in Seq(D)
        BY ONLY <3>5, SeqDef
      <3> QED
        BY <3>1, <3>6 DEF D, z, Numbers
    <2> DEFINE zeros == Zeros(k - m)
    <2>7. fraction = zeros \o d
      BY DEF d
    <2> HIDE DEF zeros
    <2>8. fraction \in Numbers /\ Len(fraction) = k /\ Value(fraction) = rest
      <3> HIDE DEF fraction
      <3>1. zeros \in Numbers /\ zeros \in Seq(Nat) /\ Len(zeros) = k - m
        BY <2>6 DEF zeros
      <3> DEFINE D == 0..(Base - 1)
      <3>2. zeros \in Seq(D) /\ d \in Seq(D)
        BY <2>2, <3>1 DEF Numbers
      <3> HIDE DEF D
      <3>3. zeros \o d \in Seq(D) /\ Len(zeros \o d) = Len(zeros) + Len(d)
        BY <3>2, ConcatProperties
      <3>4. Len(fraction) = k
        BY <2>3, <2>4, <2>7, <3>1, <3>3
      <3>5. Value(zeros \o d) = Value(d)
        BY <2>3, <2>5, ValueZeros DEF zeros
      <3> QED
        BY <2>2, <2>7, <3>3, <3>4, <3>5 DEF D, Numbers
    <2> HIDE DEF fraction
    <2> DEFINE t == TrimRight(fraction)
    <2>9. PICK j \in 0..k : t \in Numbers /\ Len(t) = j /\ fraction = t \o Zeros(k - j)
      BY <2>8, TrimRightIs
    <2> HIDE DEF t
    <2>10. t # <<>>
      <3> SUFFICES ASSUME t = <<>> PROVE FALSE
        OBVIOUS
      <3>1. t \in Seq(Nat) /\ k - j \in Nat
        BY <2>9, NumberIsSeq
      <3>2. Value(t \o Zeros(k - j)) = Value(t) * Unit(k - j) /\ Unit(k - j) \in Nat
        BY <3>1, ValueZeros, UnitIs
      <3>3. Value(t) = 0
        BY ValueEmpty
      <3>4. \A x \in Nat : 0 * x = 0
        OBVIOUS
      <3>5. Value(fraction) = 0
        BY <2>9, <3>2, <3>3, <3>4
      <3> QED
        BY <1>8, <2>8, <3>5
    <2> HIDE DEF whole
    <2> DEFINE text == whole \o <<Point>> \o t
               parts == Parts(text)
    <2>11. parts = <<whole, t>>
      BY <1>4, <2>9, PartsOf
    <2>12. parts[1] = whole /\ parts[2] = t /\ Len(parts) = 2 /\ DOMAIN parts = {1, 2}
      BY <2>11
    <2>13. IsNumber(t)
      BY <2>9, <2>10, NumberIs
    <2> HIDE DEF text
    <2>14. Canonical(parts)
      BY <1>4, <1>5, <2>12, <2>13 DEF Canonical
    <2>15. ~(Len(parts[2]) > k)
      BY <2>9, <2>12
    <2>16. Decimal(text, k) = Value(whole) * Unit(k) + Value(t \o Zeros(k - Len(t)))
      BY <2>12, <2>14, <2>15 DEF Decimal
    <2>17. Decimal(text, k) = q * u + rest
      BY <1>4, <2>8, <2>9, <2>16 DEF u
    <2>18. n = q * u + rest
      BY <1>2, <1>6
    <2>19. TrimSpace(text) = text
      BY <1>4, <2>9, WrittenTrims DEF text
    <2> QED
      BY <1>3, <1>8, <2>17, <2>18, <2>19 DEF text, t, Parse
  <1> QED
    BY <1>7, <1>8

-----------------------------------------------------------------------------
(* The inputs of the pure functions.                                         *)

\* A behaviour of MCAccounting is one of Shares, or leaves it where it starts.
THEOREM RunsShares == SpecAll => Spec
  <1>1. InitAll => Init
    BY DEF InitAll
  <1>2. [NextAll]_allVars => [Next]_vars
    BY DEF NextAll, Run, allVars
  <1> QED
    BY <1>1, <1>2, PTL DEF SpecAll, Spec

\* The inputs are what their kind says, and no division is of no work: the
\* code refuses it before it divides (store.go:328).
InputOK ==
    /\ "kind" \in DOMAIN input
    /\ Of("text") => input \in Texts
    /\ Of("atomic") => input \in Atomics
    /\ Of("division") => input \in Divisions /\ Selected(input.work) > 0
    /\ Of("target") => input \in Targets
    /\ Of("template") => input \in Templates

LEMMA InitInput == InitAll => InputOK
  <1> SUFFICES ASSUME InitAll PROVE InputOK
    OBVIOUS
  <1>1. \/ \E w \in [Address -> 0..1] :
              Selected(w) > 0 /\ input = [kind |-> "division", work |-> w, reward |-> 1]
        \/ input = [kind |-> "text", text |-> <<>>]
        \/ input = [kind |-> "atomic", n |-> 0]
        \/ input = [kind |-> "target", target |-> 1, difficulty |-> 1]
        \/ input = [kind |-> "none"]
        \/ \E branch \in Branch : input = [kind |-> "template", template |-> Sound(branch)]
    BY DEF InitAll, Seeds
  <1>2. ASSUME NEW w \in [Address -> 0..1], Selected(w) > 0,
               input = [kind |-> "division", work |-> w, reward |-> 1]
        PROVE  InputOK
    <2>1. w \in [Address -> Nat]
      OBVIOUS
    <2> QED
      BY <1>2, <2>1 DEF InputOK, Of, Divisions
  <1>3. CASE input = [kind |-> "target", target |-> 1, difficulty |-> 1]
    <2>1. 1 \in Target
      BY WorkAssumption DEF Target
    <2> QED
      BY <1>3, <2>1 DEF InputOK, Of, Targets
  <1>4. CASE \/ input = [kind |-> "text", text |-> <<>>]
             \/ input = [kind |-> "atomic", n |-> 0]
             \/ input = [kind |-> "none"]
    <2>1. <<>> \in Seq(Character) /\ 0 \in Nat
      OBVIOUS
    <2>2. CASE input = [kind |-> "text", text |-> <<>>]
      BY <2>1, <2>2 DEF InputOK, Of, Texts
    <2>3. CASE input = [kind |-> "atomic", n |-> 0]
      BY <2>1, <2>3 DEF InputOK, Of, Atomics
    <2>4. CASE input = [kind |-> "none"]
      BY <2>4 DEF InputOK, Of
    <2> QED
      BY <1>4, <2>2, <2>3, <2>4
  <1>5. ASSUME NEW branch \in Branch,
               input = [kind |-> "template", template |-> Sound(branch)]
        PROVE  InputOK
    <2>1. Root(<<"c1", "e1", "c2">>, branch) \in Commitments
      BY DEF Commitments
    <2>2. "e1" \in Extra /\ <<"c1", "e1", "c2">> \in Coinbases /\ "p" \in Parent /\ 10 \in Time
      BY DEF Extra, Coinbases, Parent, Time
    <2>3. Sound(branch) \in Template
      BY <2>1, <2>2 DEF Sound, Template, Header, Block
    <2> QED
      BY <1>5, <2>3 DEF InputOK, Of, Templates
  <1> QED
    BY <1>1, <1>2, <1>3, <1>4, <1>5

LEMMA OtherTemplateType ==
    ASSUME NEW t \in Template, NEW other \in OtherTemplate(t)
    PROVE  other \in Template
  BY DEF OtherTemplate, Template

LEMMA NextInput == InputOK /\ [NextAll]_allVars => InputOK'
  <1> SUFFICES ASSUME InputOK, [NextAll]_allVars PROVE InputOK'
    OBVIOUS
  <1>1. CASE input' = input
    BY <1>1 DEF InputOK, Of
  <1>2. CASE Reweigh
    <2>1. PICK a \in Address, w \in 0..MaxWork : input' = [input EXCEPT !.work[a] = w]
      BY <1>2 DEF Reweigh
    <2>2. input \in Divisions /\ Selected(input'.work) > 0
      BY <1>2 DEF Reweigh, InputOK, Of
    <2>3. input' \in Divisions
      BY <2>1, <2>2 DEF Divisions
    <2> QED
      BY <2>2, <2>3 DEF InputOK, Of, Divisions
  <1>3. CASE Reprice
    <2>1. PICK r \in 1..MaxReward : input' = [input EXCEPT !.reward = r]
      BY <1>3 DEF Reprice
    <2>2. input \in Divisions /\ Selected(input.work) > 0
      BY <1>3 DEF Reprice, InputOK, Of
    <2>3. input' \in Divisions /\ input'.work = input.work
      BY <2>1, <2>2 DEF Divisions
    <2> QED
      BY <2>2, <2>3 DEF InputOK, Of, Divisions
  <1>4. CASE Type
    <2>1. PICK c \in Character :
             input' = [input EXCEPT !.text = IF Len(@) < MaxText THEN Append(@, c) ELSE <<c>>]
      BY <1>4 DEF Type
    <2>2. input \in Texts
      BY <1>4 DEF Type, InputOK, Of
    <2>3. \A s \in Seq(Character) : Append(s, c) \in Seq(Character) /\ <<c>> \in Seq(Character)
      OBVIOUS
    <2>4. input' \in Texts
      BY <2>1, <2>2, <2>3 DEF Texts
    <2> QED
      BY <2>4 DEF InputOK, Of, Texts
  <1>5. CASE Count
    <2>1. PICK n \in 0..MaxAtomic : input' = [input EXCEPT !.n = n]
      BY <1>5 DEF Count
    <2>2. input \in Atomics /\ n \in Nat
      BY <1>5 DEF Count, InputOK, Of
    <2>3. input' \in Atomics
      BY <2>1, <2>2 DEF Atomics
    <2> QED
      BY <2>3 DEF InputOK, Of, Atomics
  <1>6. CASE Retarget
    <2>1. input \in Targets
      BY <1>6 DEF Retarget, InputOK, Of
    <2>2. CASE \E t \in Target : input' = [input EXCEPT !.target = t]
      BY <2>1, <2>2 DEF InputOK, Of, Targets
    <2>3. CASE \E d \in 1..(Precision * HashSpace) : input' = [input EXCEPT !.difficulty = d]
      BY <2>1, <2>3 DEF InputOK, Of, Targets
    <2> QED
      BY <1>6, <2>2, <2>3 DEF Retarget
  <1>7. CASE Retemplate
    <2>1. input \in Templates
      BY <1>7 DEF Retemplate, InputOK, Of
    <2>2. PICK t \in OtherTemplate(input.template) : input' = [input EXCEPT !.template = t]
      BY <1>7 DEF Retemplate
    <2>3. t \in Template
      BY <2>1, <2>2, OtherTemplateType DEF Templates
    <2> QED
      BY <2>1, <2>2, <2>3 DEF InputOK, Of, Templates
  <1> QED
    BY <1>1, <1>2, <1>3, <1>4, <1>5, <1>6, <1>7 DEF NextAll, Run, allVars

LEMMA InputInvariance == SpecAll => []InputOK
  BY InitInput, NextInput, PTL DEF SpecAll

\* The allocations of a block sum to its miner credit, for any reward, fee,
\* addresses and work.
THEOREM EverythingIsPaid == SpecAll => []SumsToCredit
  <1>1. InputOK => SumsToCredit
    BY DivisionSums DEF InputOK, SumsToCredit, Divisions
  <1> QED
    BY <1>1, InputInvariance, PTL

\* The division is fair, for any reward, fee, addresses and work.
THEOREM EveryDivisionIsFair == SpecAll => []DivisionIsFair
  <1>1. InputOK => DivisionIsFair
    BY DivisionFair DEF InputOK, DivisionIsFair, Divisions
  <1> QED
    BY <1>1, InputInvariance, PTL

-----------------------------------------------------------------------------
(* Difficulties and targets.                                                 *)

\* The difficulty of a target is the least that reaches it.
LEMMA DifficultyRoundsUp ==
    ASSUME NEW t \in Target
    PROVE  /\ TargetDifficulty(t) \in Nat \ {0}
           /\ TargetDifficulty(t) * t >= Precision * One
           /\ TargetDifficulty(t) * t <= Precision * One + t - 1
  <1> DEFINE p == Precision * One
             x == p + t - 1
  <1>1. t \in Nat /\ t >= 1 /\ p \in Nat /\ p >= 1
    <2>1. Precision \in Nat /\ Precision >= 1 /\ One \in Nat /\ One >= 1
      BY WorkAssumption
    <2>2. Precision * One = (Precision - 1) * One + One /\ (Precision - 1) * One \in Nat
      BY <2>1
    <2> QED
      BY <2>1, <2>2, WorkAssumption DEF Target
  <1> HIDE DEF p
  <1>2. x \in Nat
    BY <1>1
  <1> HIDE DEF x
  <1> DEFINE d == x \div t
             r == x % t
  <1>3. d \in Nat /\ r \in 0..(t - 1) /\ x = t * d + r
    <2>1. t \in Nat \ {0}
      BY <1>1
    <2> QED
      BY ONLY <1>2, <2>1, Division
  <1>4. TargetDifficulty(t) = d
    BY DEF TargetDifficulty, x, p
  <1> HIDE DEF d, r
  <1>5. t * d = d * t /\ d * t \in Nat
    BY <1>1, <1>3
  <1>6. d * t >= p /\ d * t <= p + t - 1
    BY <1>1, <1>3, <1>5 DEF x
  <1>7. d # 0
    <2> SUFFICES ASSUME d = 0 PROVE FALSE
      OBVIOUS
    <2>1. d * t = 0
      BY <1>1
    <2> QED
      BY <1>1, <1>6, <2>1
  <1> QED
    BY <1>3, <1>4, <1>6, <1>7 DEF p

\* A quotient is at least t if and only if t times the divisor still fits.
LEMMA QuotientAtLeast ==
    ASSUME NEW x \in Nat, NEW y \in Nat \ {0}, NEW t \in Nat
    PROVE  /\ x \div y \in Nat
           /\ y * t <= x => t <= x \div y
           /\ x <= y * t => x \div y <= t
  <1> DEFINE q == x \div y
             r == x % y
  <1>1. q \in Nat /\ r \in 0..(y - 1) /\ x = y * q + r
    BY Division
  <1> HIDE DEF q, r
  <1>2. ASSUME y * t <= x PROVE t <= q
    <2> SUFFICES ASSUME q <= t - 1 PROVE FALSE
      BY <1>1
    <2>1. y * q <= y * (t - 1)
      BY <1>1
    <2>2. y * (t - 1) = y * t - y /\ y * q \in Nat /\ y * t \in Nat
      BY <1>1
    <2> QED
      BY <1>1, <1>2, <2>1, <2>2
  <1>3. ASSUME x <= y * t PROVE q <= t
    <2> SUFFICES ASSUME t <= q - 1 PROVE FALSE
      BY <1>1
    <2>1. y * t <= y * (q - 1)
      BY <1>1
    <2>2. y * (q - 1) = y * q - y /\ y * q \in Nat /\ y * t \in Nat
      BY <1>1
    <2> QED
      BY <1>1, <1>3, <2>1, <2>2
  <1> QED
    BY <1>1, <1>2, <1>3 DEF q

\* The target of a difficulty that reaches the block's target is no easier, and
\* of any other is no harder.
LEMMA TargetReached ==
    ASSUME NEW t \in Target, NEW d \in Nat \ {0}
    PROVE  /\ d >= TargetDifficulty(t) => TargetForDifficulty(d) <= t
           /\ d < TargetDifficulty(t) => TargetForDifficulty(d) >= t
           /\ TargetForDifficulty(d) \in Target
  <1> DEFINE p == Precision * One
             D == TargetDifficulty(t)
             q == p \div d
  <1>1. t \in Nat /\ t >= 1 /\ t <= HashSpace - 1 /\ p \in Nat /\ HashSpace \in Nat /\ HashSpace >= 2
    BY WorkAssumption DEF Target
  <1>2. D \in Nat \ {0} /\ D * t >= p /\ D * t <= p + t - 1
    BY DifficultyRoundsUp
  <1> HIDE DEF D, p
  <1>3. /\ q \in Nat
        /\ d * t <= p => t <= q
        /\ p <= d * t => q <= t
    BY <1>1, QuotientAtLeast
  <1> HIDE DEF q
  <1>4. TargetForDifficulty(d) = Clamp(q)
    BY DEF TargetForDifficulty, q, p
  <1>5. ASSUME d >= D PROVE q <= t
    <2>1. d * t = D * t + (d - D) * t /\ (d - D) * t \in Nat /\ D * t \in Nat
      BY <1>1, <1>2, <1>5
    <2>2. p <= d * t
      BY <1>1, <1>2, <2>1
    <2> QED
      BY <1>3, <2>2
  <1>6. ASSUME d < D PROVE t <= q
    <2>1. D * t = (d + 1) * t + (D - d - 1) * t /\ (D - d - 1) * t \in Nat
      BY <1>1, <1>2, <1>6
    <2>2. (d + 1) * t = d * t + t /\ d * t \in Nat
      BY <1>1
    <2>3. d * t <= p
      BY <1>1, <1>2, <2>1, <2>2
    <2> QED
      BY <1>3, <2>3
  <1>7. /\ Clamp(q) \in Target
        /\ q <= t => Clamp(q) <= t
        /\ t <= q => Clamp(q) >= t
    BY <1>1, <1>3 DEF Clamp, Target
  <1> QED
    BY <1>4, <1>5, <1>6, <1>7 DEF D

\* No solved block is turned away, and no share that meets the difficulty the
\* miner was told, whatever the target and the difficulty of the connection and
\* however coarse a difficulty can be written.
THEOREM NothingIsRefused == SpecAll => []NoWorkIsRefused
  <1>1. ASSUME NEW t \in Target, NEW d \in Nat \ {0}
        PROVE  LET told == ShareOf(t, d).difficulty
               IN \A hash \in 0..TargetForDifficulty(told) \cup 0..t :
                     Verdict(hash, t, d).accepted
    <2> DEFINE D == TargetDifficulty(t)
               s == ShareOf(t, d)
    <2>1. t \in Nat /\ D \in Nat \ {0} /\ TargetForDifficulty(d) \in Nat /\ TargetForDifficulty(D) \in Nat
      <3>1. D \in Nat \ {0}
        BY DifficultyRoundsUp
      <3>2. TargetForDifficulty(d) \in Target /\ TargetForDifficulty(D) \in Target
        BY <3>1, TargetReached
      <3> QED
        BY <3>1, <3>2 DEF Target
    <2> SUFFICES ASSUME NEW hash \in 0..TargetForDifficulty(s.difficulty) \cup 0..t
                 PROVE  hash <= s.target
      BY DEF Verdict
    <2>2. CASE d >= D
      <3>1. s.difficulty = D /\ s.target = t
        BY <2>2 DEF ShareOf
      <3>2. TargetForDifficulty(D) <= t
        BY <2>1, TargetReached
      <3> HIDE DEF s, D
      <3> QED
        BY <2>1, <3>1, <3>2
    <2>3. CASE ~(d >= D)
      <3>1. s.difficulty = d /\ s.target = TargetForDifficulty(d)
        BY <2>3 DEF ShareOf
      <3>2. t <= TargetForDifficulty(d)
        BY <2>1, <2>3, TargetReached
      <3> HIDE DEF s, D
      <3> QED
        BY <2>1, <3>1, <3>2
    <2> QED
      BY <2>2, <2>3
  <1>2. InputOK => NoWorkIsRefused
    BY <1>1 DEF InputOK, NoWorkIsRefused, Targets
  <1> QED
    BY <1>2, InputInvariance, PTL

\* The block that is submitted has the header that was hashed, for every
\* template the walk reaches.
THEOREM SolvedBlocksMatch == SpecAll => []SolvedIsHashed
  <1> DEFINE A == {<<2, "a">>, <<2, "b">>}
  <1>1. Branch \subseteq Seq(A)
    BY DEF Branch
  <1> HIDE DEF A
  <1>2. ASSUME NEW t \in Template PROVE IsTemplate(t, A)
    BY <1>1 DEF Template, Block, IsTemplate
  <1>3. InputOK => SolvedIsHashed
    BY <1>2, SolvedMatches DEF InputOK, SolvedIsHashed, Templates
  <1> QED
    BY <1>3, InputInvariance, PTL

\* Whatever amount or percentage a configuration holds and whatever amount the
\* ledger holds, in whatever unit: what is accepted is what is written, and
\* what is shown is what is there.
THEOREM EveryAmountIsExact == SpecAll => []AmountsAreExact
  <1>1. InputOK => AmountsAreExact
    <2> SUFFICES ASSUME InputOK PROVE AmountsAreExact
      OBVIOUS
    <2>1. ASSUME Of("text"), NEW k \in 0..MaxDecimals,
                 Parse(input.text, k) # Invalid
          PROVE  Parse(input.text, k) * Unit(Fraction(TrimSpace(input.text)))
                    = Value(RemoveFirst(TrimSpace(input.text), Point)) * Unit(k)
      BY <2>1, ParseIsExact DEF InputOK, Texts
    <2>2. ASSUME Of("text"), ParsePercentBPS(input.text) # Invalid
          PROVE  ParsePercentBPS(input.text) * Unit(Fraction(input.text))
                    = Value(RemoveFirst(input.text, Point)) * Unit(2)
      BY <2>2, PercentIsExact DEF InputOK, Texts
    <2>3. ASSUME Of("atomic"), NEW k \in 0..MaxDecimals
          PROVE  Parse(FormatAmount(input.n, k), k) = input.n
      BY <2>3, FormatIsExact DEF InputOK, Atomics
    <2> QED
      BY <2>1, <2>2, <2>3 DEF AmountsAreExact, Exactly
  <1> QED
    BY <1>1, InputInvariance, PTL
=============================================================================

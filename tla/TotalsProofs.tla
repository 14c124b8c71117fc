---------------------------- MODULE TotalsProofs ----------------------------
(* What a total is: a natural, additive in its set, monotone, and dependent  *)
(* on nothing but the amounts of its set.                                    *)
EXTENDS Totals, FiniteSetTheorems, TLAPS

\* The units of one owner: as many as the amount.
LEMMA OneOwner ==
    ASSUME NEW x, NEW n \in Nat
    PROVE  /\ IsFiniteSet({x} \X (1..n))
           /\ Cardinality({x} \X (1..n)) = n
  <1>1. IsFiniteSet({x}) /\ Cardinality({x}) = 1
    BY FS_Singleton
  <1>2. IsFiniteSet(1..n) /\ Cardinality(1..n) = n
    BY FS_Interval
  <1> DEFINE A == {x}
             B == 1..n
  <1>3. IsFiniteSet(A) /\ Cardinality(A) = 1 /\ IsFiniteSet(B) /\ Cardinality(B) = n
    BY <1>1, <1>2
  <1> HIDE DEF A, B
  <1>4. IsFiniteSet(A \X B) /\ Cardinality(A \X B) = Cardinality(A) * Cardinality(B)
    BY <1>3, FS_Product
  <1>5. Cardinality(A \X B) = n
    BY <1>3, <1>4
  <1> QED
    BY <1>4, <1>5 DEF A, B

\* A finite set of amounts has finitely many units.
LEMMA UnitsFinite ==
    ASSUME NEW S, IsFiniteSet(S), NEW f, \A x \in S : f[x] \in Nat
    PROVE  IsFiniteSet(UnitsOf(S, f))
  <1> DEFINE T == {{x} \X (1..f[x]) : x \in S}
             g == [x \in S |-> {x} \X (1..f[x])]
  <1>1. g \in Surjection(S, T)
    BY DEF Surjection
  <1>2. IsFiniteSet(T)
    BY <1>1, FS_Surjection
  <1>3. ASSUME NEW x \in S PROVE IsFiniteSet({x} \X (1..f[x]))
    <2>1. f[x] \in Nat
      OBVIOUS
    <2> QED
      BY <2>1, OneOwner
  <1> QED
    BY <1>2, <1>3, FS_UNION, Zenon DEF UnitsOf

\* A total of naturals is a natural.
LEMMA TotalType ==
    ASSUME NEW S, IsFiniteSet(S), NEW f, \A x \in S : f[x] \in Nat
    PROVE  Total(S, f) \in Nat
  BY UnitsFinite, FS_CardinalityType DEF Total

\* Nothing to add: zero.
LEMMA TotalEmpty ==
    ASSUME NEW f
    PROVE  Total({}, f) = 0
  <1>1. UnitsOf({}, f) = {}
    BY DEF UnitsOf
  <1> QED
    BY <1>1, FS_EmptySet DEF Total

\* One more element adds its own amount.
LEMMA TotalAdd ==
    ASSUME NEW S, IsFiniteSet(S), NEW x, x \notin S,
           NEW f, \A y \in S \cup {x} : f[y] \in Nat
    PROVE  Total(S \cup {x}, f) = Total(S, f) + f[x]
  <1> DEFINE U == UnitsOf(S, f)
             V == {x} \X (1..f[x])
  <1>1. UnitsOf(S \cup {x}, f) = U \cup V
    BY DEF UnitsOf
  <1>2. U \cap V = {}
    BY DEF UnitsOf
  <1>3. IsFiniteSet(U) /\ Cardinality(U) \in Nat
    BY UnitsFinite, FS_CardinalityType
  <1>4. IsFiniteSet(V) /\ Cardinality(V) = f[x] /\ f[x] \in Nat
    BY OneOwner
  <1>5. Cardinality(U \cap V) = 0
    BY <1>2, FS_EmptySet
  <1> HIDE DEF U, V
  <1>6. Cardinality(U \cup V) = Cardinality(U) + Cardinality(V) - 0
    BY <1>3, <1>4, <1>5, FS_Union
  <1>7. Total(S, f) = Cardinality(U) /\ Total(S \cup {x}, f) = Cardinality(U \cup V)
    BY <1>1 DEF Total, U
  <1> QED
    BY <1>3, <1>4, <1>6, <1>7

\* More elements never make it smaller.
LEMMA TotalMonotone ==
    ASSUME NEW T, IsFiniteSet(T), NEW S \in SUBSET T,
           NEW f, \A x \in T : f[x] \in Nat
    PROVE  Total(S, f) <= Total(T, f)
  <1>1. UnitsOf(S, f) \subseteq UnitsOf(T, f)
    BY DEF UnitsOf
  <1>2. IsFiniteSet(UnitsOf(T, f))
    BY UnitsFinite
  <1> QED
    BY <1>1, <1>2, FS_Subset DEF Total

\* Larger amounts make a larger total.
LEMMA TotalPointwise ==
    ASSUME NEW S, IsFiniteSet(S), NEW f, NEW g,
           \A x \in S : f[x] \in Nat /\ g[x] \in Nat /\ f[x] <= g[x]
    PROVE  Total(S, f) <= Total(S, g)
  <1>1. UnitsOf(S, f) \subseteq UnitsOf(S, g)
    <2> SUFFICES ASSUME NEW u, NEW x \in S, u \in {x} \X (1..f[x])
                 PROVE  u \in {x} \X (1..g[x])
      BY DEF UnitsOf
    <2>1. 1..f[x] \subseteq 1..g[x]
      OBVIOUS
    <2> QED
      BY <2>1
  <1>2. IsFiniteSet(UnitsOf(S, g))
    BY UnitsFinite
  <1> QED
    BY <1>1, <1>2, FS_Subset DEF Total

\* Only the amounts of the set matter.
LEMMA TotalSame ==
    ASSUME NEW S, NEW f, NEW g, \A x \in S : f[x] = g[x]
    PROVE  Total(S, f) = Total(S, g)
  <1>1. UnitsOf(S, f) = UnitsOf(S, g)
    BY DEF UnitsOf
  <1> QED
    BY <1>1 DEF Total

\* Only the amounts that are not zero count.
LEMMA TotalNonZero ==
    ASSUME NEW T, NEW S \in SUBSET T, NEW f, \A x \in T \ S : f[x] = 0
    PROVE  Total(T, f) = Total(S, f)
  <1>1. \A x \in T \ S : 1..f[x] = {}
    OBVIOUS
  <1>2. UnitsOf(T, f) = UnitsOf(S, f)
    BY <1>1 DEF UnitsOf
  <1> QED
    BY <1>2 DEF Total

\* Induction over the subsets of a finite set, with the subsets for which the
\* claim holds given as a set: a smallest other one cannot be.
LEMMA SetInduction ==
    ASSUME NEW S, IsFiniteSet(S), NEW Good, {} \in Good,
           \A T \in SUBSET S : \A x \in S \ T : T \in Good => T \cup {x} \in Good
    PROVE  S \in Good
  <1> SUFFICES ASSUME S \notin Good PROVE FALSE
    OBVIOUS
  <1> DEFINE Bad == {T \in SUBSET S : T \notin Good}
             R == StrictSubsetOrdering(S)
  <1>1. IsWellFoundedOn(R, SUBSET S)
    BY FS_StrictSubsetOrderingWellFounded, FS_FiniteSubsetsOfFinite
  <1>2. Bad \subseteq SUBSET S /\ Bad # {}
    OBVIOUS
  <1> HIDE DEF Bad, R
  <1>3. PICK T \in Bad : \A U \in Bad : <<U, T>> \notin R
    BY <1>1, <1>2, WFMin
  <1>4. PICK x \in T : TRUE
    BY <1>3 DEF Bad
  <1> DEFINE U == T \ {x}
  <1>5. U \in SUBSET S /\ x \in S \ U /\ T = U \cup {x} /\ U # T /\ U \subseteq T
    BY <1>3, <1>4 DEF Bad
  <1> HIDE DEF U
  <1>6. U \in Good
    BY <1>3, <1>5 DEF Bad, R, StrictSubsetOrdering
  <1> QED
    BY <1>3, <1>5, <1>6 DEF Bad

\* The total of sums is the sum of the totals.
LEMMA TotalPlus ==
    ASSUME NEW S, IsFiniteSet(S), NEW f, NEW g, NEW h,
           \A x \in S : f[x] \in Nat /\ g[x] \in Nat /\ h[x] = f[x] + g[x]
    PROVE  Total(S, h) = Total(S, f) + Total(S, g)
  <1> DEFINE Good == {T \in SUBSET S : Total(T, h) = Total(T, f) + Total(T, g)}
  <1>1. {} \in Good
    BY TotalEmpty
  <1>2. ASSUME NEW T \in SUBSET S, NEW x \in S \ T, T \in Good
        PROVE  T \cup {x} \in Good
    <2>1. IsFiniteSet(T)
      BY FS_Subset
    <2>2. /\ Total(T \cup {x}, f) = Total(T, f) + f[x]
          /\ Total(T \cup {x}, g) = Total(T, g) + g[x]
          /\ Total(T \cup {x}, h) = Total(T, h) + h[x]
      <3>1. \A y \in S : h[y] \in Nat
        OBVIOUS
      <3> QED
        BY <2>1, <3>1, TotalAdd
    <2>3. Total(T, f) \in Nat /\ Total(T, g) \in Nat
      BY <2>1, TotalType
    <2> QED
      BY <1>2, <2>2, <2>3
  <1> HIDE DEF Good
  <1>3. S \in Good
    BY <1>1, <1>2, SetInduction
  <1> QED
    BY <1>3 DEF Good

\* The total of multiples is the multiple of the total.
LEMMA TotalTimes ==
    ASSUME NEW S, IsFiniteSet(S), NEW c \in Nat, NEW f, NEW g,
           \A x \in S : f[x] \in Nat /\ g[x] = c * f[x]
    PROVE  Total(S, g) = c * Total(S, f)
  <1> DEFINE Good == {T \in SUBSET S : Total(T, g) = c * Total(T, f)}
  <1>1. {} \in Good
    BY TotalEmpty
  <1>2. ASSUME NEW T \in SUBSET S, NEW x \in S \ T, T \in Good
        PROVE  T \cup {x} \in Good
    <2>1. IsFiniteSet(T)
      BY FS_Subset
    <2>2. \A y \in S : g[y] \in Nat
      OBVIOUS
    <2>3. /\ Total(T \cup {x}, f) = Total(T, f) + f[x]
          /\ Total(T \cup {x}, g) = Total(T, g) + g[x]
      BY <2>1, <2>2, TotalAdd
    <2>4. Total(T, f) \in Nat /\ f[x] \in Nat
      BY <2>1, TotalType
    <2>5. c * (Total(T, f) + f[x]) = c * Total(T, f) + c * f[x]
      BY <2>4
    <2> QED
      BY <1>2, <2>3, <2>5
  <1> HIDE DEF Good
  <1>3. S \in Good
    BY <1>1, <1>2, SetInduction
  <1> QED
    BY <1>3 DEF Good

\* Amounts within a bound total within its multiple.
LEMMA TotalBound ==
    ASSUME NEW S, IsFiniteSet(S), NEW c \in Nat, NEW f,
           \A x \in S : f[x] \in Nat /\ f[x] <= c
    PROVE  Total(S, f) <= c * Cardinality(S)
  <1> DEFINE Good == {T \in SUBSET S : Total(T, f) <= c * Cardinality(T)}
  <1>1. {} \in Good
    BY TotalEmpty, FS_EmptySet
  <1>2. ASSUME NEW T \in SUBSET S, NEW x \in S \ T, T \in Good
        PROVE  T \cup {x} \in Good
    <2>1. IsFiniteSet(T) /\ Cardinality(T) \in Nat
      BY FS_Subset, FS_CardinalityType
    <2>2. Total(T \cup {x}, f) = Total(T, f) + f[x]
      BY <2>1, TotalAdd
    <2>3. Cardinality(T \cup {x}) = Cardinality(T) + 1
      BY <2>1, FS_AddElement
    <2>4. Total(T, f) \in Nat /\ f[x] \in Nat /\ f[x] <= c
      BY <2>1, TotalType
    <2>5. c * (Cardinality(T) + 1) = c * Cardinality(T) + c /\ c * Cardinality(T) \in Nat
      BY <2>1
    <2> QED
      BY <1>2, <2>2, <2>3, <2>4, <2>5
  <1> HIDE DEF Good
  <1>3. S \in Good
    BY <1>1, <1>2, SetInduction
  <1> QED
    BY <1>3 DEF Good

\* One amount is within the total.
LEMMA TotalPart ==
    ASSUME NEW S, IsFiniteSet(S), NEW x \in S, NEW f, \A y \in S : f[y] \in Nat
    PROVE  f[x] <= Total(S, f)
  <1>1. Total({} \cup {x}, f) = Total({}, f) + f[x]
    BY FS_EmptySet, TotalAdd
  <1>2. Total({x}, f) = f[x]
    <2>1. {} \cup {x} = {x}
      OBVIOUS
    <2> QED
      BY <1>1, <2>1, TotalEmpty
  <1>3. {x} \in SUBSET S
    OBVIOUS
  <1> QED
    BY <1>2, <1>3, TotalMonotone

\* Some natural in a collection of them is the least.
LEMMA LeastNatural ==
    ASSUME NEW I, I \subseteq Nat, I # {}
    PROVE  \E i \in I : \A j \in I : i <= j
  <1> DEFINE R == OpToRel(<, Nat)
  <1>1. \A i, j \in Nat : j < i => <<j, i>> \in R
    BY DEF OpToRel
  <1>2. IsWellFoundedOn(R, Nat)
    BY NatLessThanWellFounded
  <1> HIDE DEF R
  <1>3. PICK i \in I : \A j \in I : <<j, i>> \notin R
    BY <1>2, WFMin
  <1>4. ASSUME NEW j \in I PROVE i <= j
    <2>1. i \in Nat /\ j \in Nat
      BY <1>3, <1>4
    <2>2. ~(j < i)
      BY <1>1, <1>3, <1>4, <2>1
    <2> QED
      BY <2>1, <2>2
  <1> QED
    BY <1>3, <1>4

\* Some subset in a collection of them has no other below it.
LEMMA SmallestSubset ==
    ASSUME NEW S, IsFiniteSet(S), NEW C, C \subseteq SUBSET S, C # {}
    PROVE  \E T \in C : \A U \in C : U \subseteq T => U = T
  <1> DEFINE R == StrictSubsetOrdering(S)
  <1>1. IsWellFoundedOn(R, SUBSET S)
    BY FS_StrictSubsetOrderingWellFounded, FS_FiniteSubsetsOfFinite
  <1> HIDE DEF R
  <1>2. PICK T \in C : \A U \in C : <<U, T>> \notin R
    BY <1>1, WFMin
  <1>3. ASSUME NEW U \in C, U \subseteq T PROVE U = T
    BY <1>2, <1>3 DEF R, StrictSubsetOrdering
  <1> QED
    BY <1>2, <1>3

\* Induction the other way round: the claim is carried to a subset from the
\* same without some element, of its own choosing.
LEMMA SetRemoval ==
    ASSUME NEW S, IsFiniteSet(S), NEW Good, {} \in Good,
           \A T \in SUBSET S : T # {} => \E x \in T : T \ {x} \in Good => T \in Good
    PROVE  S \in Good
  <1> SUFFICES ASSUME S \notin Good PROVE FALSE
    OBVIOUS
  <1> DEFINE Bad == {T \in SUBSET S : T \notin Good}
  <1>1. Bad \subseteq SUBSET S /\ Bad # {}
    OBVIOUS
  <1> HIDE DEF Bad
  <1>2. PICK T \in Bad : \A U \in Bad : U \subseteq T => U = T
    BY <1>1, SmallestSubset
  <1>3. T \in SUBSET S /\ T \notin Good
    BY <1>2 DEF Bad
  <1>4. PICK x \in T : T \ {x} \in Good => T \in Good
    BY <1>3
  <1>5. T \ {x} \in SUBSET S /\ T \ {x} # T /\ T \ {x} \subseteq T
    BY <1>3, <1>4
  <1>6. T \ {x} \in Good
    BY <1>2, <1>5 DEF Bad
  <1> QED
    BY <1>3, <1>4, <1>6

\* Two sets that share nothing total what they total together.
LEMMA TotalUnion ==
    ASSUME NEW S, IsFiniteSet(S), NEW T, IsFiniteSet(T), S \cap T = {},
           NEW f, \A x \in S \cup T : f[x] \in Nat
    PROVE  Total(S \cup T, f) = Total(S, f) + Total(T, f)
  <1> DEFINE U == UnitsOf(S, f)
             V == UnitsOf(T, f)
  <1>1. UnitsOf(S \cup T, f) = U \cup V
    BY DEF UnitsOf
  <1>2. U \cap V = {}
    BY DEF UnitsOf
  <1>3. /\ IsFiniteSet(U) /\ Cardinality(U) \in Nat
        /\ IsFiniteSet(V) /\ Cardinality(V) \in Nat
    BY UnitsFinite, FS_CardinalityType
  <1>4. Cardinality(U \cap V) = 0
    BY <1>2, FS_EmptySet
  <1> HIDE DEF U, V
  <1>5. Cardinality(U \cup V) = Cardinality(U) + Cardinality(V) - 0
    BY <1>3, <1>4, FS_Union
  <1>6. /\ Total(S, f) = Cardinality(U) /\ Total(T, f) = Cardinality(V)
        /\ Total(S \cup T, f) = Cardinality(U \cup V)
    BY <1>1 DEF Total, U, V
  <1> QED
    BY <1>3, <1>5, <1>6

\* One amount is raised.
LEMMA TotalRaise ==
    ASSUME NEW S, IsFiniteSet(S), NEW b \in S, NEW k \in Nat, NEW f, NEW g,
           \A x \in S : f[x] \in Nat /\ g[x] = f[x] + (IF x = b THEN k ELSE 0)
    PROVE  Total(S, g) = Total(S, f) + k
  <1> DEFINE rest == S \ {b}
  <1>1. IsFiniteSet(rest) /\ b \notin rest /\ rest \cup {b} = S
    BY FS_Subset
  <1> HIDE DEF rest
  <1>2. \A x \in S : g[x] \in Nat
    OBVIOUS
  <1>3. Total(S, f) = Total(rest, f) + f[b] /\ Total(S, g) = Total(rest, g) + g[b]
    <2>1. \A x \in rest \cup {b} : f[x] \in Nat /\ g[x] \in Nat
      BY <1>1, <1>2
    <2> QED
      BY <1>1, <2>1, TotalAdd
  <1>4. \A x \in rest : f[x] = g[x]
    BY <1>1
  <1>5. Total(rest, f) = Total(rest, g)
    BY <1>4, TotalSame
  <1>6. Total(rest, f) \in Nat
    BY <1>1, TotalType
  <1> QED
    BY <1>3, <1>5, <1>6

\* A table f with rows S and columns T, its transpose g, and their totals.
Table(S, T, f, g, row, column) ==
    /\ \A x \in S : \A y \in T : f[x][y] \in Nat /\ g[y][x] = f[x][y]
    /\ \A x \in S : row[x] = Total(T, f[x])
    /\ \A y \in T : column[y] = Total(S, g[y])

\* Rows first or columns first.
LEMMA TotalSwap ==
    ASSUME NEW S, IsFiniteSet(S), NEW T, IsFiniteSet(T),
           NEW f, NEW g, NEW row, NEW column, Table(S, T, f, g, row, column)
    PROVE  Total(S, row) = Total(T, column)
  <1> DEFINE part(Q) == [y \in T |-> Total(Q, g[y])]
             Good == {Q \in SUBSET S : Total(Q, row) = Total(T, part(Q))}
  <1>0. /\ \A x \in S : \A y \in T : f[x][y] \in Nat /\ g[y][x] = f[x][y]
        /\ \A x \in S : row[x] = Total(T, f[x])
        /\ \A y \in T : column[y] = Total(S, g[y])
    BY DEF Table
  <1>1. {} \in Good
    <2>1. \A y \in T \ {} : part({})[y] = 0
      BY TotalEmpty
    <2> HIDE DEF part
    <2>2. Total(T, part({})) = Total({}, part({}))
      BY <2>1, TotalNonZero
    <2> QED
      BY <2>2, TotalEmpty
  <1>2. ASSUME NEW Q \in SUBSET S, NEW z \in S \ Q, Q \in Good
        PROVE  Q \cup {z} \in Good
    <2>1. IsFiniteSet(Q) /\ z \notin Q
      BY FS_Subset
    <2>2. row[z] = Total(T, f[z]) /\ \A x \in Q \cup {z} : row[x] \in Nat
      BY <1>0, TotalType
    <2>3. Total(Q \cup {z}, row) = Total(Q, row) + row[z]
      BY <2>1, <2>2, TotalAdd
    <2>4. ASSUME NEW y \in T
          PROVE  /\ part(Q)[y] \in Nat /\ f[z][y] \in Nat
                 /\ part(Q \cup {z})[y] = part(Q)[y] + f[z][y]
      <3> DEFINE h == g[y]
      <3>1. (\A x \in Q \cup {z} : h[x] \in Nat) /\ h[z] = f[z][y] /\ f[z][y] \in Nat
        BY <1>0
      <3>2. part(Q)[y] = Total(Q, h) /\ part(Q \cup {z})[y] = Total(Q \cup {z}, h)
        OBVIOUS
      <3> HIDE DEF h, part
      <3>3. Total(Q, h) \in Nat
        BY <2>1, <3>1, TotalType
      <3>4. Total(Q \cup {z}, h) = Total(Q, h) + h[z]
        BY <2>1, <3>1, TotalAdd
      <3> QED
        BY <3>1, <3>2, <3>3, <3>4
    <2>5. Total(T, part(Q \cup {z})) = Total(T, part(Q)) + Total(T, f[z])
      <3> DEFINE before == part(Q)
                 after == part(Q \cup {z})
                 added == f[z]
      <3>1. \A y \in T : /\ before[y] \in Nat /\ added[y] \in Nat
                         /\ after[y] = before[y] + added[y]
        BY <2>4
      <3> HIDE DEF before, after, added
      <3>2. Total(T, after) = Total(T, before) + Total(T, added)
        BY <3>1, TotalPlus
      <3> QED
        BY <3>2 DEF before, after, added
    <2> HIDE DEF part
    <2> QED
      BY <1>2, <2>2, <2>3, <2>5
  <1>3. S \in Good
    <2> HIDE DEF Good
    <2> QED
      BY <1>1, <1>2, SetInduction
  <1>4. \A y \in T : part(S)[y] = column[y]
    BY <1>0
  <1>5. Total(T, part(S)) = Total(T, column)
    <2> HIDE DEF part
    <2> QED
      BY <1>4, TotalSame
  <1> QED
    BY <1>3, <1>5
=============================================================================

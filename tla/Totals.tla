------------------------------- MODULE Totals -------------------------------
(* Sums of atomic amounts.  The source adds unbounded naturals (big.Int), so *)
(* a sum is the number of atomic units: one unit per element x and per       *)
(* position up to f[x].  Said this way, the prover can reason about it with  *)
(* what the library knows of finite sets.                                    *)
EXTENDS Integers, FiniteSets

\* The atomic units of the amounts f[x], x in S, told apart by their owner.
UnitsOf(S, f) == UNION {{x} \X (1..f[x]) : x \in S}

\* The sum of f[x] over x in S.
Total(S, f) == Cardinality(UnitsOf(S, f))
=============================================================================

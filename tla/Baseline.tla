------------------------------- MODULE Baseline -------------------------------
(***************************************************************************)
(* What the cortex learns of the readings and how it measures one against  *)
(* it: the incremental mean and sums of products of internal/brain/        *)
(* welford.go, the distance of internal/brain/mahalanobis.go, and the      *)
(* batch computation of internal/linalg/statistics.go.                     *)
(*                                                                         *)
(* The arithmetic is exact.  A mean or a sum of products is an integer in  *)
(* units of 1 / Scale; with Scale a common multiple of 1, 2, 1 * 2, 2 * 3  *)
(* ... up to the number of samples every division below has no remainder.  *)
(* The inverse of the covariance is written out for two variables; a       *)
(* distance is a quotient that is kept squared, as its root is only ever   *)
(* compared.                                                               *)
(***************************************************************************)
EXTENDS Integers, Sequences

CONSTANTS
  Scale,          \* units per unit of a reading
  MinSamples      \* PredictorConfig.MinSamples

ASSUME ScaleAssumption == Scale \in Nat \ {0}
ASSUME MinSamplesAssumption == MinSamples \in Nat \ {0, 1}

Vars == 1 .. 2
Entries == Vars \X Vars

NewBaseline ==
  [n |-> 0, mean |-> [j \in Vars |-> 0], m2 |-> [e \in Entries |-> 0]]

\* How far a reading is from a mean, in each variable.
Delta(x, mean) == [j \in Vars |-> Scale * x[j] - mean[j]]

Outer(d1, d2) == [e \in Entries |-> (d1[e[1]] * d2[e[2]]) \div Scale]

\* Slip: both factors are taken from the mean before the reading.
UpdateOldMeanTwice(b, x) ==
  LET delta1 == Delta(x, b.mean)
      products == Outer(delta1, delta1)
  IN  [n |-> b.n + 1,
       mean |-> [j \in Vars |-> b.mean[j] + delta1[j] \div (b.n + 1)],
       m2 |-> [e \in Entries |-> b.m2[e] + products[e]]]

\* Learn one more reading: the products are those of its distances from the
\* mean before and after.
Update(b, x) ==
  LET delta1 == Delta(x, b.mean)
      mean == [j \in Vars |-> b.mean[j] + delta1[j] \div (b.n + 1)]
      products == Outer(delta1, Delta(x, mean))
  IN  [n |-> b.n + 1,
       mean |-> mean,
       m2 |-> [e \in Entries |-> b.m2[e] + products[e]]]

Determinant(m2) == m2[<<1, 1>>] * m2[<<2, 2>>] - m2[<<1, 2>>] * m2[<<2, 1>>]

\* Slip: only the first column is searched for a pivot.
SingularFirstPivot(m2) == m2[<<1, 1>>] = 0 /\ m2[<<2, 1>>] = 0

\* Some column has no pivot.
Singular(m2) == Determinant(m2) = 0

\* There are too few samples, or the covariance has no inverse.
NoDistance == [num |-> -1, den |-> 1]

\* (x - mean)^T Cov^-1 (x - mean), where Cov = m2 / (n - 1): the factor n - 1 is
\* left out of the quotient.
SquaredDistance(b, x) ==
  LET d == Delta(x, b.mean)
  IN  [num |->   d[1] * d[1] * b.m2[<<2, 2>>]
               - d[1] * d[2] * (b.m2[<<1, 2>>] + b.m2[<<2, 1>>])
               + d[2] * d[2] * b.m2[<<1, 1>>],
       den |-> Scale * Determinant(b.m2)]

Judged(b, x) ==
  IF b.n < MinSamples \/ Singular(b.m2) THEN NoDistance ELSE SquaredDistance(b, x)

-----------------------------------------------------------------------------
(* The batch computation over all samples at once.                         *)

\* The sum of a sequence, from its first member on.
Total(values) ==
  LET sum[i \in 0 .. Len(values)] == IF i = 0 THEN 0 ELSE sum[i - 1] + values[i]
  IN  sum[Len(values)]

Column(samples, j) == [i \in DOMAIN samples |-> samples[i][j]]

MeanVector(samples) ==
  [j \in Vars |-> (Scale * Total(Column(samples, j))) \div Len(samples)]

\* The covariance, times n - 1.
CentredProducts(samples) ==
  LET mean == MeanVector(samples)
      centred == [i \in DOMAIN samples |-> Delta(samples[i], mean)]
  IN  [e \in Entries |->
         Total([i \in DOMAIN samples |-> centred[i][e[1]] * centred[i][e[2]]]) \div Scale]

=============================================================================

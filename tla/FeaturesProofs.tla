--------------------------- MODULE FeaturesProofs ---------------------------
(***************************************************************************)
(* Proofs about the decile cut of Features, for columns of any length and  *)
(* any values, tied or not.                                                *)
(***************************************************************************)
EXTENDS Features, FiniteSetTheorems, TLAPS

------------------------------------------------------------------------------
(* Quotients. *)

\* The quotient is the number of whole divisors, and what is left is less than one.
LEMMA Quotient ==
    ASSUME NEW a \in Nat, NEW n \in Nat, n > 0
    PROVE  /\ a \div n \in Nat
           /\ (a \div n) * n <= a
           /\ a < (a \div n) * n + n
  OBVIOUS

\* A product grows with its factor.
LEMMA Product ==
    ASSUME NEW n \in Nat, NEW p \in Int, NEW q \in Int, p <= q
    PROVE  p * n <= q * n
  OBVIOUS

\* No other number has the quotient's property.
LEMMA QuotientIs ==
    ASSUME NEW a \in Nat, NEW n \in Nat, n > 0,
           NEW q \in Int, q * n <= a, a < q * n + n
    PROVE  a \div n = q
  <1> DEFINE d == a \div n
  <1>1. d \in Nat /\ d * n <= a /\ a < d * n + n
    BY Quotient
  <1> HIDE DEF d
  <1>2. CASE q + 1 <= d
    <2>1. (q + 1) * n <= d * n
      BY <1>1, <1>2, Product
    <2>2. (q + 1) * n = q * n + n
      OBVIOUS
    <2> QED BY <1>1, <2>1, <2>2
  <1>3. CASE d + 1 <= q
    <2>1. (d + 1) * n <= q * n
      BY <1>1, <1>3, Product
    <2>2. (d + 1) * n = d * n + n
      BY <1>1
    <2> QED BY <1>1, <2>1, <2>2
  <1>4. d = q
    BY <1>1, <1>2, <1>3
  <1> QED BY <1>4 DEF d

------------------------------------------------------------------------------
(* The ranks of a column. *)

\* The rows ranked up to row i.
Upto(values, i) ==
    {j \in DOMAIN values :
        \/ values[j] < values[i]
        \/ values[j] = values[i] /\ j <= i}

\* A column has as many places as rows.
LEMMA Places ==
    ASSUME NEW n \in Nat
    PROVE  IsFiniteSet(1..n) /\ Cardinality(1..n) = n
  <1>1. IsFiniteSet(1..n) /\ Cardinality(1..n) = IF 1 > n THEN 0 ELSE n - 1 + 1
    BY FS_Interval
  <1> QED BY <1>1

\* A rank is one of the places of the column.
LEMMA OrdinalType ==
    ASSUME NEW values \in Seq(Int), NEW i \in DOMAIN values
    PROVE  /\ IsFiniteSet(Upto(values, i))
           /\ Ordinal(values, i) = Cardinality(Upto(values, i))
           /\ Ordinal(values, i) \in 1..Len(values)
  <1>1. Len(values) \in Nat /\ DOMAIN values = 1..Len(values) /\ values[i] \in Int
    OBVIOUS
  <1>2. IsFiniteSet(1..Len(values)) /\ Cardinality(1..Len(values)) = Len(values)
    BY <1>1, Places
  <1>3. Upto(values, i) \in SUBSET (1..Len(values))
    BY <1>1 DEF Upto
  <1>4. i \in Upto(values, i)
    BY <1>1 DEF Upto
  <1>5. /\ IsFiniteSet(Upto(values, i))
        /\ Cardinality(Upto(values, i)) <= Len(values)
    BY <1>2, <1>3, FS_Subset
  <1>6. Cardinality(Upto(values, i)) \in Nat /\ Cardinality(Upto(values, i)) # 0
    BY <1>4, <1>5, FS_CardinalityType, FS_EmptySet
  <1>7. Ordinal(values, i) = Cardinality(Upto(values, i))
    BY DEF Ordinal, Upto
  <1> QED BY <1>1, <1>5, <1>6, <1>7

\* A row of a lower value, or an earlier one of the same value, has a lower rank.
LEMMA OrdinalGrows ==
    ASSUME NEW values \in Seq(Int), NEW i \in DOMAIN values, NEW j \in DOMAIN values,
           values[i] < values[j] \/ (values[i] = values[j] /\ i < j)
    PROVE  Ordinal(values, i) < Ordinal(values, j)
  <1>1. /\ Len(values) \in Nat /\ DOMAIN values = 1..Len(values)
        /\ \A k \in DOMAIN values : values[k] \in Int
    OBVIOUS
  <1>2. Upto(values, i) \in SUBSET Upto(values, j)
    BY <1>1 DEF Upto
  <1>3. j \in Upto(values, j) /\ j \notin Upto(values, i)
    BY <1>1 DEF Upto
  <1>4. /\ Cardinality(Upto(values, i)) <= Cardinality(Upto(values, j))
        /\ Cardinality(Upto(values, i)) # Cardinality(Upto(values, j))
    BY <1>2, <1>3, OrdinalType, FS_Subset
  <1> QED BY <1>1, <1>4, OrdinalType

\* Each place of the column is the rank of one row.
LEMMA OrdinalBijection ==
    ASSUME NEW values \in Seq(Int)
    PROVE  [i \in DOMAIN values |-> Ordinal(values, i)]
                \in Bijection(1..Len(values), 1..Len(values))
  <1> DEFINE n == Len(values)
             rank == [i \in DOMAIN values |-> Ordinal(values, i)]
  <1>1. n \in Nat /\ DOMAIN values = 1..n /\ \A k \in 1..n : values[k] \in Int
    OBVIOUS
  <1>2. rank \in [1..n -> 1..n]
    BY <1>1, OrdinalType
  <1>3. ASSUME NEW i \in 1..n, NEW j \in 1..n, rank[i] = rank[j] PROVE i = j
    <2>1. Ordinal(values, i) = Ordinal(values, j) /\ Ordinal(values, i) \in Int
      BY <1>1, <1>3, OrdinalType
    <2>2. ~(Ordinal(values, i) < Ordinal(values, j)) /\ ~(Ordinal(values, j) < Ordinal(values, i))
      BY <2>1
    <2>3. ~(values[i] < values[j] \/ (values[i] = values[j] /\ i < j))
      BY <1>1, <2>2, OrdinalGrows
    <2>4. ~(values[j] < values[i] \/ (values[j] = values[i] /\ j < i))
      BY <1>1, <2>2, OrdinalGrows
    <2> QED BY <1>1, <2>3, <2>4
  <1>4. rank \in Injection(1..n, 1..n)
    BY <1>2, <1>3 DEF Injection, IsInjective
  <1>5. IsFiniteSet(1..n)
    BY <1>1, FS_Interval
  <1>6. rank \in Surjection(1..n, 1..n)
    <2> HIDE DEF rank, n
    <2> QED BY <1>4, <1>5, FS_Injection
  <1> QED BY <1>4, <1>6 DEF Bijection

------------------------------------------------------------------------------
(* The cut. *)

\* A row is in decile k when its rank's share of the column is in the k-th part.
LEMMA DecileOf ==
    ASSUME NEW values \in Seq(Int), NEW i \in DOMAIN values, NEW k \in Int
    PROVE  Decile(values, i) = k <=>
            /\ (k - 1) * Len(values) < Ordinal(values, i) * Deciles
            /\ Ordinal(values, i) * Deciles <= k * Len(values)
  <1> DEFINE n == Len(values)
             a == Ordinal(values, i) * Deciles - 1
  <1>1. n \in Nat /\ n > 0 /\ Ordinal(values, i) \in 1..n
    BY OrdinalType
  <1>2. Deciles \in Nat /\ Deciles > 0
    BY FeaturesAssumption
  <1>3. Ordinal(values, i) * Deciles \in Int /\ 1 * Deciles <= Ordinal(values, i) * Deciles
    BY <1>1, <1>2, Product
  <1>4. a \in Nat /\ Ordinal(values, i) * Deciles = a + 1
    BY <1>2, <1>3
  <1>5. Decile(values, i) = (a \div n) + 1
    BY DEF Decile
  <1>6. k * n = (k - 1) * n + n /\ (k - 1) * n \in Int
    BY <1>1
  <1> HIDE DEF a, n
  <1>7. /\ a \div n \in Nat
        /\ (a \div n) * n <= a
        /\ a < (a \div n) * n + n
    BY <1>1, <1>4, Quotient
  <1>8. CASE Decile(values, i) = k
    <2>1. a \div n = k - 1
      BY <1>5, <1>7, <1>8
    <2>2. (k - 1) * n <= a /\ a < (k - 1) * n + n
      BY <1>7, <2>1
    <2> QED BY <1>1, <1>4, <1>6, <1>8, <2>2 DEF n
  <1>9. CASE /\ (k - 1) * n < Ordinal(values, i) * Deciles
             /\ Ordinal(values, i) * Deciles <= k * n
    <2>1. (k - 1) * n <= a /\ a < (k - 1) * n + n
      BY <1>1, <1>4, <1>6, <1>9
    <2>2. k - 1 \in Int
      OBVIOUS
    <2>3. a \div n = k - 1
      BY <1>1, <1>4, <2>1, <2>2, QuotientIs
    <2> QED BY <1>5, <1>9, <2>3 DEF n
  <1> QED BY <1>8, <1>9 DEF n

\* The rows of decile k are as many as the places whose share is in the k-th part: those
\* between two quotients.
LEMMA DecileRows ==
    ASSUME NEW values \in Seq(Int), NEW k \in 1..Deciles
    PROVE  LET n == Len(values)
               rows == Cardinality({i \in DOMAIN values : Decile(values, i) = k})
           IN  n > 0 => rows = (k * n) \div Deciles - ((k - 1) * n) \div Deciles
  <1> DEFINE n == Len(values)
             R == {i \in DOMAIN values : Decile(values, i) = k}
             lo == ((k - 1) * n) \div Deciles
             hi == (k * n) \div Deciles
             rank == [i \in DOMAIN values |-> Ordinal(values, i)]
             part == [i \in R |-> rank[i]]
  <1> SUFFICES ASSUME n > 0 PROVE Cardinality(R) = hi - lo
    OBVIOUS
  <1>1. n \in Nat /\ DOMAIN values = 1..n
    OBVIOUS
  <1>2. Deciles \in Nat /\ Deciles > 0 /\ k \in Nat /\ k >= 1 /\ k <= Deciles
    BY FeaturesAssumption
  <1>3. /\ k * n \in Nat /\ (k - 1) * n \in Nat
        /\ (k - 1) * n <= k * n /\ k * n <= Deciles * n
    <2>1. (k - 1) * n <= k * n
      BY <1>1, <1>2, Product
    <2>2. k * n <= Deciles * n
      BY <1>1, <1>2, Product
    <2>3. 0 * n <= (k - 1) * n
      BY <1>1, <1>2, Product
    <2> QED BY <1>1, <1>2, <2>1, <2>2, <2>3
  <1>4. /\ lo \in Nat /\ lo * Deciles <= (k - 1) * n /\ (k - 1) * n < lo * Deciles + Deciles
        /\ hi \in Nat /\ hi * Deciles <= k * n /\ k * n < hi * Deciles + Deciles
    BY <1>2, <1>3, Quotient
  <1> HIDE DEF lo, hi, n
  <1>5. ASSUME NEW o \in Int
        PROVE  /\ (k - 1) * n < o * Deciles <=> lo < o
               /\ o * Deciles <= k * n <=> o <= hi
    <2>1. o <= lo => o * Deciles <= lo * Deciles
      BY <1>2, <1>4, Product
    <2>2. lo + 1 <= o => (lo + 1) * Deciles <= o * Deciles
      BY <1>2, <1>4, Product
    <2>3. o <= hi => o * Deciles <= hi * Deciles
      BY <1>2, <1>4, Product
    <2>4. hi + 1 <= o => (hi + 1) * Deciles <= o * Deciles
      BY <1>2, <1>4, Product
    <2>5. /\ (lo + 1) * Deciles = lo * Deciles + Deciles
          /\ (hi + 1) * Deciles = hi * Deciles + Deciles
      BY <1>2, <1>4
    <2>6. o * Deciles \in Int /\ lo * Deciles \in Int /\ hi * Deciles \in Int
      BY <1>2, <1>4
    <2>7. lo < o <=> lo + 1 <= o
      BY <1>4
    <2>8. ~(o <= hi) <=> hi + 1 <= o
      BY <1>4
    <2> QED BY <1>1, <1>2, <1>3, <1>4, <2>1, <2>2, <2>3, <2>4, <2>5, <2>6, <2>7, <2>8
  <1>6. lo + 1 >= 1 /\ hi <= n /\ lo <= hi
    <2>1. hi * Deciles <= n * Deciles
      BY <1>1, <1>2, <1>3, <1>4
    <2>2. n + 1 <= hi => (n + 1) * Deciles <= hi * Deciles
      BY <1>1, <1>2, <1>4, Product
    <2>3. (n + 1) * Deciles = n * Deciles + Deciles
      BY <1>1, <1>2
    <2>4. hi + 1 <= lo => (hi + 1) * Deciles <= lo * Deciles
      BY <1>2, <1>4, Product
    <2>5. (hi + 1) * Deciles = hi * Deciles + Deciles
      BY <1>2, <1>4
    <2> QED BY <1>1, <1>2, <1>3, <1>4, <2>1, <2>2, <2>3, <2>4, <2>5
  <1>7. \A i \in 1..n : i \in R <=> rank[i] \in lo + 1..hi
    <2> TAKE i \in 1..n
    <2>1. i \in DOMAIN values /\ rank[i] = Ordinal(values, i) /\ Ordinal(values, i) \in Int
      BY <1>1, OrdinalType
    <2>2. Decile(values, i) = k <=>
            /\ (k - 1) * n < Ordinal(values, i) * Deciles
            /\ Ordinal(values, i) * Deciles <= k * n
      BY <1>2, <2>1, DecileOf DEF n
    <2>3. Decile(values, i) = k <=> lo < Ordinal(values, i) /\ Ordinal(values, i) <= hi
      BY <2>1, <2>2, <1>5
    <2> QED BY <1>4, <2>1, <2>3
  <1>8. rank \in Bijection(1..n, 1..n)
    BY OrdinalBijection DEF n
  <1>9. R \subseteq 1..n
    BY <1>1
  <1> HIDE DEF rank, R
  <1>10. /\ rank \in [1..n -> 1..n]
         /\ \A i, j \in 1..n : rank[i] = rank[j] => i = j
         /\ \A o \in 1..n : \E i \in 1..n : rank[i] = o
    BY <1>8 DEF Bijection, Injection, Surjection, IsInjective
  <1>11. part \in [R -> lo + 1..hi]
    BY <1>7, <1>9
  <1>12. part \in Injection(R, lo + 1..hi)
    BY <1>9, <1>10, <1>11 DEF Injection, IsInjective
  <1>13. part \in Surjection(R, lo + 1..hi)
    <2>1. ASSUME NEW o \in lo + 1..hi PROVE \E i \in R : part[i] = o
      <3>1. o \in 1..n
        BY <1>1, <1>4, <1>6
      <3>2. PICK i \in 1..n : rank[i] = o
        BY <1>10, <3>1
      <3>3. i \in R
        BY <1>7, <3>2
      <3> QED BY <3>2, <3>3
    <2> QED BY <1>11, <2>1 DEF Surjection
  <1>14. IsFiniteSet(lo + 1..hi) /\ Cardinality(lo + 1..hi) = hi - lo
    <2>1. lo + 1 \in Int /\ hi \in Int
      BY <1>4
    <2>2. /\ IsFiniteSet(lo + 1..hi)
          /\ Cardinality(lo + 1..hi) = IF lo + 1 > hi THEN 0 ELSE hi - (lo + 1) + 1
      BY <2>1, FS_Interval
    <2> QED BY <1>4, <1>6, <2>2
  <1>15. Cardinality(R) = Cardinality(lo + 1..hi)
    <2> HIDE DEF part
    <2> QED BY <1>12, <1>13, <1>14, FS_Injection
  <1> QED BY <1>14, <1>15

\* Any column is cut into deciles evenly.
THEOREM DecilesAreEven ==
    ASSUME NEW values \in Seq(Int)
    PROVE  Even(values)
  <1> DEFINE n == Len(values)
  <1>1. n \in Nat /\ DOMAIN values = 1..n /\ \A i \in 1..n : values[i] \in Int
    OBVIOUS
  <1>2. Deciles \in Nat /\ Deciles > 0
    BY FeaturesAssumption
  <1>3. ASSUME NEW i \in DOMAIN values
        PROVE  /\ Decile(values, i) \in 1..Deciles
               /\ (Decile(values, i) - 1) * n < Ordinal(values, i) * Deciles
               /\ Ordinal(values, i) * Deciles <= Decile(values, i) * n
    <2> DEFINE k == Decile(values, i)
               o == Ordinal(values, i)
    <2>1. n > 0 /\ o \in 1..n
      BY <1>1, OrdinalType
    <2>2. o * Deciles - 1 \in Nat
      <3>1. 1 * Deciles <= o * Deciles
        BY <1>2, <2>1, Product
      <3> QED BY <1>2, <2>1, <3>1
    <2>3. k - 1 \in Nat /\ k \in Int
      <3> HIDE DEF o, n
      <3>1. (o * Deciles - 1) \div n \in Nat
        BY <1>1, <2>1, <2>2, Quotient
      <3>2. k = (o * Deciles - 1) \div n + 1
        BY DEF Decile, o, n
      <3> QED BY <3>1, <3>2
    <2> HIDE DEF k
    <2>4. (k - 1) * n < o * Deciles /\ o * Deciles <= k * n
      BY <2>3, DecileOf DEF k
    <2> HIDE DEF o, n
    <2>5. k <= Deciles
      <3>1. o * Deciles <= n * Deciles
        BY <1>1, <1>2, <2>1, Product
      <3>2. Deciles <= k - 1 => Deciles * n <= (k - 1) * n
        BY <1>1, <1>2, <2>3, Product
      <3>3. Deciles * n = n * Deciles
        BY <1>1, <1>2
      <3> QED BY <1>1, <1>2, <2>1, <2>3, <2>4, <3>1, <3>2, <3>3
    <2> QED BY <1>2, <2>3, <2>4, <2>5 DEF k, o, n
  <1>4. ASSUME NEW i \in DOMAIN values, NEW j \in DOMAIN values, values[i] < values[j]
        PROVE  Decile(values, i) <= Decile(values, j)
    <2> DEFINE p == Decile(values, i)
               q == Decile(values, j)
               oi == Ordinal(values, i)
               oj == Ordinal(values, j)
    <2>1. oi < oj
      BY <1>4, OrdinalGrows
    <2>2. oi \in Int /\ oj \in Int /\ p \in Int /\ q \in Int
      BY <1>2, <1>3, OrdinalType
    <2>3. (p - 1) * n < oi * Deciles /\ oj * Deciles <= q * n
      BY <1>3
    <2> HIDE DEF p, q, oi, oj, n
    <2>4. oi * Deciles <= oj * Deciles
      BY <1>2, <2>1, <2>2, Product
    <2>5. q <= p - 1 => q * n <= (p - 1) * n
      <3>1. p - 1 \in Int
        BY <2>2
      <3> QED BY <1>1, <2>2, <3>1, Product
    <2>6. (p - 1) * n \in Int /\ q * n \in Int /\ oi * Deciles \in Int /\ oj * Deciles \in Int
      BY <1>1, <1>2, <2>2
    <2>7. ~(q <= p - 1)
      BY <2>3, <2>4, <2>5, <2>6
    <2>8. p <= q
      BY <2>2, <2>7
    <2> QED BY <2>8 DEF p, q
  <1>5. ASSUME NEW k \in 1..Deciles
        PROVE  LET rows == Cardinality({i \in DOMAIN values : Decile(values, i) = k})
               IN  /\ (rows - 1) * Deciles < n
                   /\ (rows + 1) * Deciles > n
    <2> DEFINE R == {i \in DOMAIN values : Decile(values, i) = k}
               rows == Cardinality(R)
               lo == ((k - 1) * n) \div Deciles
               hi == (k * n) \div Deciles
    <2> SUFFICES (rows - 1) * Deciles < n /\ (rows + 1) * Deciles > n
      OBVIOUS
    <2>1. CASE n = 0
      <3>1. R = {}
        BY <1>1, <2>1
      <3>2. rows = 0
        BY <3>1, FS_EmptySet
      <3> QED BY <1>2, <2>1, <3>2
    <2>2. CASE n > 0
      <3>1. rows = hi - lo
        BY <2>2, DecileRows
      <3>2. k * n \in Nat /\ (k - 1) * n \in Nat /\ k * n = (k - 1) * n + n
        <4>1. 0 * n <= (k - 1) * n
          BY <1>1, <1>2, Product
        <4> QED BY <1>1, <1>2, <4>1
      <3>3. /\ lo \in Nat /\ lo * Deciles <= (k - 1) * n /\ (k - 1) * n < lo * Deciles + Deciles
            /\ hi \in Nat /\ hi * Deciles <= k * n /\ k * n < hi * Deciles + Deciles
        BY <1>2, <3>2, Quotient
      <3> HIDE DEF lo, hi, rows, n
      <3>4. /\ (rows - 1) * Deciles = hi * Deciles - lo * Deciles - Deciles
            /\ (rows + 1) * Deciles = hi * Deciles - lo * Deciles + Deciles
        BY <1>2, <3>1, <3>3
      <3> QED BY <1>1, <1>2, <3>2, <3>3, <3>4
    <2> QED BY <1>1, <2>1, <2>2
  <1> QED BY <1>3, <1>4, <1>5 DEF Even

=============================================================================

------------------------ MODULE AccumulatorTheorems ------------------------
(***************************************************************************)
(* Facts about residues modulo the field's order, and what check and merge *)
(* decide and return, for any field and any accumulators: what the proofs  *)
(* about the loop, the commitments and the schemes rest on.                *)
(***************************************************************************)
EXTENDS Accumulator, InductionTheorems

----------------------------------------------------------------------------
(* The field.                                                              *)

\* Every integer splits into a multiple of the modulus and a residue.
LEMMA DivMod ==
    ASSUME NEW x \in Int
    PROVE  /\ x \div Order \in Int
           /\ x % Order \in Scalar
           /\ x = ((x \div Order) * Order) + (x % Order)
BY FieldAssumption DEF Scalar

\* Two residues that differ by a multiple of the modulus are equal.
LEMMA ResidueUnique ==
    ASSUME NEW a \in Scalar, NEW b \in Scalar, NEW q \in Int, a - b = q * Order
    PROVE  a = b
<1>1. CASE q = 0
  BY <1>1, FieldAssumption DEF Scalar
<1>2. CASE q >= 1
  <2>1. q * Order >= Order
    BY <1>2, FieldAssumption
  <2> QED
    BY <2>1, FieldAssumption DEF Scalar
<1>3. CASE q <= -1
  <2>1. q * Order <= -Order
    BY <1>3, FieldAssumption
  <2> QED
    BY <2>1, FieldAssumption DEF Scalar
<1> QED
  BY <1>1, <1>2, <1>3

\* Adding a multiple of the modulus does not change the residue.
LEMMA ModShift ==
    ASSUME NEW x \in Int, NEW k \in Int
    PROVE  (x + k * Order) % Order = x % Order
<1> DEFINE y == x + k * Order
<1>1. y \in Int
  BY FieldAssumption
<1>2. /\ x % Order \in Scalar /\ x \div Order \in Int
      /\ x = ((x \div Order) * Order) + (x % Order)
  BY DivMod
<1>3. /\ y % Order \in Scalar /\ y \div Order \in Int
      /\ y = ((y \div Order) * Order) + (y % Order)
  BY <1>1, DivMod
<1>4. (y % Order) - (x % Order) = ((x \div Order) + k - (y \div Order)) * Order
  BY <1>1, <1>2, <1>3, FieldAssumption DEF Scalar
<1>5. (x \div Order) + k - (y \div Order) \in Int
  BY <1>2, <1>3
<1> QED
  BY <1>2, <1>3, <1>4, <1>5, ResidueUnique

\* The form in which the reduction is used: a residue is its argument plus
\* some multiple of the modulus.
LEMMA ModWitness ==
    ASSUME NEW x \in Int
    PROVE  \E k \in Int : x % Order = x + k * Order
<1>1. /\ x \div Order \in Int /\ x % Order \in Scalar
      /\ x = ((x \div Order) * Order) + (x % Order)
  BY DivMod
<1>2. x % Order = x + (-(x \div Order)) * Order
  BY <1>1, FieldAssumption DEF Scalar
<1> QED
  BY <1>1, <1>2

\* A scalar is its own residue.
LEMMA ModScalar ==
    ASSUME NEW x \in Scalar
    PROVE  x % Order = x
<1>1. /\ x \div Order \in Int /\ x % Order \in Scalar
      /\ x = ((x \div Order) * Order) + (x % Order)
  BY DivMod DEF Scalar
<1>2. x - (x % Order) = (x \div Order) * Order
  BY <1>1, FieldAssumption DEF Scalar
<1> QED
  BY <1>1, <1>2, ResidueUnique

\* Two integers are congruent exactly when their difference is.
LEMMA ModDifference ==
    ASSUME NEW x \in Int, NEW y \in Int
    PROVE  x % Order = y % Order <=> (x - y) % Order = 0
<1> DEFINE d == x - y
<1>0. d \in Int
  OBVIOUS
<1>1. CASE x % Order = y % Order
  <2>1. /\ x \div Order \in Int /\ y \div Order \in Int
        /\ x = ((x \div Order) * Order) + (x % Order)
        /\ y = ((y \div Order) * Order) + (y % Order)
        /\ x % Order \in Scalar
    BY DivMod
  <2>2. d = 0 + ((x \div Order) - (y \div Order)) * Order
    BY <2>1, <1>1, FieldAssumption DEF Scalar
  <2>3. d % Order = 0 % Order
    BY <2>1, <2>2, ModShift
  <2>4. 0 % Order = 0
    BY ModScalar, FieldAssumption DEF Scalar
  <2> QED
    BY <1>1, <2>3, <2>4
<1>2. CASE d % Order = 0
  <2>1. /\ d \div Order \in Int
        /\ d = ((d \div Order) * Order) + 0
    BY <1>0, <1>2, DivMod
  <2>2. x = y + (d \div Order) * Order
    BY <2>1, FieldAssumption
  <2>3. x % Order = y % Order
    BY <2>1, <2>2, ModShift
  <2> QED
    BY <1>2, <2>3
<1> QED
  BY <1>1, <1>2

\* The product of two residues is congruent to the product.
LEMMA ProductResidue ==
    ASSUME NEW x \in Int, NEW y \in Int
    PROVE  \E m \in Int : (x % Order) * (y % Order) = x * y + m * Order
<1>1. PICK j \in Int : x % Order = x + j * Order
  BY ModWitness
<1>2. PICK k \in Int : y % Order = y + k * Order
  BY ModWitness
<1> DEFINE m == x * k + j * y + j * k * Order
<1>3. m \in Int
  BY FieldAssumption
<1>4. (x + j * Order) * (y + k * Order) = x * y + m * Order
  BY FieldAssumption
<1> QED
  BY <1>1, <1>2, <1>3, <1>4

\* A sum does not change modulo the modulus when a term of it is reduced.
LEMMA ModAdd ==
    ASSUME NEW x \in Int, NEW z \in Int
    PROVE  ((x % Order) + z) % Order = (x + z) % Order
<1>1. PICK k \in Int : x % Order = x + k * Order
  BY ModWitness
<1>2. ((x + z) + k * Order) % Order = (x + z) % Order
  BY ModShift
<1>3. Order \in Int
  BY FieldAssumption
<1>4. (x % Order) + z = (x + z) + k * Order
  BY <1>1, <1>3
<1> QED
  BY <1>2, <1>4

\* What the field's order is in the code, and what dividing by a nonzero scalar
\* needs.
OrderIsPrime == \A d \in 2 .. Order - 1 : Order % d # 0

\* Modulo a prime, a product vanishes only when a factor does.
LEMMA NoZeroDivisors ==
    ASSUME OrderIsPrime, NEW a \in Scalar, NEW b \in Scalar, (a * b) % Order = 0
    PROVE  a = 0 \/ b = 0
<1> SUFFICES ASSUME a # 0, b # 0 PROVE FALSE
  OBVIOUS
<1> DEFINE Zeros == {m \in Nat : m # 0 /\ (m * b) % Order = 0}
<1>1. a \in Zeros
  BY FieldAssumption DEF Scalar
<1>2. PICK m \in Zeros : \A n \in Zeros : m <= n
  BY <1>1, LeastNatural
<1>3. m \in 1 .. Order - 1 /\ m \in Int /\ Order \in Int /\ b \in Int
  BY <1>1, <1>2, FieldAssumption DEF Scalar
<1>4. m # 1
  <2>1. 1 * b = b /\ b % Order = b
    BY <1>3, ModScalar
  <2> QED
    BY <1>2, <2>1
<1> DEFINE q == Order \div m
           s == Order % m
<1>5. q \in Int /\ s \in 0 .. m - 1 /\ Order = (q * m) + s
  BY <1>3
<1> DEFINE j == (m * b) \div Order
<1>6. j \in Int /\ m * b = j * Order
  <2>1. m * b \in Int
    BY <1>3
  <2>2. (m * b) % Order = 0
    BY <1>2
  <2> DEFINE p == m * b
  <2>3. p \in Int => p \div Order \in Int /\ p = ((p \div Order) * Order) + (p % Order)
    BY DivMod
  <2> HIDE DEF p
  <2>4. p = ((p \div Order) * Order) + 0 /\ p \div Order \in Int
    BY <2>1, <2>2, <2>3 DEF p
  <2> QED
    BY <1>3, <2>4 DEF p
<1> HIDE DEF q, s, j
<1>7. s * b = 0 + (b - (q * j)) * Order
  <2>1. s = Order - (q * m)
    BY <1>3, <1>5
  <2>2. s * b = (Order * b) - (q * (m * b))
    BY <1>3, <1>5, <2>1
  <2>3. q * (m * b) = (q * j) * Order
    BY <1>3, <1>5, <1>6
  <2> QED
    BY <1>3, <1>5, <1>6, <2>2, <2>3
<1>8. (s * b) % Order = 0
  <2>1. b - (q * j) \in Int
    BY <1>3, <1>5, <1>6
  <2>2. 0 % Order = 0
    BY ModScalar, FieldAssumption DEF Scalar
  <2> QED
    BY <1>7, <2>1, <2>2, ModShift
<1>9. s = 0
  <2>1. s # 0 => s \in Zeros
    BY <1>5, <1>8
  <2> QED
    BY <1>2, <1>3, <1>5, <2>1
<1> QED
  BY <1>3, <1>4, <1>9 DEF OrderIsPrime, s

\* The same for any two integers.
LEMMA ZeroProduct ==
    ASSUME OrderIsPrime, NEW x \in Int, NEW y \in Int, (x * y) % Order = 0
    PROVE  x % Order = 0 \/ y % Order = 0
<1>1. x % Order \in Scalar /\ y % Order \in Scalar
  BY DivMod
<1>2. PICK m \in Int : (x % Order) * (y % Order) = x * y + m * Order
  BY ProductResidue
<1>3. ((x % Order) * (y % Order)) % Order = 0
  BY <1>2, ModShift
<1> QED
  BY <1>1, <1>3, NoZeroDivisors

\* A quadratic c + r^2 d with d nonzero has at most a root and its negation.
LEMMA RootsOfSquare ==
    ASSUME OrderIsPrime, NEW c \in Scalar, NEW d \in Scalar, d # 0,
           NEW r \in Scalar, NEW s \in Scalar,
           (c + r * r * d) % Order = 0, (c + s * s * d) % Order = 0
    PROVE  s = r \/ s = Order - r
<1>1. c \in Int /\ d \in Int /\ r \in Int /\ s \in Int /\ Order \in Int
  BY FieldAssumption DEF Scalar
<1> DEFINE x == c + r * r * d
           y == c + s * s * d
<1>2. x \in Int /\ y \in Int /\ x - y = ((r - s) * (r + s)) * d
  BY <1>1
<1>3. (x - y) % Order = 0
  <2> HIDE DEF x, y
  <2>1. x % Order = y % Order
    BY DEF x, y
  <2> QED
    BY <1>2, <2>1, ModDifference
<1>4. (((r - s) * (r + s)) * d) % Order = 0
  BY <1>2, <1>3
<1>5. d % Order = d
  BY ModScalar
<1>6. ((r - s) * (r + s)) % Order = 0
  <2>1. (r - s) * (r + s) \in Int
    BY <1>1
  <2> HIDE DEF x, y
  <2> QED
    BY <1>1, <1>4, <1>5, <2>1, ZeroProduct
<1>7. r - s \in Int /\ r + s \in Int
  BY <1>1
<1>8. (r - s) % Order = 0 \/ (r + s) % Order = 0
  BY <1>6, <1>7, ZeroProduct
<1>9. CASE (r - s) % Order = 0
  <2>1. r % Order = s % Order
    BY <1>1, <1>9, ModDifference
  <2>2. r % Order = r /\ s % Order = s
    BY ModScalar
  <2> QED
    BY <2>1, <2>2
<1>10. CASE (r + s) % Order = 0
  <2>1. PICK k \in Int : (r + s) % Order = (r + s) + k * Order
    BY <1>7, ModWitness
  <2>2. r + s = (-k) * Order
    BY <1>1, <1>10, <2>1
  <2>3. CASE -k >= 2
    BY <1>1, <2>2, <2>3, FieldAssumption DEF Scalar
  <2>4. CASE -k = 1
    BY <1>1, <2>2, <2>4
  <2>5. CASE -k = 0
    BY <1>1, <2>2, <2>5 DEF Scalar
  <2>6. CASE -k <= -1
    BY <1>1, <2>2, <2>6, FieldAssumption DEF Scalar
  <2> QED
    BY <2>3, <2>4, <2>5, <2>6
<1> QED
  BY <1>8, <1>9, <1>10

\* A combination is a scalar, and a scalar is 32 canonical bytes.
LEMMA CombineType ==
    ASSUME NEW x \in Int, NEW r \in Int, NEW y \in Int
    PROVE  Combine(x, r, y) \in Scalar
<1>1. x + r * y \in Int
  OBVIOUS
<1> QED
  BY <1>1, DivMod DEF Combine

LEMMA ScalarBytes ==
    /\ Scalar \subseteq Bytes32 /\ Scalar \subseteq Int /\ Bytes32 \subseteq Nat
    /\ \A b \in Bytes32 : Canonical(b) <=> b \in Scalar
BY FieldAssumption DEF Scalar, Bytes32, Canonical

LEMMA BytesAreIntegers == \A b \in Bytes32 : b \in Int
BY FieldAssumption DEF Bytes32

\* Challenge always gives a scalar, and any scalar is the challenge of some hash.
LEMMA ChallengesAreScalars == Challenges = Scalar
<1>1. ASSUME NEW hash \in Bytes32
      PROVE  Challenge(hash) \in Scalar
  <2>1. hash % MaskRange \in Int
    BY FieldAssumption DEF Bytes32
  <2> QED
    BY <2>1, DivMod DEF Challenge
<1>2. ASSUME NEW s \in Scalar
      PROVE  s \in Bytes32 /\ Challenge(s) = s
  <2>1. s \in Bytes32
    BY ScalarBytes
  <2>2. s % MaskRange = s
    BY FieldAssumption DEF Scalar
  <2> QED
    BY <2>1, <2>2, ModScalar DEF Challenge
<1> QED
  BY <1>1, <1>2 DEF Challenges


----------------------------------------------------------------------------
(* The algebra of one merged row.                                          *)

\* The defect of a merged row, with no assumption on the error terms.
LEMMA MergeDefect ==
    ASSUME NEW u \in Scalar, NEW v \in Scalar, NEW r \in Scalar,
           NEW a \in RelaxedRow, NEW b \in RelaxedRow
    PROVE  Defect(Combine(u, r, v), MergeRow(u, a, v, b, r))
           = (Defect(u, a) + r * r * Defect(v, b) + (r * r - r) * b.e) % Order
<1> DEFINE cross == a.az * b.bz + b.az * a.bz - u * b.cz - v * a.cz
           az == a.az + r * b.az
           bz == a.bz + r * b.bz
           cz == a.cz + r * b.cz
           uu == u + r * v
           ee == a.e + r * b.e + r * cross
           da == a.az * a.bz - u * a.cz - a.e
           db == b.az * b.bz - v * b.cz - b.e
<1>1. /\ u \in Int /\ v \in Int /\ r \in Int
      /\ a.az \in Int /\ a.bz \in Int /\ a.cz \in Int /\ a.e \in Int
      /\ b.az \in Int /\ b.bz \in Int /\ b.cz \in Int /\ b.e \in Int
  <2>1. /\ a.az \in Bytes32 /\ a.bz \in Bytes32 /\ a.cz \in Bytes32 /\ a.e \in Bytes32
        /\ b.az \in Bytes32 /\ b.bz \in Bytes32 /\ b.cz \in Bytes32 /\ b.e \in Bytes32
    BY DEF RelaxedRow
  <2> QED
    BY <2>1, FieldAssumption DEF Scalar, Bytes32
<1>2. /\ az \in Int /\ bz \in Int /\ cz \in Int /\ uu \in Int /\ ee \in Int
      /\ da \in Int /\ db \in Int
  BY <1>1
<1>3. az * bz - uu * cz - ee = da + r * r * db + (r * r - r) * b.e
  <2> DEFINE A == a.az  B == b.az  C == a.bz  D == b.bz
             S == a.cz  T == b.cz  E == a.e   F == b.e
  <2>1. /\ A \in Int /\ B \in Int /\ C \in Int /\ D \in Int
        /\ S \in Int /\ T \in Int /\ E \in Int /\ F \in Int
    BY <1>1
  <2>2. /\ az = A + r * B /\ bz = C + r * D /\ cz = S + r * T /\ uu = u + r * v
        /\ ee = E + r * F + r * (A * D + B * C - u * T - v * S)
        /\ da = A * C - u * S - E /\ db = B * D - v * T - F /\ b.e = F
    OBVIOUS
  <2> HIDE DEF A, B, C, D, S, T, E, F, az, bz, cz, uu, ee, da, db
  <2>3. (A + r * B) * (C + r * D) - (u + r * v) * (S + r * T)
          - (E + r * F + r * (A * D + B * C - u * T - v * S))
        = (A * C - u * S - E) + r * r * (B * D - v * T - F) + (r * r - r) * F
    BY <1>1, <2>1
  <2> QED
    BY <2>2, <2>3
<1> HIDE DEF az, bz, cz, uu, ee, da, db
<1> DEFINE whole == da + r * r * db + (r * r - r) * b.e
           left == (az % Order) * (bz % Order)
           right == (uu % Order) * (cz % Order)
<1>4. PICK k \in Int : ee % Order = ee + k * Order
  BY <1>2, ModWitness
<1>5. PICK m \in Int : left = az * bz + m * Order
  BY <1>2, ProductResidue
<1>6. PICK n \in Int : right = uu * cz + n * Order
  BY <1>2, ProductResidue
<1> HIDE DEF whole, left, right
<1>7. left - right - (ee % Order) = whole + (m - n - k) * Order
  <2>1. az * bz \in Int /\ uu * cz \in Int /\ whole \in Int
    BY <1>1, <1>2 DEF whole
  <2>2. (m - n - k) * Order = m * Order - n * Order - k * Order
    BY FieldAssumption
  <2>3. az * bz - uu * cz - ee = whole
    BY <1>3 DEF whole
  <2>4. m * Order \in Int /\ n * Order \in Int /\ k * Order \in Int
    BY FieldAssumption
  <2> QED
    BY <1>2, <1>4, <1>5, <1>6, <2>1, <2>2, <2>3, <2>4
<1>8. Defect(Combine(u, r, v), MergeRow(u, a, v, b, r)) = (left - right - (ee % Order)) % Order
  BY DEF Defect, Combine, MergeRow, az, bz, cz, uu, ee, left, right
<1>9. PICK i \in Int : da % Order = da + i * Order
  BY <1>2, ModWitness
<1>10. PICK j \in Int : db % Order = db + j * Order
  BY <1>2, ModWitness
<1>11. (da % Order) + r * r * (db % Order) + (r * r - r) * b.e
       = whole + (i + r * r * j) * Order
  BY <1>1, <1>2, <1>9, <1>10, FieldAssumption DEF whole
<1>12. Defect(u, a) = da % Order /\ Defect(v, b) = db % Order
  BY DEF Defect, da, db
<1>13. whole \in Int /\ m - n - k \in Int /\ i + r * r * j \in Int
  BY <1>1, <1>2 DEF whole
<1> QED
  BY <1>7, <1>8, <1>11, <1>12, <1>13, ModShift

----------------------------------------------------------------------------
(* Satisfaction and merging of whole accumulators.                         *)

\* A nonempty set of naturals has a least element, so an error names a row.
LEMMA MinExists ==
    ASSUME NEW S, S \subseteq Nat, S # {}
    PROVE  Min(S) \in S
BY LeastNatural DEF Min

\* An error names a row whenever the set of offending rows is not empty.
LEMMA AtFirstType ==
    ASSUME NEW S \in SUBSET (Nat \ {0}), S # {}
    PROVE  AtFirst(S) \in [tag : {"violated"}, row : Nat]
<1>1. Min(S) \in Nat \ {0}
  BY MinExists
<1> QED
  BY <1>1 DEF AtFirst, Violated

\* Ok is not an error.
LEMMA OkIsNoError ==
    /\ \A n : Ok # Violated(n)
    /\ \A S : Ok # AtFirst(S)
BY DEF Ok, Violated, AtFirst

\* check_relaxed_row accepts exactly the rows without a defect.
LEMMA RowHoldsIff ==
    ASSUME NEW u \in Bytes32, NEW row \in RelaxedRow
    PROVE  RowHolds(u, row) <=> Defect(u, row) = 0
<1>1. u \in Int /\ row.az \in Int /\ row.bz \in Int /\ row.cz \in Int /\ row.e \in Int
  <2>1. row.az \in Bytes32 /\ row.bz \in Bytes32 /\ row.cz \in Bytes32 /\ row.e \in Bytes32
    BY DEF RelaxedRow
  <2> QED
    BY <2>1, FieldAssumption DEF Bytes32
<1>2. (row.az * row.bz) - (u * row.cz + row.e) = row.az * row.bz - u * row.cz - row.e
  BY <1>1
<1> DEFINE x == row.az * row.bz
           y == u * row.cz + row.e
<1>3. x \in Int /\ y \in Int
  BY <1>1
<1>4. (RowHolds(u, row) <=> x % Order = y % Order) /\ Defect(u, row) = (x - y) % Order
  BY <1>2 DEF RowHolds, Defect
<1> HIDE DEF x, y
<1> QED
  BY <1>3, <1>4, ModDifference

\* What Accumulator::check decides.
LEMMA SatisfiedIff ==
    ASSUME NEW acc \in AccumulatorType
    PROVE  Satisfied(acc) <=>
             /\ Canonical(acc.u)
             /\ \A i \in DOMAIN acc.rows :
                   CanonicalRow(acc.rows[i]) /\ Defect(acc.u, acc.rows[i]) = 0
<1> DEFINE bad == MalformedRows(acc.rows) \cup ViolatedRows(acc.u, acc.rows)
<1>1. acc.u \in Bytes32 /\ acc.rows \in Seq(RelaxedRow)
  BY DEF AccumulatorType
<1>2. Satisfied(acc) <=> Canonical(acc.u) /\ bad = {}
  BY OkIsNoError DEF Satisfied, Check
<1>3. bad = {} <=> \A i \in DOMAIN acc.rows :
                     CanonicalRow(acc.rows[i]) /\ RowHolds(acc.u, acc.rows[i])
  BY DEF MalformedRows, ViolatedRows
<1>4. \A i \in DOMAIN acc.rows :
        RowHolds(acc.u, acc.rows[i]) <=> Defect(acc.u, acc.rows[i]) = 0
  BY <1>1, RowHoldsIff
<1> QED
  BY <1>2, <1>3, <1>4

\* What merge has established when it does not return an error.
LEMMA MergeOutcomeOk ==
    ASSUME NEW a \in AccumulatorType, NEW b \in AccumulatorType
    PROVE  MergeOutcome(a, b) = Ok <=>
             /\ Len(a.rows) = Len(b.rows)
             /\ Canonical(a.u) /\ Canonical(b.u)
             /\ \A i \in DOMAIN a.rows : CanonicalRow(a.rows[i])
             /\ \A i \in DOMAIN b.rows : CanonicalRow(b.rows[i])
BY OkIsNoError DEF MergeOutcome, MalformedRows

\* Otherwise it returns an error that names a row.
LEMMA MergeOutcomeType ==
    ASSUME NEW a \in AccumulatorType, NEW b \in AccumulatorType
    PROVE  MergeOutcome(a, b) \in {Ok} \cup [tag : {"violated"}, row : Nat]
<1> DEFINE malformed == MalformedRows(a.rows) \cup MalformedRows(b.rows)
<1>1. a.rows \in Seq(RelaxedRow) /\ b.rows \in Seq(RelaxedRow)
  BY DEF AccumulatorType
<1>2. malformed \in SUBSET (Nat \ {0})
  BY <1>1 DEF MalformedRows
<1>3. \A n \in Nat : Violated(n) \in [tag : {"violated"}, row : Nat]
  BY DEF Violated
<1>4. malformed # {} => AtFirst(malformed) \in [tag : {"violated"}, row : Nat]
  BY <1>2, AtFirstType
<1>5. Len(a.rows) \in Nat
  BY <1>1
<1> QED
  BY <1>3, <1>4, <1>5 DEF MergeOutcome

\* Folding two rows of canonical scalars gives a row of canonical scalars.
LEMMA MergeRowType ==
    ASSUME NEW u \in Scalar, NEW v \in Scalar, NEW r \in Scalar,
           NEW a \in RelaxedRow, NEW b \in RelaxedRow
    PROVE  /\ MergeRow(u, a, v, b, r) \in RelaxedRow
           /\ CanonicalRow(MergeRow(u, a, v, b, r))
<1> DEFINE cross == a.az * b.bz + b.az * a.bz - u * b.cz - v * a.cz
           row == MergeRow(u, a, v, b, r)
<1>1. /\ a.az \in Bytes32 /\ a.bz \in Bytes32 /\ a.cz \in Bytes32 /\ a.e \in Bytes32
      /\ b.az \in Bytes32 /\ b.bz \in Bytes32 /\ b.cz \in Bytes32 /\ b.e \in Bytes32
  BY DEF RelaxedRow
<1>2. /\ u \in Int /\ v \in Int /\ r \in Int
      /\ a.az \in Int /\ a.bz \in Int /\ a.cz \in Int /\ a.e \in Int
      /\ b.az \in Int /\ b.bz \in Int /\ b.cz \in Int /\ b.e \in Int
  BY <1>1, FieldAssumption DEF Scalar, Bytes32
<1>3. cross \in Int
  BY <1>2
<1> HIDE DEF cross
<1>4. a.e + r * b.e + r * cross \in Int
  BY <1>2, <1>3
<1>5. (a.e + r * b.e + r * cross) % Order \in Scalar
  BY <1>4, DivMod
<1>6. row = [az |-> Combine(a.az, r, b.az), bz |-> Combine(a.bz, r, b.bz),
             cz |-> Combine(a.cz, r, b.cz), e |-> (a.e + r * b.e + r * cross) % Order]
  BY DEF MergeRow, cross
<1>7. row.az \in Scalar /\ row.bz \in Scalar /\ row.cz \in Scalar /\ row.e \in Scalar
  BY <1>2, <1>5, <1>6, CombineType
<1> QED
  BY <1>6, <1>7, ScalarBytes DEF RelaxedRow, CanonicalRow

\* merge returns an accumulator, of the same row count, all of whose scalars
\* are canonical.
LEMMA MergeType ==
    ASSUME NEW a \in AccumulatorType, NEW b \in AccumulatorType, NEW r \in Scalar,
           MergeOutcome(a, b) = Ok
    PROVE  /\ Merge(a, b, r) \in AccumulatorType
           /\ Len(Merge(a, b, r).rows) = Len(a.rows)
           /\ Canonical(Merge(a, b, r).u)
           /\ \A i \in 1 .. Len(a.rows) : CanonicalRow(Merge(a, b, r).rows[i])
<1> DEFINE m == Merge(a, b, r)
<1>1. /\ a.u \in Scalar /\ b.u \in Scalar /\ Len(a.rows) = Len(b.rows)
      /\ a.rows \in Seq(RelaxedRow) /\ b.rows \in Seq(RelaxedRow)
      /\ a.step \in 0 .. MaxU64
      /\ a.commitment_z \in Commitment /\ b.commitment_z \in Commitment
      /\ a.commitment_e \in Commitment /\ b.commitment_e \in Commitment
  BY MergeOutcomeOk, ScalarBytes DEF AccumulatorType
<1>2. m.u \in Scalar
  BY <1>1, ScalarBytes, CombineType DEF Merge
<1>3. ASSUME NEW i \in 1 .. Len(a.rows)
      PROVE  m.rows[i] \in RelaxedRow /\ CanonicalRow(m.rows[i])
  <2>1. a.rows[i] \in RelaxedRow /\ b.rows[i] \in RelaxedRow
    BY <1>1
  <2> QED
    BY <1>1, <2>1, MergeRowType DEF Merge
<1>4. m.rows \in Seq(RelaxedRow) /\ Len(m.rows) = Len(a.rows)
  <2>1. Len(a.rows) \in Nat
    BY <1>1
  <2>2. m.rows = [i \in 1 .. Len(a.rows) |-> MergeRow(a.u, a.rows[i], b.u, b.rows[i], r)]
    BY DEF Merge
  <2>3. m.rows \in [1 .. Len(a.rows) -> RelaxedRow]
    BY <1>3, <2>2
  <2> QED
    BY <2>1, <2>3
<1>5. \A c \in Commitment : Point(c) \in Scalar
  BY FieldAssumption DEF Commitment, Point, Scalar
<1>6. m.commitment_z \in Commitment /\ m.commitment_e \in Commitment
  BY <1>1, <1>5, ScalarBytes, CombineType DEF Merge, CombineCommitments, Commitment
<1>7. m.step \in 0 .. MaxU64
  BY <1>1, AccumulatorAssumption DEF Merge, SaturatingInc
<1>8. m \in AccumulatorType
  BY <1>2, <1>4, <1>6, <1>7, ScalarBytes DEF Merge, AccumulatorType
<1> QED
  BY <1>2, <1>3, <1>4, <1>8, ScalarBytes

\* The defects of a merged accumulator, row by row.
LEMMA MergeDefects ==
    ASSUME NEW a \in AccumulatorType, NEW b \in AccumulatorType, NEW r \in Scalar,
           MergeOutcome(a, b) = Ok, ErrorFree(b), NEW i \in 1 .. Len(a.rows)
    PROVE  Defect(Merge(a, b, r).u, Merge(a, b, r).rows[i])
           = (Defect(a.u, a.rows[i]) + r * r * Defect(b.u, b.rows[i])) % Order
<1>1. /\ a.u \in Scalar /\ b.u \in Scalar /\ Len(a.rows) = Len(b.rows)
      /\ a.rows \in Seq(RelaxedRow) /\ b.rows \in Seq(RelaxedRow)
  BY MergeOutcomeOk, ScalarBytes DEF AccumulatorType
<1> DEFINE row == a.rows[i]
           other == b.rows[i]
<1>2. row \in RelaxedRow /\ other \in RelaxedRow /\ other.e = 0
  BY <1>1 DEF ErrorFree
<1>3. Defect(Merge(a, b, r).u, Merge(a, b, r).rows[i])
      = Defect(Combine(a.u, r, b.u), MergeRow(a.u, row, b.u, other, r))
  BY DEF Merge
<1> HIDE DEF row, other
<1>4. Defect(Combine(a.u, r, b.u), MergeRow(a.u, row, b.u, other, r))
      = (Defect(a.u, row) + r * r * Defect(b.u, other) + (r * r - r) * other.e) % Order
  BY <1>1, <1>2, MergeDefect, ZenonT(60)
<1>5. Defect(a.u, row) \in Int /\ Defect(b.u, other) \in Int /\ r \in Int
  <2>1. /\ row.az \in Bytes32 /\ row.bz \in Bytes32 /\ row.cz \in Bytes32 /\ row.e \in Bytes32
        /\ other.az \in Bytes32 /\ other.bz \in Bytes32 /\ other.cz \in Bytes32
        /\ other.e \in Bytes32
    BY <1>2 DEF RelaxedRow
  <2>2. \A x \in Bytes32 \cup Scalar : x \in Int
    BY FieldAssumption DEF Scalar, Bytes32
  <2>3. a.u \in Int /\ row.az \in Int /\ row.bz \in Int /\ row.cz \in Int /\ row.e \in Int
    BY <1>1, <2>1, <2>2
  <2>4. b.u \in Int /\ other.az \in Int /\ other.bz \in Int /\ other.cz \in Int /\ other.e \in Int
    BY <1>1, <2>1, <2>2
  <2>5. row.az * row.bz - a.u * row.cz - row.e \in Int
    BY <2>3
  <2>6. other.az * other.bz - b.u * other.cz - other.e \in Int
    BY <2>4
  <2> QED
    BY <1>1, <2>2, <2>5, <2>6, DivMod DEF Defect
<1>6. Defect(a.u, row) + r * r * Defect(b.u, other) + (r * r - r) * 0
      = Defect(a.u, row) + r * r * Defect(b.u, other)
  BY <1>5
<1> QED
  BY <1>2, <1>3, <1>4, <1>6 DEF row, other

\* MergeOutcome in terms of WellFormed.
LEMMA MergeOutcomeWellFormed ==
    ASSUME NEW a \in AccumulatorType, NEW b \in AccumulatorType
    PROVE  MergeOutcome(a, b) = Ok <=>
             /\ Len(a.rows) = Len(b.rows) /\ WellFormed(a) /\ WellFormed(b)
BY MergeOutcomeOk DEF WellFormed, MalformedRows

\* A merge keeps the row count, and what it returns is well formed.
LEMMA MergeWellFormed ==
    ASSUME NEW a \in AccumulatorType, NEW b \in AccumulatorType, NEW r \in Scalar,
           MergeOutcome(a, b) = Ok
    PROVE  WellFormed(Merge(a, b, r)) /\ Len(Merge(a, b, r).rows) = Len(a.rows)
<1> DEFINE m == Merge(a, b, r)
<1>1. /\ m \in AccumulatorType /\ Len(m.rows) = Len(a.rows) /\ Canonical(m.u)
      /\ \A i \in 1 .. Len(a.rows) : CanonicalRow(m.rows[i])
  BY MergeType
<1> HIDE DEF m
<1>2. m.rows \in Seq(RelaxedRow)
  BY <1>1 DEF AccumulatorType
<1>3. MalformedRows(m.rows) = {}
  BY <1>1, <1>2 DEF MalformedRows
<1> QED
  BY <1>1, <1>3 DEF WellFormed, m

\* Two accumulators that merge, one of them unsatisfied, differ from satisfied
\* ones by a defect in some row: everything else has been checked.
LEMMA SomeDefect ==
    ASSUME NEW a \in AccumulatorType, NEW b \in AccumulatorType,
           MergeOutcome(a, b) = Ok, ~(Satisfied(a) /\ Satisfied(b))
    PROVE  \E i \in 1 .. Len(a.rows) :
              Defect(a.u, a.rows[i]) # 0 \/ Defect(b.u, b.rows[i]) # 0
<1>1. /\ Canonical(a.u) /\ \A i \in DOMAIN a.rows : CanonicalRow(a.rows[i])
      /\ Canonical(b.u) /\ \A i \in DOMAIN b.rows : CanonicalRow(b.rows[i])
      /\ Len(a.rows) = Len(b.rows)
  BY MergeOutcomeOk
<1>2. DOMAIN a.rows = 1 .. Len(a.rows) /\ DOMAIN b.rows = 1 .. Len(b.rows)
  BY DEF AccumulatorType
<1>3. \/ \E i \in DOMAIN a.rows : Defect(a.u, a.rows[i]) # 0
      \/ \E i \in DOMAIN b.rows : Defect(b.u, b.rows[i]) # 0
  BY <1>1, SatisfiedIff
<1> QED
  BY <1>1, <1>2, <1>3

\* A defect is a scalar.
LEMMA DefectScalar ==
    ASSUME NEW u \in Bytes32, NEW row \in RelaxedRow
    PROVE  Defect(u, row) \in Scalar
<1>1. u \in Int /\ row.az \in Int /\ row.bz \in Int /\ row.cz \in Int /\ row.e \in Int
  <2>1. row.az \in Bytes32 /\ row.bz \in Bytes32 /\ row.cz \in Bytes32 /\ row.e \in Bytes32
    BY DEF RelaxedRow
  <2> QED
    BY <2>1, FieldAssumption DEF Bytes32
<1>2. row.az * row.bz - u * row.cz - row.e \in Int
  BY <1>1
<1> QED
  BY <1>2, DivMod DEF Defect

\* The point of a combined commitment is the combination of the points.
LEMMA PointsCombine ==
    ASSUME NEW a \in Commitment, NEW b \in Commitment, NEW r \in Scalar
    PROVE  /\ Point(a) \in Scalar /\ CombineCommitments(a, b, r) \in Scalar
           /\ Point(CombineCommitments(a, b, r)) = Combine(Point(a), r, Point(b))
<1>1. 0 \in Scalar
  BY FieldAssumption DEF Scalar
<1>2. Point(a) \in Scalar /\ Point(b) \in Scalar
  BY <1>1 DEF Commitment, Point
<1>3. Combine(Point(a), r, Point(b)) \in Scalar
  BY <1>2, CombineType, ScalarBytes
<1> QED
  BY <1>2, <1>3, AccumulatorAssumption DEF CombineCommitments, Point
============================================================================

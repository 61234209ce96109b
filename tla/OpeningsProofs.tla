--------------------------- MODULE OpeningsProofs ---------------------------
(***************************************************************************)
(* That the commitments of every accumulator of the loop open to the       *)
(* folded message, for every key, every field and every set of witnesses.  *)
(* It comes down to one fact about Pedersen commitments: the combination   *)
(* of two of them is the commitment to the combination of their messages   *)
(* under the combination of their blinders.                                *)
(***************************************************************************)
EXTENDS Openings, FoldChainProofs

----------------------------------------------------------------------------
(* Pedersen commitments.                                                   *)

\* The terms that the multi-exponentiation adds up.
Terms(msg) == [i \in DOMAIN msg |-> msg[i] * Point(Key.generators[i])]

\* A message with zeros up to the length of the key.
Padded(z) == [j \in DOMAIN Key.generators |-> Entry(z, j)]

LEMMA PointType ==
    ASSUME NEW c \in Commitment
    PROVE  Point(c) \in Scalar
BY FieldAssumption DEF Commitment, Point, Scalar

LEMMA KeyPoints ==
    /\ DOMAIN Key.generators = 1 .. Len(Key.generators) /\ Len(Key.generators) \in Nat
    /\ IsFiniteSet(DOMAIN Key.generators)
    /\ \A j \in DOMAIN Key.generators : Point(Key.generators[j]) \in Int
    /\ Point(Key.blinder) \in Int
<1>1. Key.generators \in Seq(Commitment) /\ Key.blinder \in Commitment
  BY PedersenAssumption DEF CommitmentKey
<1>2. DOMAIN Key.generators = 1 .. Len(Key.generators) /\ Len(Key.generators) \in Nat
  BY <1>1
<1>3. IsFiniteSet(DOMAIN Key.generators)
  BY <1>2, FS_Interval
<1>4. ASSUME NEW j \in DOMAIN Key.generators PROVE Point(Key.generators[j]) \in Int
  <2>1. Key.generators[j] \in Commitment
    BY <1>1
  <2> QED
    BY <2>1, PointType, ScalarBytes
<1>5. Point(Key.blinder) \in Int
  BY <1>1, PointType, ScalarBytes
<1> QED
  BY <1>2, <1>3, <1>4, <1>5

\* What Blinded computes, before it is reduced.
LEMMA TermsType ==
    ASSUME NEW D \in SUBSET DOMAIN Key.generators, NEW msg \in [D -> Int], NEW r \in Int
    PROVE  /\ IsFiniteSet(D) /\ Terms(msg) \in [D -> Int] /\ SumFunction(Terms(msg)) \in Int
           /\ r * Point(Key.blinder) \in Int
           /\ Blinded(msg, r) = (r * Point(Key.blinder) + SumFunction(Terms(msg))) % Order
           /\ Blinded(msg, r) \in Scalar
<1>1. IsFiniteSet(D)
  BY KeyPoints, FS_Subset
<1>2. ASSUME NEW j \in D PROVE msg[j] * Point(Key.generators[j]) \in Int
  BY KeyPoints
<1>3. Terms(msg) \in [D -> Int]
  BY <1>2 DEF Terms
<1>4. SumFunction(Terms(msg)) \in Int
  BY <1>1, <1>3, SumType
<1>5. r * Point(Key.blinder) \in Int
  BY KeyPoints
<1>6. Blinded(msg, r) = (r * Point(Key.blinder) + SumFunction(Terms(msg))) % Order
  BY DEF Blinded, Terms
<1>7. Blinded(msg, r) \in Scalar
  BY <1>4, <1>5, <1>6, DivMod
<1> QED
  BY <1>1, <1>3, <1>4, <1>5, <1>6, <1>7

\* A message commits as it does when padded with zeros.
LEMMA BlindedPads ==
    ASSUME NEW D \in SUBSET DOMAIN Key.generators, NEW msg \in [D -> Int], NEW r \in Int
    PROVE  Padded(msg) \in [DOMAIN Key.generators -> Int] /\ Blinded(Padded(msg), r) = Blinded(msg, r)
<1> DEFINE U == DOMAIN Key.generators
           all == Padded(msg)
<1>1. all \in [U -> Int] /\ \A j \in U : all[j] = IF j \in D THEN msg[j] ELSE 0
  BY DEF Padded, Entry
<1> HIDE DEF all
<1>2. U \in SUBSET DOMAIN Key.generators /\ IsFiniteSet(U)
  BY KeyPoints
<1>3. Terms(all) \in [U -> Int] /\ Terms(msg) \in [D -> Int]
  BY <1>1, <1>2, TermsType
<1>4. \A j \in D : Terms(msg)[j] = Terms(all)[j]
  BY <1>1 DEF Terms
<1>5. ASSUME NEW j \in U \ D PROVE Terms(all)[j] = 0
  <2>1. Terms(all)[j] = 0 * Point(Key.generators[j])
    BY <1>1 DEF Terms
  <2> QED
    BY <2>1, KeyPoints
<1>6. SumFunction(Terms(all)) = SumFunction(Terms(msg))
  BY <1>2, <1>3, <1>4, <1>5, SumPad
<1>7. Blinded(all, r) = Blinded(msg, r)
  BY <1>6 DEF Blinded, Terms
<1> QED
  BY <1>1, <1>7 DEF all

\* Residues may be combined before or after they are reduced.
LEMMA CombineResidues ==
    ASSUME NEW x \in Int, NEW r \in Int, NEW y \in Int
    PROVE  Combine(x % Order, r, y % Order) = (x + r * y) % Order
<1>1. PICK j \in Int : x % Order = x + j * Order
  BY ModWitness
<1>2. PICK k \in Int : y % Order = y + k * Order
  BY ModWitness
<1> DEFINE m == j + r * k
           s == x + r * y
<1>3. Order \in Int /\ m \in Int /\ s \in Int
  BY FieldAssumption
<1>4. (x + j * Order) + r * (y + k * Order) = s + m * Order
  BY <1>3
<1> HIDE DEF m, s
<1>5. (s + m * Order) % Order = s % Order
  BY <1>3, ModShift
<1> QED
  BY <1>1, <1>2, <1>4, <1>5 DEF Combine, s

\* A message over the positions D and its blinder are those of two others,
\* combined.
CombinedOpening(m3, b3, m1, b1, r, m2, b2, D) ==
    /\ D \in SUBSET DOMAIN Key.generators /\ r \in Int
    /\ m1 \in [D -> Int] /\ m2 \in [D -> Int] /\ m3 \in [D -> Int]
    /\ b1 \in Int /\ b2 \in Int /\ b3 \in Int
    /\ \A j \in D : m3[j] = Combine(m1[j], r, m2[j])
    /\ b3 = Combine(b1, r, b2)

\* The combination of two commitments commits to the combined message under
\* the combined blinder: the identity that CommitmentKey's users rely on.
LEMMA BlindedCombines ==
    ASSUME NEW m3, NEW b3, NEW m1, NEW b1, NEW r, NEW m2, NEW b2, NEW D,
           CombinedOpening(m3, b3, m1, b1, r, m2, b2, D)
    PROVE  Blinded(m3, b3) = Combine(Blinded(m1, b1), r, Blinded(m2, b2))
<1>0. /\ D \in SUBSET DOMAIN Key.generators /\ r \in Int
      /\ m1 \in [D -> Int] /\ m2 \in [D -> Int] /\ m3 \in [D -> Int]
      /\ b1 \in Int /\ b2 \in Int /\ b3 \in Int
  BY DEF CombinedOpening
<1> USE <1>0
<1> DEFINE B == Point(Key.blinder)
           P(j) == Point(Key.generators[j])
           carry == [j \in D |-> CHOOSE k \in Int : m3[j] = (m1[j] + r * m2[j]) + k * Order]
           raw == [j \in D |-> (m1[j] + r * m2[j]) * P(j)]
           over == [j \in D |-> carry[j] * P(j)]
           T1 == Terms(m1)
           T2 == Terms(m2)
           T3 == Terms(m3)
<1>1. /\ IsFiniteSet(D) /\ T1 \in [D -> Int] /\ T2 \in [D -> Int] /\ T3 \in [D -> Int]
      /\ SumFunction(T1) \in Int /\ SumFunction(T2) \in Int /\ SumFunction(T3) \in Int
      /\ Blinded(m1, b1) = (b1 * B + SumFunction(T1)) % Order
      /\ Blinded(m2, b2) = (b2 * B + SumFunction(T2)) % Order
      /\ Blinded(m3, b3) = (b3 * B + SumFunction(T3)) % Order
      /\ b1 * B \in Int /\ b2 * B \in Int
  BY TermsType
<1>2. B \in Int /\ Order \in Int /\ \A j \in D : P(j) \in Int
  BY KeyPoints, FieldAssumption
<1>3. ASSUME NEW j \in D
      PROVE  carry[j] \in Int /\ m3[j] = (m1[j] + r * m2[j]) + carry[j] * Order
  <2>1. m1[j] + r * m2[j] \in Int
    OBVIOUS
  <2>2. \E k \in Int : m3[j] = (m1[j] + r * m2[j]) + k * Order
    BY <2>1, ModWitness DEF Combine, CombinedOpening
  <2> QED
    BY <2>2
<1>4. carry \in [D -> Int]
  BY <1>3
<1> HIDE DEF carry
<1>5. raw \in [D -> Int] /\ over \in [D -> Int]
  <2>1. ASSUME NEW j \in D PROVE (m1[j] + r * m2[j]) * P(j) \in Int /\ carry[j] * P(j) \in Int
    BY <1>2, <1>4
  <2> QED
    BY <2>1
<1>6. Combines(raw, T1, r, T2, D)
  <2>1. ASSUME NEW j \in D PROVE raw[j] = T1[j] + r * T2[j]
    <3>1. raw[j] = (m1[j] + r * m2[j]) * P(j) /\ T1[j] = m1[j] * P(j) /\ T2[j] = m2[j] * P(j)
      BY DEF Terms
    <3>2. P(j) \in Int /\ m1[j] \in Int /\ m2[j] \in Int
      BY <1>2
    <3> HIDE DEF raw, T1, T2, P
    <3> QED
      BY <3>1, <3>2
  <2> QED
    BY <2>1 DEF Combines
<1>7. Combines(T3, raw, Order, over, D)
  <2>1. ASSUME NEW j \in D PROVE T3[j] = raw[j] + Order * over[j]
    <3>1. /\ T3[j] = m3[j] * P(j) /\ raw[j] = (m1[j] + r * m2[j]) * P(j)
          /\ over[j] = carry[j] * P(j)
      BY DEF Terms
    <3>2. P(j) \in Int /\ carry[j] \in Int /\ m1[j] + r * m2[j] \in Int
      BY <1>2, <1>4
    <3>3. m3[j] = (m1[j] + r * m2[j]) + carry[j] * Order
      BY <1>3
    <3> DEFINE s == m1[j] + r * m2[j]
    <3> HIDE DEF raw, over, T3, P, s
    <3>4. (s + carry[j] * Order) * P(j) = s * P(j) + Order * (carry[j] * P(j))
      BY <1>2, <3>2 DEF s
    <3> QED
      BY <3>1, <3>3, <3>4 DEF s
  <2> QED
    BY <2>1 DEF Combines
<1> HIDE DEF raw, over, T1, T2, T3, B, P
<1> DEFINE S1 == SumFunction(T1)
           S2 == SumFunction(T2)
           S3 == SumFunction(T3)
           So == SumFunction(over)
<1>8. SumFunction(raw) = S1 + r * S2
  BY <1>1, <1>5, <1>6, SumLinear
<1>9. S3 = SumFunction(raw) + Order * So /\ So \in Int
  BY <1>1, <1>2, <1>5, <1>7, SumLinear, SumType
<1>10. PICK c \in Int : b3 = (b1 + r * b2) + c * Order
  <2>1. b1 + r * b2 \in Int
    OBVIOUS
  <2> QED
    BY <2>1, ModWitness DEF Combine, CombinedOpening
<1>11. S1 \in Int /\ S2 \in Int
  BY <1>1
<1> HIDE DEF S1, S2, S3, So
<1> DEFINE x == b1 * B + S1
           y == b2 * B + S2
           k == c * B + So
<1>12. x \in Int /\ y \in Int /\ k \in Int /\ x + r * y \in Int
  BY <1>1, <1>2, <1>9, <1>11
<1>13. b3 * B + S3 = (x + r * y) + k * Order
  <2>1. S3 = (S1 + r * S2) + Order * So
    BY <1>8, <1>9
  <2>2. ((b1 + r * b2) + c * Order) * B + ((S1 + r * S2) + Order * So) = (x + r * y) + k * Order
    BY <1>2, <1>9, <1>11
  <2> QED
    BY <1>10, <2>1, <2>2
<1> HIDE DEF x, y, k
<1>14. (b3 * B + S3) % Order = (x + r * y) % Order
  BY <1>12, <1>13, ModShift
<1>15. Combine(x % Order, r, y % Order) = (x + r * y) % Order
  BY <1>12, CombineResidues
<1> QED
  BY <1>1, <1>14, <1>15 DEF x, y, S1, S2, S3
----------------------------------------------------------------------------
(* The loop over fresh accumulators.                                       *)

\* What never changes: the instances commit to the witnesses.
Given ==
    /\ witnesses \in Seq(Witnesses)
    /\ \A i \in DOMAIN witnesses : FreshOutcome(witnesses[i].rows, witnesses[i].z) = Ok
    /\ instances = [i \in DOMAIN witnesses |->
                      FreshAccumulator(witnesses[i].rows, witnesses[i].z)]

LEMMA InitGiven == OpeningsInit => Init /\ Given
<1> SUFFICES ASSUME OpeningsInit PROVE Init /\ Given
  OBVIOUS
<1>1. PICK m \in 0 .. MaxChain : witnesses \in [1 .. m -> Witnesses]
  BY DEF OpeningsInit, BoundedSeq, SeqOf
<1>2. /\ \A i \in DOMAIN witnesses : FreshOutcome(witnesses[i].rows, witnesses[i].z) = Ok
      /\ instances = [i \in DOMAIN witnesses |->
                        FreshAccumulator(witnesses[i].rows, witnesses[i].z)]
  BY DEF OpeningsInit
<1>3. instances \in [1 .. m -> Instances]
  <2>1. ASSUME NEW i \in 1 .. m
        PROVE  FreshAccumulator(witnesses[i].rows, witnesses[i].z) \in Instances
    BY <1>1, <1>2, OpeningsAssumption
  <2> QED
    BY <1>1, <1>2, <2>1
<1>4. instances \in BoundedSeq(Instances, MaxChain)
  BY <1>3 DEF BoundedSeq, SeqOf
<1>5. witnesses \in Seq(Witnesses)
  BY <1>1, FoldChainAssumption
<1> QED
  BY <1>2, <1>4, <1>5 DEF OpeningsInit, Init, Given

\* The prover of Openings runs the loop of FoldChain and nothing else, so that
\* every theorem about the loop is one about it.
THEOREM RunsTheLoop == OpeningsSpec => Spec
<1>1. [OpeningsNext]_<<vars, witnesses>> => [Next]_vars
  BY DEF OpeningsNext
<1> QED
  BY <1>1, InitGiven, PTL DEF OpeningsSpec, Spec

LEMMA GivenAlways == OpeningsSpec => []Given
<1>1. Given /\ [OpeningsNext]_<<vars, witnesses>> => Given'
  <2> SUFFICES ASSUME Given, [OpeningsNext]_<<vars, witnesses>> PROVE Given'
    OBVIOUS
  <2>1. instances' = instances /\ witnesses' = witnesses
    BY DEF OpeningsNext, Next, vars, RejectEmpty, Seed, ProveStep, MergeFails, Finish
  <2> QED
    BY <2>1 DEF Given
<1> QED
  BY <1>1, InitGiven, PTL DEF OpeningsSpec

\* What a fresh accumulator is made of.
LEMMA FreshParts ==
    ASSUME NEW w \in Witnesses, FreshOutcome(w.rows, w.z) = Ok
    PROVE  /\ CommitOutcome(w.z) = Ok /\ CommitOutcome(Zeros(Len(w.rows))) = Ok
           /\ DOMAIN w.z \in SUBSET DOMAIN Key.generators /\ w.z \in [DOMAIN w.z -> Scalar]
           /\ 1 .. Len(w.rows) \in SUBSET DOMAIN Key.generators
           /\ Blinder("acc.z", w.z) \in Scalar /\ Blinder("acc.e", Zeros(Len(w.rows))) \in Scalar
<1>1. w.z \in Seq(Scalar) /\ w.rows \in Seq(RelaxedRow)
  BY OpeningsAssumption
<1>2. CommitOutcome(w.z) = Ok /\ CommitOutcome(Zeros(Len(w.rows))) = Ok
  BY DEF FreshOutcome
<1>3. PolyTooLarge # Ok
  BY DEF PolyTooLarge, Ok
<1>4. Len(w.z) <= Len(Key.generators)
  BY <1>2, <1>3 DEF CommitOutcome
<1>5. Len(Zeros(Len(w.rows))) <= Len(Key.generators)
  BY <1>2, <1>3 DEF CommitOutcome
<1>6. Len(w.rows) \in Nat /\ Len(w.z) \in Nat /\ DOMAIN w.z = 1 .. Len(w.z)
  BY <1>1
<1>7. Len(Zeros(Len(w.rows))) = Len(w.rows)
  <2> DEFINE n == Len(w.rows)
  <2>1. n \in Nat
    BY <1>6
  <2> HIDE DEF n
  <2>2. Zeros(n) \in Seq({0}) /\ Len(Zeros(n)) = n
    BY <2>1 DEF Zeros
  <2> QED
    BY <2>2 DEF n
<1>8. DOMAIN w.z \in SUBSET DOMAIN Key.generators /\ 1 .. Len(w.rows) \in SUBSET DOMAIN Key.generators
  BY <1>4, <1>5, <1>6, <1>7, KeyPoints
<1>9. Blinder("acc.z", w.z) \in Scalar /\ Blinder("acc.e", Zeros(Len(w.rows))) \in Scalar
  <2>1. BlinderHash("acc.z", w.z) \in Bytes32 /\ BlinderHash("acc.e", Zeros(Len(w.rows))) \in Bytes32
    BY OpeningsAssumption
  <2>2. \A h \in Bytes32 : Challenge(h) \in Scalar
    BY ChallengesAreScalars DEF Challenges
  <2> QED
    BY <2>1, <2>2 DEF Blinder
<1>10. w.z \in [DOMAIN w.z -> Scalar]
  BY <1>1
<1> QED
  BY <1>2, <1>8, <1>9, <1>10

\* A vector of zeros commits as the empty one.
LEMMA BlindedZeros ==
    ASSUME NEW n \in Nat, 1 .. n \in SUBSET DOMAIN Key.generators, NEW r \in Int
    PROVE  Blinded(Zeros(n), r) = Blinded(<<>>, r)
<1> DEFINE none == <<>>
           zeros == Zeros(n)
<1>1. none \in [{} -> Int] /\ {} \in SUBSET DOMAIN Key.generators
  OBVIOUS
<1>2. zeros \in [1 .. n -> Int] /\ \A j \in 1 .. n : zeros[j] = 0
  BY DEF Zeros
<1> HIDE DEF none, zeros
<1>3. Blinded(Padded(none), r) = Blinded(none, r)
  BY <1>1, BlindedPads
<1>4. Blinded(Padded(zeros), r) = Blinded(zeros, r)
  BY <1>2, BlindedPads
<1>5. Padded(none) = Padded(zeros)
  BY <1>1, <1>2 DEF Padded, Entry
<1> QED
  BY <1>3, <1>4, <1>5 DEF none, zeros

----------------------------------------------------------------------------
(* The folds.                                                              *)

\* What k instances add up to is an integer, whatever their values.
LEMMA WeightedType ==
    ASSUME steps \in Seq(FoldStep), NEW k \in Nat \ {0}, k - 1 <= Len(steps),
           NEW values \in [1 .. k -> Int]
    PROVE  Weighted(values) \in Int
<1> DEFINE terms == [j \in 1 .. k - 1 |-> steps[j].challenge * values[j + 1]]
           S == 1 .. k - 1
<1>1. ASSUME NEW j \in 1 .. k - 1 PROVE steps[j].challenge * values[j + 1] \in Int
  <2>1. steps[j] \in FoldStep
    BY Len(steps) \in Nat
  <2>2. j + 1 \in 1 .. k
    OBVIOUS
  <2>3. steps[j].challenge \in Int /\ values[j + 1] \in Int
    BY <2>1, <2>2, ScalarBytes DEF FoldStep
  <2> QED
    BY <2>3
<1>2. terms \in [S -> Int] /\ IsFiniteSet(S)
  <2>1. terms \in [S -> Int]
    BY <1>1
  <2>2. 1 \in Int /\ k - 1 \in Int
    OBVIOUS
  <2>3. IsFiniteSet(S)
    BY <2>2, FS_Interval
  <2> QED
    BY <2>1, <2>3
<1>3. Len(values) = k
  OBVIOUS
<1>4. values[1] \in Int
  OBVIOUS
<1>5. Weighted(values) = (values[1] + SumFunction(terms)) % Order
  BY <1>3 DEF Weighted
<1> HIDE DEF terms, S
<1>6. SumFunction(terms) \in Int
  BY <1>2, SumType
<1>7. values[1] + SumFunction(terms) \in Int
  BY <1>4, <1>6
<1>8. Weighted(values) \in Scalar
  BY <1>5, <1>7, DivMod
<1> QED
  BY <1>8, ScalarBytes

\* The first of n commitments opens to the first message, and every other is
\* the combination of the one before with a commitment to the next message.
FoldsOpenings(comm, msgs, blinders, D, n) ==
    /\ n \in Nat \ {0} /\ n - 1 <= Len(steps)
    /\ D \in SUBSET DOMAIN Key.generators
    /\ msgs \in [1 .. n -> [D -> Scalar]] /\ blinders \in [1 .. n -> Scalar]
    /\ comm \in [1 .. n -> Int]
    /\ comm[1] = Blinded(msgs[1], blinders[1])
    /\ \A k \in 1 .. n - 1 :
          comm[k + 1] = Combine(comm[k], steps[k].challenge,
                                Blinded(msgs[k + 1], blinders[k + 1]))

\* A commitment that every fold combines opens to the weighted message, under
\* the weighted blinder.
LEMMA ReplayedOpening ==
    ASSUME steps \in Seq(FoldStep), NEW comm, NEW msgs, NEW blinders, NEW D, NEW n,
           FoldsOpenings(comm, msgs, blinders, D, n)
    PROVE  \A k \in 1 .. n :
              comm[k] = Blinded([j \in D |-> Weighted([i \in 1 .. k |-> msgs[i][j]])],
                                Weighted([i \in 1 .. k |-> blinders[i]]))
<1>0. /\ n \in Nat \ {0} /\ n - 1 <= Len(steps)
      /\ D \in SUBSET DOMAIN Key.generators
      /\ msgs \in [1 .. n -> [D -> Scalar]] /\ blinders \in [1 .. n -> Scalar]
      /\ comm \in [1 .. n -> Int]
      /\ comm[1] = Blinded(msgs[1], blinders[1])
      /\ \A k \in 1 .. n - 1 :
            comm[k + 1] = Combine(comm[k], steps[k].challenge,
                                  Blinded(msgs[k + 1], blinders[k + 1]))
  BY DEF FoldsOpenings
<1> USE <1>0
<1> DEFINE at(k, j) == [i \in 1 .. k |-> msgs[i][j]]
           upTo(k) == [i \in 1 .. k |-> blinders[i]]
           message(k) == [j \in D |-> Weighted(at(k, j))]
           blinder(k) == Weighted(upTo(k))
           Good == {m \in Nat : m + 1 <= n =>
                       comm[m + 1] = Blinded(message(m + 1), blinder(m + 1))}
<1>1. ASSUME NEW k \in 1 .. n
      PROVE  /\ upTo(k) \in [1 .. k -> Int] /\ upTo(k)[k] = blinders[k] /\ blinders[k] \in Int
             /\ \A j \in D : /\ at(k, j) \in [1 .. k -> Int] /\ at(k, j)[k] = msgs[k][j]
                             /\ msgs[k][j] \in Int
  <2>1. ASSUME NEW i \in 1 .. k PROVE blinders[i] \in Int /\ \A j \in D : msgs[i][j] \in Int
    <3>1. i \in 1 .. n
      OBVIOUS
    <3>2. blinders[i] \in Scalar /\ msgs[i] \in [D -> Scalar]
      BY <3>1
    <3> QED
      BY <3>2, ScalarBytes
  <2>2. k \in 1 .. k
    OBVIOUS
  <2>3. upTo(k) \in [1 .. k -> Int] /\ upTo(k)[k] = blinders[k]
    BY <2>1, <2>2
  <2>4. ASSUME NEW j \in D PROVE at(k, j) \in [1 .. k -> Int] /\ at(k, j)[k] = msgs[k][j]
    BY <2>1, <2>2
  <2> HIDE DEF at, upTo
  <2> QED
    BY <2>1, <2>2, <2>3, <2>4
<1>2. 0 \in Good
  <2>1. 1 \in 1 .. n
    OBVIOUS
  <2>2. upTo(1) \in [1 .. 1 -> Int] /\ upTo(1)[1] = blinders[1] /\ blinders[1] \in Scalar
    BY <1>1, <2>1
  <2>3. blinder(1) = blinders[1]
    <3> HIDE DEF upTo
    <3> QED
      BY <2>2, WeightedAlone
  <2>4. ASSUME NEW j \in D PROVE Weighted(at(1, j)) = msgs[1][j]
    <3>1. at(1, j) \in [1 .. 1 -> Int] /\ at(1, j)[1] = msgs[1][j] /\ msgs[1][j] \in Scalar
      BY <1>1, <2>1
    <3> HIDE DEF at
    <3> QED
      BY <3>1, WeightedAlone
  <2>5. message(1) = msgs[1]
    <3>1. msgs[1] \in [D -> Scalar]
      BY <2>1
    <3> HIDE DEF at
    <3> QED
      BY <2>4, <3>1
  <2> HIDE DEF message, blinder
  <2> QED
    BY <2>3, <2>5
<1>3. ASSUME NEW m \in Nat, m \in Good PROVE m + 1 \in Good
  <2> SUFFICES ASSUME (m + 1) + 1 <= n
               PROVE  comm[(m + 1) + 1] = Blinded(message((m + 1) + 1), blinder((m + 1) + 1))
    OBVIOUS
  <2> DEFINE k == m + 1
             c == steps[k].challenge
  <2>1. /\ k \in 1 .. n - 1 /\ k \in 1 .. n /\ k + 1 \in 1 .. n /\ k \in Nat \ {0}
        /\ Len(steps) \in Nat
    OBVIOUS
  <2>2. k \in 1 .. Len(steps) /\ k - 1 <= Len(steps)
    BY <2>1
  <2>3. comm[k] = Blinded(message(k), blinder(k))
    BY <1>3, <2>1
  <2>4. comm[k + 1] = Combine(comm[k], c, Blinded(msgs[k + 1], blinders[k + 1]))
    BY <2>1
  <2>5. c \in Int
    <3>1. steps[k] \in FoldStep
      BY <2>2
    <3> QED
      BY <3>1, ScalarBytes DEF FoldStep
  <2> HIDE DEF Good, k, c
  <2>6. ASSUME NEW j \in D
        PROVE  /\ Weighted(at(k, j)) \in Int /\ Weighted(at(k + 1, j)) \in Int
               /\ Weighted(at(k + 1, j)) = Combine(Weighted(at(k, j)), c, msgs[k + 1][j])
    <3> DEFINE new == at(k + 1, j)
               old == at(k, j)
    <3>1. new \in [1 .. k + 1 -> Int] /\ new[k + 1] = msgs[k + 1][j] /\ old \in [1 .. k -> Int]
      BY <1>1, <2>1
    <3>2. old = [i \in 1 .. k |-> new[i]]
      BY <2>1
    <3> HIDE DEF new, old
    <3>3. Weighted(new) = Combine(Weighted([i \in 1 .. k |-> new[i]]), steps[k].challenge, new[k + 1])
      BY <2>2, <3>1, WeightedExtends
    <3>4. Weighted(old) \in Int
      BY <2>1, <2>2, <3>1, WeightedType
    <3>5. (k + 1) - 1 <= Len(steps) /\ k + 1 \in Nat \ {0}
      BY <2>1, <2>2
    <3>6. Weighted(new) \in Int
      BY <3>1, <3>5, WeightedType
    <3> QED
      BY <3>1, <3>2, <3>3, <3>4, <3>6 DEF new, old, c
  <2>7. /\ blinder(k) \in Int /\ blinder(k + 1) \in Int
        /\ blinder(k + 1) = Combine(blinder(k), c, blinders[k + 1])
    <3> DEFINE new == upTo(k + 1)
               old == upTo(k)
    <3>1. new \in [1 .. k + 1 -> Int] /\ new[k + 1] = blinders[k + 1] /\ old \in [1 .. k -> Int]
      BY <1>1, <2>1
    <3>2. old = [i \in 1 .. k |-> new[i]]
      BY <2>1
    <3> HIDE DEF new, old
    <3>3. Weighted(new) = Combine(Weighted([i \in 1 .. k |-> new[i]]), steps[k].challenge, new[k + 1])
      BY <2>2, <3>1, WeightedExtends
    <3>4. Weighted(old) \in Int
      BY <2>1, <2>2, <3>1, WeightedType
    <3>5. (k + 1) - 1 <= Len(steps) /\ k + 1 \in Nat \ {0}
      BY <2>1, <2>2
    <3>6. Weighted(new) \in Int
      BY <3>1, <3>5, WeightedType
    <3> QED
      BY <3>1, <3>2, <3>3, <3>4, <3>6 DEF new, old, c
  <2> HIDE DEF at, upTo
  <2>8. message(k) \in [D -> Int] /\ message(k + 1) \in [D -> Int]
    BY <2>6
  <2>9. msgs[k + 1] \in [D -> Int] /\ blinders[k + 1] \in Int
    <3>1. msgs[k + 1] \in [D -> Scalar]
      BY <2>1
    <3> QED
      BY <1>1, <2>1, <3>1, ScalarBytes
  <2>10. \A j \in D : message(k + 1)[j] = Combine(message(k)[j], c, msgs[k + 1][j])
    BY <2>6
  <2> HIDE DEF message, blinder
  <2>11. Blinded(message(k + 1), blinder(k + 1))
         = Combine(Blinded(message(k), blinder(k)), c, Blinded(msgs[k + 1], blinders[k + 1]))
    <3> DEFINE m1 == message(k)
               m2 == msgs[k + 1]
               m3 == message(k + 1)
               b1 == blinder(k)
               b2 == blinders[k + 1]
               b3 == blinder(k + 1)
    <3>1. CombinedOpening(m3, b3, m1, b1, c, m2, b2, D)
      BY <2>5, <2>7, <2>8, <2>9, <2>10 DEF CombinedOpening
    <3> HIDE DEF m1, m2, m3, b1, b2, b3
    <3>2. Blinded(m3, b3) = Combine(Blinded(m1, b1), c, Blinded(m2, b2))
      BY <3>1, BlindedCombines
    <3> QED
      BY <3>2 DEF m1, m2, m3, b1, b2, b3
  <2>12. comm[k + 1] = Blinded(message(k + 1), blinder(k + 1))
    BY <2>3, <2>4, <2>11
  <2> QED
    BY <2>12 DEF k
<1> HIDE DEF Good, message, blinder
<1>4. \A m \in Nat : m \in Good
  BY <1>2, <1>3, SetInduction
<1>5. ASSUME NEW k \in 1 .. n PROVE comm[k] = Blinded(message(k), blinder(k))
  <2>1. k - 1 \in Good /\ (k - 1) + 1 = k
    BY <1>4
  <2> QED
    BY <2>1 DEF Good
<1> QED
  BY <1>5 DEF message, blinder

----------------------------------------------------------------------------
(* The theorem.                                                            *)

\* An instance opens to its witness.
LEMMA FreshOpens ==
    ASSUME Given, NEW i \in DOMAIN instances
    PROVE  LET w == witnesses[i]
           IN  /\ VerifyOpening(w.z, "acc.z", instances[i].commitment_z) = Ok
               /\ VerifyOpening(Zeros(Len(w.rows)), "acc.e", instances[i].commitment_e) = Ok
<1> DEFINE w == witnesses[i]
<1>1. i \in DOMAIN witnesses /\ instances[i] = FreshAccumulator(w.rows, w.z)
  BY DEF Given
<1>2. w \in Witnesses /\ FreshOutcome(w.rows, w.z) = Ok
  BY <1>1 DEF Given
<1> HIDE DEF w
<1>3. CommitOutcome(w.z) = Ok /\ CommitOutcome(Zeros(Len(w.rows))) = Ok
  BY <1>2, FreshParts
<1>4. /\ instances[i].commitment_z = Commit(w.z, "acc.z")
      /\ instances[i].commitment_e = Commit(Zeros(Len(w.rows)), "acc.e")
  BY <1>1 DEF FreshAccumulator
<1>5. /\ VerifyOpening(w.z, "acc.z", instances[i].commitment_z) = Ok
      /\ VerifyOpening(Zeros(Len(w.rows)), "acc.e", instances[i].commitment_e) = Ok
  BY <1>3, <1>4 DEF VerifyOpening
<1> QED
  BY <1>5 DEF w

\* Its commitments are scalars, the second one to nothing but its blinder.
LEMMA FreshCommitments ==
    ASSUME NEW w \in Witnesses, FreshOutcome(w.rows, w.z) = Ok
    PROVE  LET fresh == FreshAccumulator(w.rows, w.z)
           IN  /\ Padded(w.z) \in [DOMAIN Key.generators -> Scalar]
               /\ Blinder("acc.z", w.z) \in Scalar
               /\ Blinder("acc.e", Zeros(Len(w.rows))) \in Scalar
               /\ fresh.commitment_z \in Scalar /\ fresh.commitment_e \in Scalar
               /\ fresh.commitment_z = Blinded(Padded(w.z), Blinder("acc.z", w.z))
               /\ fresh.commitment_e = Blinded(<<>>, Blinder("acc.e", Zeros(Len(w.rows))))
<1> DEFINE fresh == FreshAccumulator(w.rows, w.z)
           z == w.z
           zeros == Zeros(Len(w.rows))
           bz == Blinder("acc.z", z)
           be == Blinder("acc.e", zeros)
<1>1. /\ DOMAIN z \in SUBSET DOMAIN Key.generators /\ z \in [DOMAIN z -> Scalar]
      /\ 1 .. Len(w.rows) \in SUBSET DOMAIN Key.generators
      /\ bz \in Scalar /\ be \in Scalar
  BY FreshParts
<1>2. fresh.commitment_z = Blinded(z, bz) /\ fresh.commitment_e = Blinded(zeros, be)
  BY DEF FreshAccumulator, Commit
<1>3. Len(w.rows) \in Nat
  BY OpeningsAssumption
<1>4. 0 \in Scalar
  BY FieldAssumption DEF Scalar
<1>5. Padded(z) \in [DOMAIN Key.generators -> Scalar]
  <2>1. ASSUME NEW j \in DOMAIN Key.generators PROVE Entry(z, j) \in Scalar
    BY <1>1, <1>4 DEF Entry
  <2> QED
    BY <2>1 DEF Padded
<1> DEFINE D == DOMAIN z
<1>6. D \in SUBSET DOMAIN Key.generators /\ z \in [D -> Int] /\ bz \in Int /\ be \in Int
  BY <1>1, ScalarBytes
<1> HIDE DEF fresh, bz, be, D, z
<1>7. Blinded(z, bz) = Blinded(Padded(z), bz) /\ Blinded(z, bz) \in Scalar
  BY <1>6, BlindedPads, TermsType
<1>8. Blinded(zeros, be) = Blinded(<<>>, be)
  BY <1>1, <1>3, <1>6, BlindedZeros
<1>9. Blinded(zeros, be) \in Scalar
  <2> DEFINE E == 1 .. Len(w.rows)
  <2>1. E \in SUBSET DOMAIN Key.generators /\ zeros \in [E -> Int]
    BY <1>1 DEF Zeros
  <2> HIDE DEF E, zeros
  <2> QED
    BY <1>6, <2>1, TermsType
<1> QED
  BY <1>1, <1>2, <1>5, <1>7, <1>8, <1>9 DEF fresh, bz, be, z

\* What every fold does to the two commitments.
LEMMA FoldsCommitments ==
    ASSUME TypeOK, FoldsInstances, Given, NEW k \in 1 .. Len(accs) - 1
    PROVE  /\ accs[k + 1].commitment_z = CombineCommitments(accs[k].commitment_z,
                                             instances[k + 1].commitment_z, steps[k].challenge)
           /\ accs[k + 1].commitment_e = CombineCommitments(accs[k].commitment_e,
                                             instances[k + 1].commitment_e, steps[k].challenge)
BY MergeParts DEF FoldsInstances

\* Every commitment of the loop is a scalar: nothing fails to decode.
LEMMA CommitmentsDecode ==
    ASSUME TypeOK, FoldsInstances, Given
    PROVE  \A k \in 1 .. Len(accs) :
              accs[k].commitment_z \in Scalar /\ accs[k].commitment_e \in Scalar
<1> DEFINE n == Len(accs)
<1>1. /\ n \in Nat /\ n <= Len(instances) /\ Len(instances) \in Nat /\ steps \in Seq(FoldStep)
      /\ accs \in Seq(AccumulatorType) /\ (accs # <<>> => Len(steps) = n - 1)
  BY DEF TypeOK
<1>2. ASSUME NEW k \in 1 .. n
      PROVE  accs[k].commitment_z \in Scalar /\ accs[k].commitment_e \in Scalar
  <2>1. accs # <<>>
    BY <1>1, <1>2
  <2>2. CASE k = 1
    <3>1. accs[1] = instances[1] /\ 1 \in DOMAIN instances
      BY <1>1, <1>2, <2>1 DEF FoldsInstances
    <3>2. /\ 1 \in DOMAIN witnesses /\ witnesses[1] \in Witnesses
          /\ FreshOutcome(witnesses[1].rows, witnesses[1].z) = Ok
          /\ instances[1] = FreshAccumulator(witnesses[1].rows, witnesses[1].z)
      BY <3>1 DEF Given
    <3> QED
      BY <2>2, <3>1, <3>2, FreshCommitments
  <2>3. CASE k # 1
    <3> DEFINE j == k - 1
    <3>1. j \in 1 .. n - 1 /\ j + 1 = k /\ j \in 1 .. n /\ j + 1 \in 1 .. Len(instances)
      BY <1>1, <2>3
    <3>2. j \in 1 .. Len(steps)
      BY <1>1, <2>1, <3>1
    <3>3. steps[j].challenge \in Scalar
      <4>1. steps[j] \in FoldStep
        BY <1>1, <3>2
      <4> QED
        BY <4>1 DEF FoldStep
    <3>4. accs[j] \in AccumulatorType /\ instances[j + 1] \in AccumulatorType
      BY <1>1, <3>1, FoldChainAssumption DEF TypeOK
    <3>5. /\ accs[j].commitment_z \in Commitment /\ accs[j].commitment_e \in Commitment
          /\ instances[j + 1].commitment_z \in Commitment
          /\ instances[j + 1].commitment_e \in Commitment
      BY <3>4 DEF AccumulatorType
    <3> HIDE DEF j, n
    <3>6. /\ accs[j + 1].commitment_z = CombineCommitments(accs[j].commitment_z,
                                             instances[j + 1].commitment_z, steps[j].challenge)
          /\ accs[j + 1].commitment_e = CombineCommitments(accs[j].commitment_e,
                                             instances[j + 1].commitment_e, steps[j].challenge)
      BY <3>1, FoldsCommitments DEF n
    <3>7. accs[j + 1].commitment_z \in Scalar /\ accs[j + 1].commitment_e \in Scalar
      BY <3>3, <3>5, <3>6, PointsCombine
    <3> QED
      BY <3>1, <3>7
  <2> QED
    BY <2>2, <2>3
<1> QED
  BY <1>2

\* CombineCommitments of two scalars is Combine of them.
LEMMA ScalarsCombine ==
    ASSUME NEW a \in Scalar, NEW b \in Scalar, NEW r
    PROVE  CombineCommitments(a, b, r) = Combine(a, r, b)
BY AccumulatorAssumption DEF CombineCommitments, Point

\* The commitments of every accumulator open, as CommitmentsOpen says.
LEMMA AccumulatorsOpen ==
    ASSUME TypeOK, FoldsInstances, Given, NEW k \in DOMAIN accs
    PROVE  /\ accs[k].commitment_z = Blinded(FoldedZ(k), FoldedBlinderZ(k))
           /\ accs[k].commitment_e = Blinded(<<>>, FoldedBlinderE(k))
<1> DEFINE n == Len(accs)
           D == DOMAIN Key.generators
           w(i) == witnesses[i]
           fresh(i) == FreshAccumulator(w(i).rows, w(i).z)
           msgs == [i \in 1 .. n |-> Padded(w(i).z)]
           bz == [i \in 1 .. n |-> Blinder("acc.z", w(i).z)]
           be == [i \in 1 .. n |-> Blinder("acc.e", Zeros(Len(w(i).rows)))]
           cz == [i \in 1 .. n |-> accs[i].commitment_z]
           ce == [i \in 1 .. n |-> accs[i].commitment_e]
<1>1. /\ accs \in Seq(AccumulatorType) /\ n \in Nat /\ n <= Len(instances)
      /\ Len(instances) \in Nat /\ steps \in Seq(FoldStep)
  BY DEF TypeOK
<1>2. accs # <<>> /\ k \in 1 .. n /\ n \in Nat \ {0}
  BY <1>1
<1>3. Len(steps) = n - 1 /\ n - 1 <= Len(steps)
  BY <1>1, <1>2 DEF TypeOK
<1>4. ASSUME NEW i \in 1 .. n
      PROVE  /\ w(i) \in Witnesses /\ FreshOutcome(w(i).rows, w(i).z) = Ok
             /\ instances[i] = fresh(i)
  <2>1. i \in DOMAIN instances
    BY <1>1
  <2> QED
    BY <2>1 DEF Given
<1> HIDE DEF w, n
<1>5. ASSUME NEW i \in 1 .. n
      PROVE  /\ Padded(w(i).z) \in [D -> Scalar]
             /\ Blinder("acc.z", w(i).z) \in Scalar
             /\ Blinder("acc.e", Zeros(Len(w(i).rows))) \in Scalar
             /\ instances[i].commitment_z \in Scalar /\ instances[i].commitment_e \in Scalar
             /\ instances[i].commitment_z = Blinded(Padded(w(i).z), Blinder("acc.z", w(i).z))
             /\ instances[i].commitment_e = Blinded(<<>>, Blinder("acc.e", Zeros(Len(w(i).rows))))
  BY <1>4, FreshCommitments
<1>6. msgs \in [1 .. n -> [D -> Scalar]] /\ bz \in [1 .. n -> Scalar] /\ be \in [1 .. n -> Scalar]
  <2>1. msgs \in [1 .. n -> [D -> Scalar]]
    <3> HIDE DEF D
    <3> QED
      BY <1>5
  <2>2. bz \in [1 .. n -> Scalar] /\ be \in [1 .. n -> Scalar]
    BY <1>5
  <2> QED
    BY <2>1, <2>2
<1>7. ASSUME NEW i \in 1 .. n
      PROVE  accs[i].commitment_z \in Scalar /\ accs[i].commitment_e \in Scalar
  BY CommitmentsDecode DEF n
<1>8. cz \in [1 .. n -> Int] /\ ce \in [1 .. n -> Int]
  BY <1>7, ScalarBytes
<1>9. 1 \in 1 .. n /\ accs[1] = instances[1]
  BY <1>2 DEF FoldsInstances
<1>10. ASSUME NEW i \in 1 .. n - 1
       PROVE  /\ i \in 1 .. n /\ i + 1 \in 1 .. n
              /\ accs[i + 1].commitment_z = Combine(accs[i].commitment_z, steps[i].challenge,
                                                    instances[i + 1].commitment_z)
              /\ accs[i + 1].commitment_e = Combine(accs[i].commitment_e, steps[i].challenge,
                                                    instances[i + 1].commitment_e)
  <2>1. i \in 1 .. n /\ i + 1 \in 1 .. n
    BY <1>2
  <2>2. /\ accs[i + 1].commitment_z = CombineCommitments(accs[i].commitment_z,
                                          instances[i + 1].commitment_z, steps[i].challenge)
        /\ accs[i + 1].commitment_e = CombineCommitments(accs[i].commitment_e,
                                          instances[i + 1].commitment_e, steps[i].challenge)
    BY FoldsCommitments DEF n
  <2> QED
    BY <1>5, <1>7, <2>1, <2>2, ScalarsCombine
<1>11. accs[k].commitment_z = Blinded(FoldedZ(k), FoldedBlinderZ(k))
  <2>1. cz[1] = Blinded(msgs[1], bz[1])
    BY <1>5, <1>9
  <2>2. \A i \in 1 .. n - 1 :
           cz[i + 1] = Combine(cz[i], steps[i].challenge, Blinded(msgs[i + 1], bz[i + 1]))
    BY <1>5, <1>10
  <2>3. D \in SUBSET DOMAIN Key.generators
    OBVIOUS
  <2>4. \A j \in D : [i \in 1 .. k |-> msgs[i][j]] = [i \in 1 .. k |-> Entry(witnesses[i].z, j)]
    BY <1>2 DEF Padded, w
  <2>5. [i \in 1 .. k |-> bz[i]] = [i \in 1 .. k |-> Blinder("acc.z", witnesses[i].z)]
    BY <1>2 DEF w
  <2>6. cz[k] = accs[k].commitment_z
    BY <1>2
  <2>7. FoldedZ(k) = [j \in D |-> Weighted([i \in 1 .. k |-> Entry(witnesses[i].z, j)])]
    BY DEF FoldedZ
  <2> HIDE DEF D, cz, msgs, bz
  <2>10. FoldsOpenings(cz, msgs, bz, D, n)
    BY <1>2, <1>3, <1>6, <1>8, <2>1, <2>2, <2>3 DEF FoldsOpenings
  <2>8. cz[k] = Blinded([j \in D |-> Weighted([i \in 1 .. k |-> msgs[i][j]])],
                        Weighted([i \in 1 .. k |-> bz[i]]))
    BY <1>1, <1>2, <2>10, ReplayedOpening
  <2>9. [j \in D |-> Weighted([i \in 1 .. k |-> msgs[i][j]])] = FoldedZ(k)
    BY <2>4, <2>7
  <2> QED
    BY <2>5, <2>6, <2>8, <2>9 DEF FoldedBlinderZ
<1>12. accs[k].commitment_e = Blinded(<<>>, FoldedBlinderE(k))
  <2> DEFINE empty == [i \in 1 .. n |-> <<>>]
             E == {}
  <2>1. ce[1] = Blinded(empty[1], be[1])
    BY <1>5, <1>9
  <2>2. \A i \in 1 .. n - 1 :
           ce[i + 1] = Combine(ce[i], steps[i].challenge, Blinded(empty[i + 1], be[i + 1]))
    BY <1>5, <1>10
  <2>3. E \in SUBSET DOMAIN Key.generators /\ empty \in [1 .. n -> [E -> Scalar]]
    <3>1. <<>> \in [E -> Scalar]
      OBVIOUS
    <3> HIDE DEF E
    <3> QED
      BY <3>1 DEF E
  <2>4. [j \in E |-> Weighted([i \in 1 .. k |-> empty[i][j]])] = <<>>
    OBVIOUS
  <2>5. [i \in 1 .. k |-> be[i]]
        = [i \in 1 .. k |-> Blinder("acc.e", Zeros(Len(witnesses[i].rows)))]
    BY <1>2 DEF w
  <2>6. ce[k] = accs[k].commitment_e
    BY <1>2
  <2> HIDE DEF E, ce, empty, be
  <2>10. FoldsOpenings(ce, empty, be, E, n)
    BY <1>2, <1>3, <1>6, <1>8, <2>1, <2>2, <2>3 DEF FoldsOpenings
  <2>7. ce[k] = Blinded([j \in E |-> Weighted([i \in 1 .. k |-> empty[i][j]])],
                        Weighted([i \in 1 .. k |-> be[i]]))
    BY <1>1, <1>2, <2>10, ReplayedOpening
  <2> QED
    BY <2>4, <2>5, <2>6, <2>7 DEF FoldedBlinderE
<1> QED
  BY <1>11, <1>12

\* Openings!CommitmentsOpen, for every key, every set of witnesses and every
\* chain of challenges: what commit_scalars and combine compute keeps the
\* commitments of the running accumulator openable by a prover that remembers
\* its witnesses and the challenges.
THEOREM CommitmentsOpenAlways == OpeningsSpec => []CommitmentsOpen
<1>1. TypeOK /\ FoldsInstances /\ Given => CommitmentsOpen
  <2> SUFFICES ASSUME TypeOK, FoldsInstances, Given PROVE CommitmentsOpen
    OBVIOUS
  <2> QED
    BY FreshOpens, AccumulatorsOpen DEF CommitmentsOpen
<1> QED
  BY <1>1, RunsTheLoop, TypeCorrect, FoldsInstancesAlways, GivenAlways, PTL
============================================================================

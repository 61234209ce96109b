-------------------------- MODULE FoldChainProofs --------------------------
(***************************************************************************)
(* What holds of the IVC loop for every field, every set of instances and  *)
(* every chain: its types, that satisfied instances fold to a satisfied    *)
(* accumulator, that it implements DefectFold, what its results mean, that *)
(* it hides no defect, and what a replay determines.                       *)
(***************************************************************************)
EXTENDS FoldChain, AccumulatorTheorems

----------------------------------------------------------------------------
(* The loop.                                                               *)

\* A running loop has no result yet.
LEMMA RunningIsNoResult ==
    /\ Ok # Running
    /\ \A n : Running # Violated(n)
    /\ \A S : Running # AtFirst(S)
BY DEF Ok, Violated, Running, AtFirst

\* What a fold step does to the running accumulator, for the proofs below.
LEMMA ProveStepEffect ==
    ASSUME TypeOK, NEW r \in Challenges, ProveStep(r)
    PROVE  LET old == accs[Len(accs)]
               fresh == instances[Len(accs) + 1]
           IN  /\ accs # <<>> /\ Len(accs) \in Nat \ {0} /\ Len(accs) + 1 \in DOMAIN instances
               /\ old \in AccumulatorType /\ fresh \in AccumulatorType /\ r \in Scalar
               /\ MergeOutcome(old, fresh) = Ok
               /\ Merge(old, fresh, r) \in AccumulatorType
               /\ accs' = Append(accs, Merge(old, fresh, r))
               /\ steps' = Append(steps, [challenge |-> r, index |-> Merge(old, fresh, r).step])
<1> DEFINE old == accs[Len(accs)]
           fresh == instances[Len(accs) + 1]
<1>1. /\ accs \in Seq(AccumulatorType) /\ instances \in Seq(Instances)
      /\ accs # <<>> /\ Len(accs) < Len(instances)
  BY DEF TypeOK, ProveStep, MoreToFold
<1>2. Len(accs) \in Nat \ {0} /\ Len(accs) + 1 \in DOMAIN instances
  BY <1>1
<1>3. old \in AccumulatorType /\ fresh \in AccumulatorType
  BY <1>1, <1>2, FoldChainAssumption
<1>4. /\ MergeOutcome(old, fresh) = Ok
      /\ accs' = Append(accs, Merge(old, fresh, r))
      /\ steps' = Append(steps, [challenge |-> r, index |-> Merge(old, fresh, r).step])
  BY DEF ProveStep, Last, Fresh
<1>5. r \in Scalar
  BY ChallengesAreScalars
<1>6. Merge(old, fresh, r) \in AccumulatorType
  BY <1>3, <1>4, <1>5, MergeType
<1> QED
  BY <1>1, <1>2, <1>3, <1>4, <1>5, <1>6

LEMMA InitType == Init => TypeOK
<1> SUFFICES ASSUME Init PROVE TypeOK
  OBVIOUS
<1>1. PICK m \in 0 .. MaxChain : instances \in [1 .. m -> Instances]
  BY DEF Init, BoundedSeq, SeqOf
<1>2. instances \in Seq(Instances) /\ Len(instances) \in Nat
  BY <1>1, FoldChainAssumption
<1> QED
  BY <1>2 DEF Init, TypeOK, Outcome

LEMMA NextType == TypeOK /\ [Next]_vars => TypeOK'
<1> SUFFICES ASSUME TypeOK, [Next]_vars PROVE TypeOK'
  OBVIOUS
<1>0. /\ instances \in Seq(Instances) /\ accs \in Seq(AccumulatorType)
      /\ Len(accs) <= Len(instances) /\ steps \in Seq(FoldStep)
      /\ Len(steps) = (IF accs = <<>> THEN 0 ELSE Len(accs) - 1)
      /\ outcome \in Outcome
  BY DEF TypeOK
<1>1. CASE RejectEmpty
  BY <1>0, <1>1 DEF RejectEmpty, TypeOK, Outcome, Violated
<1>2. CASE Seed
  <2>1. instances[1] \in AccumulatorType /\ Len(instances) >= 1
    BY <1>0, <1>2, FoldChainAssumption DEF Seed
  <2> QED
    BY <1>0, <1>2, <2>1 DEF Seed, TypeOK
<1>3. ASSUME NEW r \in Challenges, ProveStep(r)
      PROVE  TypeOK'
  <2> DEFINE merged == Merge(accs[Len(accs)], instances[Len(accs) + 1], r)
  <2>1. /\ merged \in AccumulatorType /\ r \in Scalar /\ accs # <<>>
        /\ accs' = Append(accs, merged)
        /\ steps' = Append(steps, [challenge |-> r, index |-> merged.step])
        /\ Len(accs) + 1 \in DOMAIN instances
    BY <1>3, ProveStepEffect
  <2> HIDE DEF merged
  <2>2. merged.step \in 0 .. MaxU64
    BY <2>1 DEF AccumulatorType
  <2>3. [challenge |-> r, index |-> merged.step] \in FoldStep
    BY <2>1, <2>2 DEF FoldStep
  <2>4. /\ accs' \in Seq(AccumulatorType) /\ Len(accs') = Len(accs) + 1 /\ accs' # <<>>
        /\ steps' \in Seq(FoldStep) /\ Len(steps') = Len(steps) + 1
    BY <1>0, <2>1, <2>3
  <2>5. UNCHANGED <<instances, outcome>>
    BY <1>3 DEF ProveStep
  <2> QED
    BY <1>0, <2>1, <2>4, <2>5 DEF TypeOK
<1>4. CASE MergeFails
  <2>1. /\ accs[Len(accs)] \in AccumulatorType
        /\ instances[Len(accs) + 1] \in AccumulatorType
    BY <1>0, <1>4, FoldChainAssumption DEF MergeFails, MoreToFold
  <2>2. outcome' \in Outcome
    BY <1>4, <2>1, MergeOutcomeType DEF MergeFails, Last, Fresh, Outcome
  <2> QED
    BY <1>0, <1>4, <2>2 DEF MergeFails, TypeOK
<1>5. CASE Finish
  BY <1>0, <1>5 DEF Finish, TypeOK, Outcome
<1>6. CASE UNCHANGED vars
  BY <1>0, <1>6 DEF vars, TypeOK
<1> QED
  BY <1>1, <1>2, <1>3, <1>4, <1>5, <1>6 DEF Next

\* The variables of the loop keep their types: in particular every accumulator
\* a fold produces is one that can be stored in 32-byte scalars.
THEOREM TypeCorrect == Spec => []TypeOK
BY InitType, NextType, PTL DEF Spec

----------------------------------------------------------------------------
(* Closure.                                                                *)

\* One merge of a satisfied, error-free instance into a satisfied accumulator.
LEMMA MergeSatisfied ==
    ASSUME NEW a \in AccumulatorType, NEW b \in AccumulatorType, NEW r \in Scalar,
           MergeOutcome(a, b) = Ok, ErrorFree(b), Satisfied(a), Satisfied(b)
    PROVE  Satisfied(Merge(a, b, r))
<1> DEFINE m == Merge(a, b, r)
<1>1. /\ m \in AccumulatorType /\ Len(m.rows) = Len(a.rows) /\ Canonical(m.u)
      /\ \A i \in 1 .. Len(a.rows) : CanonicalRow(m.rows[i])
  BY MergeType
<1>2. /\ a.rows \in Seq(RelaxedRow) /\ b.rows \in Seq(RelaxedRow)
      /\ m.rows \in Seq(RelaxedRow) /\ Len(a.rows) = Len(b.rows)
  BY <1>1, MergeOutcomeOk DEF AccumulatorType
<1>3. ASSUME NEW i \in 1 .. Len(a.rows)
      PROVE  Defect(m.u, m.rows[i]) = 0
  <2>1. Defect(a.u, a.rows[i]) = 0 /\ Defect(b.u, b.rows[i]) = 0
    BY <1>2, SatisfiedIff
  <2>2. Defect(m.u, m.rows[i])
        = (Defect(a.u, a.rows[i]) + r * r * Defect(b.u, b.rows[i])) % Order
    BY MergeDefects
  <2>3. r * r * 0 = 0
    BY FieldAssumption DEF Scalar
  <2>4. 0 % Order = 0
    BY ModScalar, FieldAssumption DEF Scalar
  <2> QED
    BY <2>1, <2>2, <2>3, <2>4
<1> QED
  BY <1>1, <1>2, <1>3, SatisfiedIff

\* Satisfied instances, error-free after the first, fold to satisfied
\* accumulators: for every field, chain and sequence of challenges.
THEOREM Closure == Spec => []ClosedUnderFolding
<1>1. Init => ClosedUnderFolding
  BY DEF Init, ClosedUnderFolding
<1>2. TypeOK /\ ClosedUnderFolding /\ [Next]_vars => ClosedUnderFolding'
  <2> SUFFICES ASSUME TypeOK, ClosedUnderFolding, [Next]_vars,
                      \A i \in DOMAIN instances' : Satisfied(instances'[i]),
                      \A i \in 2 .. Len(instances') : ErrorFree(instances'[i])
               PROVE  \A k \in DOMAIN accs' : Satisfied(accs'[k])
    BY DEF ClosedUnderFolding
  <2>1. UNCHANGED instances
    BY DEF Next, RejectEmpty, Seed, ProveStep, MergeFails, Finish, vars
  <2>2. /\ \A i \in DOMAIN instances : Satisfied(instances[i])
        /\ \A i \in 2 .. Len(instances) : ErrorFree(instances[i])
        /\ \A k \in DOMAIN accs : Satisfied(accs[k])
    BY <2>1 DEF ClosedUnderFolding
  <2>3. accs \in Seq(AccumulatorType) /\ instances \in Seq(Instances)
    BY DEF TypeOK
  <2>4. CASE UNCHANGED accs
    BY <2>2, <2>4
  <2>5. CASE Seed
    <3>1. accs' = <<instances[1]>> /\ 1 \in DOMAIN instances
      BY <2>3, <2>5 DEF Seed
    <3> QED
      BY <2>2, <3>1
  <2>6. ASSUME NEW r \in Challenges, ProveStep(r)
        PROVE  \A k \in DOMAIN accs' : Satisfied(accs'[k])
    <3> DEFINE old == accs[Len(accs)]
               fresh == instances[Len(accs) + 1]
    <3>1. /\ Len(accs) \in Nat \ {0} /\ Len(accs) + 1 \in DOMAIN instances
          /\ old \in AccumulatorType /\ fresh \in AccumulatorType /\ r \in Scalar
          /\ MergeOutcome(old, fresh) = Ok
          /\ accs' = Append(accs, Merge(old, fresh, r))
      BY <2>6, ProveStepEffect
    <3>2. Satisfied(old) /\ Satisfied(fresh) /\ ErrorFree(fresh)
      BY <2>2, <2>3, <3>1
    <3>3. Satisfied(Merge(old, fresh, r))
      BY <3>1, <3>2, MergeSatisfied
    <3> HIDE DEF old, fresh
    <3> QED
      BY <2>2, <2>3, <3>1, <3>3
  <2> QED
    BY <2>4, <2>5, <2>6 DEF Next, RejectEmpty, MergeFails, Finish, vars
<1> QED
  BY <1>1, <1>2, TypeCorrect, PTL DEF Spec

----------------------------------------------------------------------------
(* Refinement.                                                             *)

\* The defects of an accumulator are a sequence of scalars, one for each row.
LEMMA DefectsType ==
    ASSUME NEW acc \in AccumulatorType
    PROVE  /\ DefectsOf(acc) \in Seq(Scalar)
           /\ Len(DefectsOf(acc)) = Len(acc.rows)
           /\ \A i \in 1 .. Len(acc.rows) : DefectsOf(acc)[i] = Defect(acc.u, acc.rows[i])
<1>1. acc.rows \in Seq(RelaxedRow) /\ acc.u \in Bytes32
  BY DEF AccumulatorType
<1>2. Len(acc.rows) \in Nat /\ DOMAIN acc.rows = 1 .. Len(acc.rows)
  BY <1>1
<1>3. ASSUME NEW i \in 1 .. Len(acc.rows)
      PROVE  Defect(acc.u, acc.rows[i]) \in Scalar
  <2> DEFINE row == acc.rows[i]
             x == row.az * row.bz - acc.u * row.cz - row.e
  <2>0. row \in RelaxedRow
    BY <1>1
  <2> HIDE DEF row
  <2>1. row.az \in Bytes32 /\ row.bz \in Bytes32 /\ row.cz \in Bytes32 /\ row.e \in Bytes32
    BY <2>0 DEF RelaxedRow
  <2>2. x \in Int
    BY <1>1, <2>1, FieldAssumption DEF Bytes32
  <2> HIDE DEF x
  <2>3. x % Order \in Scalar
    BY <2>2, DivMod
  <2> QED
    BY <2>3 DEF Defect, x, row
<1>4. DefectsOf(acc) = [i \in 1 .. Len(acc.rows) |-> Defect(acc.u, acc.rows[i])]
  BY <1>2 DEF DefectsOf
<1>5. DefectsOf(acc) \in [1 .. Len(acc.rows) -> Scalar]
  BY <1>3, <1>4
<1> QED
  BY <1>2, <1>4, <1>5

\* A fold step adds r^2 times the defects of the instance it absorbs.
LEMMA StepAbsorbs ==
    ASSUME TypeOK, NEW r \in Challenges, ProveStep(r),
           \A a \in Instances : ErrorFree(a)
    PROVE  Abstract!Absorb
<1> DEFINE old == accs[Len(accs)]
           fresh == instances[Len(accs) + 1]
           merged == Merge(old, fresh, r)
           inputs == [i \in DOMAIN instances |-> DefectsOf(instances[i])]
           running == IF accs = <<>> THEN <<>> ELSE DefectsOf(Last(accs))
<1>1. /\ accs # <<>> /\ Len(accs) \in Nat \ {0} /\ Len(accs) + 1 \in DOMAIN instances
      /\ old \in AccumulatorType /\ fresh \in AccumulatorType /\ r \in Scalar
      /\ MergeOutcome(old, fresh) = Ok
      /\ merged \in AccumulatorType
      /\ accs' = Append(accs, merged)
  BY ProveStepEffect
<1>2. accs \in Seq(AccumulatorType) /\ instances \in Seq(Instances) /\ instances' = instances
  BY DEF TypeOK, ProveStep
<1>3. fresh \in Instances
  BY <1>1, <1>2
<1>4. ErrorFree(fresh) /\ Len(old.rows) = Len(fresh.rows) /\ Len(merged.rows) = Len(old.rows)
  BY <1>1, <1>3, MergeOutcomeOk, MergeType
<1> HIDE DEF merged
<1>5. /\ accs' # <<>> /\ Len(accs') = Len(accs) + 1 /\ Last(accs') = merged
      /\ Last(accs) = old
  BY <1>1, <1>2 DEF Last
<1>6. /\ running = DefectsOf(old) /\ running' = DefectsOf(merged)
      /\ inputs[Len(accs) + 1] = DefectsOf(fresh)
  BY <1>1, <1>2, <1>5
<1>7. Len(inputs) = Len(instances) /\ inputs' = inputs
  BY <1>2
<1>8. /\ Len(DefectsOf(old)) = Len(old.rows) /\ Len(DefectsOf(fresh)) = Len(old.rows)
      /\ DefectsOf(merged) = [i \in 1 .. Len(old.rows) |->
                                (DefectsOf(old)[i] + r * r * DefectsOf(fresh)[i]) % Order]
  <2>1. /\ Len(DefectsOf(old)) = Len(old.rows) /\ Len(DefectsOf(fresh)) = Len(old.rows)
        /\ DefectsOf(merged) \in Seq(Scalar) /\ Len(DefectsOf(merged)) = Len(old.rows)
    BY <1>1, <1>4, DefectsType
  <2>2. ASSUME NEW i \in 1 .. Len(old.rows)
        PROVE  DefectsOf(merged)[i] = (DefectsOf(old)[i] + r * r * DefectsOf(fresh)[i]) % Order
    <3>1. /\ DefectsOf(merged)[i] = Defect(merged.u, merged.rows[i])
          /\ DefectsOf(old)[i] = Defect(old.u, old.rows[i])
          /\ DefectsOf(fresh)[i] = Defect(fresh.u, fresh.rows[i])
      BY <1>1, <1>4, DefectsType
    <3>2. Defect(merged.u, merged.rows[i])
          = (Defect(old.u, old.rows[i]) + r * r * Defect(fresh.u, fresh.rows[i])) % Order
      BY <1>1, <1>4, MergeDefects DEF merged
    <3> QED
      BY <3>1, <3>2
  <2> QED
    BY <2>1, <2>2
<1> HIDE DEF old, fresh
<1>9. /\ Len(accs) \in 1 .. Len(inputs) - 1
      /\ Len(inputs[Len(accs) + 1]) = Len(running)
      /\ \E c \in 0 .. Order - 1 :
            running' = [i \in 1 .. Len(running) |->
                          (running[i] + c * c * inputs[Len(accs) + 1][i]) % Order]
      /\ Len(accs') = Len(accs) + 1
      /\ inputs' = inputs
  <2>1. Len(accs) \in 1 .. Len(inputs) - 1
    BY <1>1, <1>2, <1>7
  <2>2. r \in 0 .. Order - 1
    BY <1>1 DEF Scalar
  <2> HIDE DEF running, inputs
  <2> QED
    BY <1>5, <1>6, <1>7, <1>8, <2>1, <2>2
<1> QED
  BY <1>9 DEF Abstract!Absorb

\* The loop implements DefectFold when no instance carries an error term.
THEOREM Refinement ==
    ASSUME \A a \in Instances : ErrorFree(a)
    PROVE  Spec => FoldsDefects
<1>1. Init => Abstract!Init
  <2> SUFFICES ASSUME Init PROVE Abstract!Init
    OBVIOUS
  <2>1. instances \in Seq(Instances) /\ accs = <<>>
    BY InitType DEF TypeOK, Init
  <2>2. \A i \in DOMAIN instances : DefectsOf(instances[i]) \in Seq(0 .. Order - 1)
    BY <2>1, DefectsType, FoldChainAssumption DEF Scalar
  <2>3. [i \in DOMAIN instances |-> DefectsOf(instances[i])] \in Seq(Seq(0 .. Order - 1))
    BY <2>1, <2>2
  <2> QED
    BY <2>1, <2>3 DEF Abstract!Init, Abstract!Defects
<1>2. TypeOK /\ [Next]_vars => [Abstract!Next]_(Abstract!vars)
  <2> SUFFICES ASSUME TypeOK, [Next]_vars
               PROVE  Abstract!Next \/ UNCHANGED Abstract!vars
    OBVIOUS
  <2>1. CASE UNCHANGED <<instances, accs>>
    BY <2>1 DEF Abstract!vars, Last
  <2>2. CASE Seed
    <3>1. /\ accs = <<>> /\ accs' = <<instances[1]>> /\ instances' = instances
          /\ instances \in Seq(Instances) /\ instances # <<>>
      BY <2>2 DEF Seed, TypeOK
    <3>2. accs' # <<>> /\ Last(accs') = instances[1] /\ Len(accs') = 1 /\ Len(accs) = 0
      BY <3>1 DEF Last
    <3>3. 1 \in DOMAIN instances /\ [i \in DOMAIN instances |-> DefectsOf(instances[i])] # <<>>
      BY <3>1
    <3> QED
      BY <3>1, <3>2, <3>3 DEF Abstract!Next, Abstract!Seed
  <2>3. ASSUME NEW r \in Challenges, ProveStep(r)
        PROVE  Abstract!Next
    BY <2>3, StepAbsorbs DEF Abstract!Next
  <2> QED
    BY <2>1, <2>2, <2>3 DEF Next, RejectEmpty, MergeFails, Finish, vars
<1> QED
  BY <1>1, <1>2, TypeCorrect, PTL DEF Spec, FoldsDefects, Abstract!Spec
----------------------------------------------------------------------------
(* Results.                                                                *)


\* Everything folded so far was well formed and as long as the seed, and so is
\* what came out of it.
FoldedWell ==
    /\ \A k \in DOMAIN accs : Len(accs[k].rows) = Len(instances[1].rows)
    /\ accs # <<>> => accs[1] = instances[1]
    /\ \A k \in 2 .. Len(accs) : WellFormed(accs[k])
    /\ Len(accs) > 1 =>
          \A i \in 1 .. Len(accs) :
              WellFormed(instances[i]) /\ Len(instances[i].rows) = Len(instances[1].rows)

\* The two properties of results, with what Ok says of the loop's progress.
ResultInv ==
    /\ FoldedWell
    /\ FailureBlamesAnInstance
    /\ outcome = Ok => Len(accs) = Len(instances)

LEMMA StepFoldsWell ==
    ASSUME TypeOK, FoldedWell, NEW r \in Challenges, ProveStep(r)
    PROVE  FoldedWell'
<1> DEFINE n == Len(accs)
           old == accs[n]
           fresh == instances[n + 1]
           merged == Merge(old, fresh, r)
<1>1. /\ n \in Nat \ {0} /\ n + 1 \in DOMAIN instances
      /\ old \in AccumulatorType /\ fresh \in AccumulatorType /\ r \in Scalar
      /\ MergeOutcome(old, fresh) = Ok
      /\ accs' = Append(accs, merged)
  BY ProveStepEffect
<1>2. accs \in Seq(AccumulatorType) /\ instances' = instances
  BY DEF TypeOK, ProveStep
<1>2a. n = 1 \/ n > 1
  <2>1. n \in Nat \ {0}
    BY <1>1
  <2> HIDE DEF n
  <2> QED
    BY <2>1
<1>3. Len(old.rows) = Len(fresh.rows) /\ WellFormed(old) /\ WellFormed(fresh)
  BY <1>1, MergeOutcomeWellFormed
<1>4. WellFormed(merged) /\ Len(merged.rows) = Len(old.rows)
  BY <1>1, MergeWellFormed
<1> HIDE DEF merged
<1>5. Len(accs') = n + 1 /\ accs'[n + 1] = merged /\ \A k \in 1 .. n : accs'[k] = accs[k]
  BY <1>1, <1>2
<1>6. Len(old.rows) = Len(instances[1].rows) /\ accs[1] = instances[1]
  BY <1>1, <1>2 DEF FoldedWell
<1>7. \A k \in 1 .. n + 1 : Len(accs'[k].rows) = Len(instances[1].rows)
  BY <1>1, <1>2, <1>4, <1>5, <1>6 DEF FoldedWell
<1>8. \A k \in 2 .. n + 1 : WellFormed(accs'[k])
  BY <1>1, <1>4, <1>5 DEF FoldedWell
<1>9. \A i \in 1 .. n + 1 :
         WellFormed(instances[i]) /\ Len(instances[i].rows) = Len(instances[1].rows)
  <2>1. WellFormed(fresh) /\ Len(fresh.rows) = Len(instances[1].rows)
    BY <1>3, <1>6
  <2>2. ASSUME NEW i \in 1 .. n
        PROVE  WellFormed(instances[i]) /\ Len(instances[i].rows) = Len(instances[1].rows)
    <3>1. CASE n = 1
      <4>1. i = 1 /\ old = instances[1]
        BY <1>6, <3>1
      <4> QED
        BY <1>3, <4>1
    <3>2. CASE n > 1
      BY <3>2 DEF FoldedWell
    <3> QED
      BY <1>2a, <3>1, <3>2
  <2>3. \A i \in 1 .. n + 1 : i \in 1 .. n \/ i = n + 1
    BY <1>1
  <2> QED
    BY <2>1, <2>2, <2>3
<1>10. accs' # <<>> /\ accs'[1] = instances[1] /\ DOMAIN accs' = 1 .. n + 1
  BY <1>1, <1>2, <1>5, <1>6
<1> QED
  BY <1>1, <1>2, <1>5, <1>7, <1>8, <1>9, <1>10 DEF FoldedWell

LEMMA NextResult == TypeOK /\ ResultInv /\ [Next]_vars => ResultInv'
<1> SUFFICES ASSUME TypeOK, ResultInv, [Next]_vars PROVE ResultInv'
  OBVIOUS
<1>0. /\ instances \in Seq(Instances) /\ accs \in Seq(AccumulatorType)
      /\ FoldedWell /\ FailureBlamesAnInstance /\ (outcome = Ok => Len(accs) = Len(instances))
  BY DEF TypeOK, ResultInv
<1>1. CASE RejectEmpty
  BY <1>0, <1>1, OkIsNoError, RunningIsNoResult
  DEF RejectEmpty, ResultInv, FoldedWell, FailureBlamesAnInstance
<1>2. CASE Seed
  <2>1. accs' = <<instances[1]>> /\ instances' = instances /\ outcome' = Running
    BY <1>2 DEF Seed
  <2> QED
    BY <2>1, OkIsNoError, RunningIsNoResult DEF ResultInv, FoldedWell, FailureBlamesAnInstance, Running
<1>3. ASSUME NEW r \in Challenges, ProveStep(r) PROVE ResultInv'
  <2>1. outcome' = Running
    BY <1>3 DEF ProveStep, MoreToFold
  <2> QED
    BY <1>0, <1>3, <2>1, StepFoldsWell, OkIsNoError, RunningIsNoResult
    DEF ResultInv, FailureBlamesAnInstance, Running
<1>4. CASE MergeFails
  <2> DEFINE n == Len(accs)
  <2>1. /\ n \in Nat \ {0} /\ n < Len(instances) /\ instances # <<>>
        /\ MergeOutcome(accs[n], instances[n + 1]) # Ok
        /\ UNCHANGED <<instances, accs>> /\ outcome' # Ok
    BY <1>0, <1>4 DEF MergeFails, MoreToFold, Last, Fresh
  <2>2. accs[n] \in AccumulatorType /\ instances[n + 1] \in AccumulatorType
    BY <1>0, <2>1, FoldChainAssumption
  <2>3. \/ Len(accs[n].rows) # Len(instances[n + 1].rows)
        \/ ~WellFormed(accs[n]) \/ ~WellFormed(instances[n + 1])
    BY <2>1, <2>2, MergeOutcomeWellFormed
  <2>4. Len(accs[n].rows) = Len(instances[1].rows) /\ (WellFormed(accs[n]) \/ accs[n] = instances[1])
    BY <1>0, <2>1 DEF FoldedWell
  <2> QED
    BY <1>0, <2>1, <2>3, <2>4 DEF ResultInv, FoldedWell, FailureBlamesAnInstance, Fresh
<1>5. CASE Finish
  BY <1>0, <1>5 DEF Finish, ResultInv, FoldedWell, FailureBlamesAnInstance, Ok
<1>6. CASE UNCHANGED vars
  BY <1>0, <1>6 DEF vars, ResultInv, FoldedWell, FailureBlamesAnInstance, Fresh
<1> QED
  BY <1>1, <1>2, <1>3, <1>4, <1>5, <1>6 DEF Next

LEMMA ResultCorrect == Spec => []ResultInv
<1>1. Init => ResultInv
  BY OkIsNoError, RunningIsNoResult DEF Init, ResultInv, FoldedWell, FailureBlamesAnInstance, Running
<1> QED
  BY <1>1, NextResult, TypeCorrect, PTL DEF Spec

\* An error blames the instance about to be folded or the seed, in chains of
\* any length: what a fold made is never malformed and never of another size.
THEOREM FailureBlames == Spec => []FailureBlamesAnInstance
<1>1. ResultInv => FailureBlamesAnInstance
  BY DEF ResultInv
<1> QED
  BY <1>1, ResultCorrect, PTL

\* Ok vouches for every instance of a chain of two or more.
THEOREM SuccessVouches == Spec => []SuccessMeansWellFormed
<1>1. TypeOK /\ ResultInv => SuccessMeansWellFormed
  BY DEF TypeOK, ResultInv, FoldedWell, SuccessMeansWellFormed
<1> QED
  BY <1>1, ResultCorrect, TypeCorrect, PTL

----------------------------------------------------------------------------
LEMMA MinOfTwo ==
    ASSUME NEW m \in Nat, NEW n \in Nat
    PROVE  Min({m, n}) = IF n < m THEN n ELSE m
BY DEF Min

\* The seed keeps its counter, and a step's index is what the counter has become.
IndexInv ==
    /\ IndexFollowsCounter
    /\ \A k \in DOMAIN accs : accs[k].step = Min({MaxU64, accs[1].step + k - 1})

LEMMA StepIndex ==
    ASSUME TypeOK, IndexInv, NEW r \in Challenges, ProveStep(r)
    PROVE  IndexInv'
<1> DEFINE n == Len(accs)
           old == accs[n]
           merged == Merge(old, instances[n + 1], r)
           step == [challenge |-> r, index |-> merged.step]
           first == accs[1].step
<1>1. /\ n \in Nat \ {0} /\ old \in AccumulatorType
      /\ accs' = Append(accs, merged) /\ steps' = Append(steps, step)
  BY ProveStepEffect
<1>2. /\ accs \in Seq(AccumulatorType) /\ steps \in Seq(FoldStep)
      /\ Len(steps) = n - 1
  BY <1>1 DEF TypeOK
<1>3. merged.step = SaturatingInc(old.step)
  BY DEF Merge
<1>4. first \in 0 .. MaxU64 /\ MaxU64 \in Nat
  <2>1. accs[1] \in AccumulatorType
    BY <1>1, <1>2
  <2> QED
    BY <2>1, AccumulatorAssumption DEF AccumulatorType
<1> HIDE DEF merged, first
<1>5. /\ Len(accs') = n + 1 /\ accs'[n + 1] = merged /\ \A k \in 1 .. n : accs'[k] = accs[k]
      /\ Len(steps') = n /\ steps'[n].index = merged.step
      /\ \A k \in 1 .. n - 1 : steps'[k] = steps[k]
  BY <1>1, <1>2
<1>6. accs'[1].step = first
  BY <1>1, <1>5 DEF first
<1>7. DOMAIN accs = 1 .. n /\ DOMAIN steps = 1 .. n - 1 /\ n \in Nat \ {0}
  BY <1>1, <1>2
<1>8. DOMAIN accs' = 1 .. n + 1 /\ DOMAIN steps' = 1 .. n
  BY <1>1, <1>2
<1> HIDE DEF n
<1>9. /\ \A k \in 1 .. n : accs[k].step = Min({MaxU64, first + k - 1})
      /\ \A k \in 1 .. n - 1 : /\ steps[k].index = accs[k + 1].step
                               /\ steps[k].index = Min({MaxU64, first + k})
  BY <1>7 DEF IndexInv, IndexFollowsCounter, first
<1>10. merged.step = Min({MaxU64, first + n})
  <2>1. accs[n].step = Min({MaxU64, first + n - 1})
    BY <1>7, <1>9
  <2>2. first + n - 1 \in Nat /\ first + n \in Nat
    BY <1>4, <1>7
  <2>3. accs[n].step = IF first + n - 1 < MaxU64 THEN first + n - 1 ELSE MaxU64
    BY <1>4, <2>1, <2>2, MinOfTwo
  <2>4. Min({MaxU64, first + n}) = IF first + n < MaxU64 THEN first + n ELSE MaxU64
    BY <1>4, <2>2, MinOfTwo
  <2>5. merged.step = IF accs[n].step < MaxU64 THEN accs[n].step + 1 ELSE accs[n].step
    BY <1>3 DEF SaturatingInc
  <2> QED
    BY <1>4, <1>7, <2>3, <2>4, <2>5
<1>11. ASSUME NEW k \in 1 .. n
       PROVE  steps'[k].index = accs'[k + 1].step /\ steps'[k].index = Min({MaxU64, first + k})
  <2>1. CASE k = n
    BY <1>5, <1>10, <2>1
  <2>2. CASE k # n
    <3>1. k \in 1 .. n - 1 /\ k + 1 \in 1 .. n
      BY <1>7, <2>2
    <3> QED
      BY <1>5, <1>9, <3>1
  <2> QED
    BY <2>1, <2>2
<1>12. ASSUME NEW k \in 1 .. n + 1
       PROVE  accs'[k].step = Min({MaxU64, first + k - 1})
  <2>1. CASE k = n + 1
    <3>1. first + k - 1 = first + n
      BY <1>4, <1>7, <2>1
    <3> QED
      BY <1>5, <1>10, <2>1, <3>1
  <2>2. CASE k # n + 1
    <3>1. k \in 1 .. n
      BY <1>7, <2>2
    <3> QED
      BY <1>5, <1>9, <3>1
  <2> QED
    BY <2>1, <2>2
<1> QED
  BY <1>6, <1>8, <1>11, <1>12 DEF IndexInv, IndexFollowsCounter

\* The indices of a proof's steps count up from the seed's counter and stay at
\* its limit, in chains of any length.
THEOREM IndexFollows == Spec => []IndexFollowsCounter
<1>1. Init => IndexInv
  BY DEF Init, IndexInv, IndexFollowsCounter
<1>2. TypeOK /\ IndexInv /\ [Next]_vars => IndexInv'
  <2> SUFFICES ASSUME TypeOK, IndexInv, [Next]_vars PROVE IndexInv'
    OBVIOUS
  <2>1. CASE UNCHANGED <<accs, steps>>
    BY <2>1 DEF IndexInv, IndexFollowsCounter
  <2>2. CASE Seed
    <3>1. /\ accs = <<>> /\ accs' = <<instances[1]>> /\ steps' = steps
          /\ instances[1] \in AccumulatorType
      BY <2>2, FoldChainAssumption DEF Seed, TypeOK
    <3>2. steps = <<>>
      BY <3>1 DEF TypeOK
    <3>3. instances[1].step \in 0 .. MaxU64 /\ MaxU64 \in Nat
      BY <3>1, AccumulatorAssumption DEF AccumulatorType
    <3>4. instances[1].step = Min({MaxU64, instances[1].step + 1 - 1})
      BY <3>3, MinOfTwo
    <3>5. DOMAIN accs' = {1} /\ accs'[1] = instances[1] /\ DOMAIN steps' = {}
      BY <3>1, <3>2
    <3> QED
      BY <3>4, <3>5 DEF IndexInv, IndexFollowsCounter
  <2>3. ASSUME NEW r \in Challenges, ProveStep(r) PROVE IndexInv'
    BY <2>3, StepIndex
  <2> QED
    BY <2>1, <2>2, <2>3 DEF Next, RejectEmpty, MergeFails, Finish, vars
<1>3. IndexInv => IndexFollowsCounter
  BY DEF IndexInv
<1> QED
  BY <1>1, <1>2, <1>3, TypeCorrect, PTL DEF Spec

----------------------------------------------------------------------------
\* The two checks agree on any accumulator, even one that no loop produced.
LEMMA ChecksAcceptSame ==
    ASSUME NEW acc
    PROVE  ChecksAccept(acc)
BY OkIsNoError, RunningIsNoResult DEF ChecksAccept, Check, CheckViaCs

\* check and check_via_cs accept the same accumulators, given or folded.
THEOREM ChecksAgreeAlways == Spec => []ChecksAgree
<1>1. ChecksAgree
  BY ChecksAcceptSame DEF ChecksAgree
<1> QED
  BY <1>1, PTL

----------------------------------------------------------------------------
(* How much a challenge can hide.                                          *)

\* Of the challenges under which such a pair could have been merged, at most
\* two, opposite ones, give a satisfied result.
LEMMA FewChallengesHide ==
    ASSUME OrderIsPrime,
           NEW a \in AccumulatorType, NEW b \in AccumulatorType, ErrorFree(b),
           MergeOutcome(a, b) = Ok, ~(Satisfied(a) /\ Satisfied(b))
    PROVE  Cardinality({r \in Challenges : Satisfied(Merge(a, b, r))}) <= 2
<1> DEFINE Hiding == {r \in Challenges : Satisfied(Merge(a, b, r))}
<1>1. PICK i \in 1 .. Len(a.rows) :
         Defect(a.u, a.rows[i]) # 0 \/ Defect(b.u, b.rows[i]) # 0
  BY SomeDefect
<1> DEFINE c == Defect(a.u, a.rows[i])
           d == Defect(b.u, b.rows[i])
<1>2. c \in Scalar /\ d \in Scalar
  <2>1. a.u \in Bytes32 /\ b.u \in Bytes32 /\ Len(a.rows) = Len(b.rows)
    BY MergeOutcomeOk DEF AccumulatorType
  <2>2. a.rows[i] \in RelaxedRow /\ b.rows[i] \in RelaxedRow
    BY <2>1 DEF AccumulatorType
  <2> QED
    BY <2>1, <2>2, DefectScalar
<1>3. c # 0 \/ d # 0
  BY <1>1
<1>4. ASSUME NEW r \in Hiding
      PROVE  r \in Scalar /\ (c + r * r * d) % Order = 0
  <2>1. r \in Scalar
    BY ChallengesAreScalars
  <2> DEFINE m == Merge(a, b, r)
  <2>2. /\ m \in AccumulatorType /\ Len(m.rows) = Len(a.rows)
        /\ Defect(m.u, m.rows[i]) = (c + r * r * d) % Order
    BY <2>1, MergeType, MergeDefects
  <2>3. Satisfied(m)
    OBVIOUS
  <2> HIDE DEF m, c, d
  <2>4. i \in DOMAIN m.rows
    BY <2>2 DEF AccumulatorType
  <2> QED
    BY <2>1, <2>2, <2>3, <2>4, SatisfiedIff
<1> HIDE DEF Hiding, c, d
<1>5. \E x, y : Hiding \subseteq {x, y}
  <2>1. CASE Hiding = {}
    BY <2>1
  <2>2. ASSUME NEW r \in Hiding
        PROVE  Hiding \subseteq {r, Order - r}
    <3>1. d # 0
      <4> SUFFICES ASSUME d = 0 PROVE FALSE
        OBVIOUS
      <4>1. r \in Int /\ c + r * r * 0 = c
        <5>1. r \in Int /\ c \in Int
          BY <1>2, <1>4 DEF Scalar
        <5> QED
          BY <5>1
      <4>2. c % Order = 0
        BY <1>4, <4>1
      <4> QED
        BY <1>2, <1>3, <4>2, ModScalar
    <3> QED
      BY <1>2, <1>4, <3>1, RootsOfSquare
  <2> QED
    BY <2>1, <2>2
<1>6. PICK x, y : Hiding \subseteq {x, y}
  BY <1>5
<1>7. IsFiniteSet({x, y}) /\ Cardinality({x, y}) <= 2
  <2>1. IsFiniteSet({x}) /\ Cardinality({x}) = 1
    BY FS_Singleton
  <2>2. {x, y} = {x} \cup {y}
    OBVIOUS
  <2>3. CASE y \in {x}
    <3>1. {x, y} = {x}
      BY <2>3
    <3>2. IsFiniteSet({x, y}) /\ Cardinality({x, y}) = 1
      BY <2>1, <3>1, Zenon
    <3> QED
      BY <3>2
  <2>4. CASE y \notin {x}
    BY <2>1, <2>2, <2>4, FS_AddElement
  <2> QED
    BY <2>3, <2>4
<1>8. Cardinality(Hiding) <= Cardinality({x, y})
  BY <1>6, <1>7, FS_Subset
<1>9. IsFiniteSet(Hiding) /\ Cardinality(Hiding) \in Nat /\ Cardinality({x, y}) \in Nat
  BY <1>6, <1>7, FS_Subset, FS_CardinalityType
<1> QED
  BY <1>7, <1>8, <1>9 DEF Hiding

\* Folding hides nothing: when the field's order is prime, whatever has been
\* folded so far, at most two of the challenges that a step could have drawn
\* turn an unsatisfied accumulator or instance into a satisfied accumulator.
THEOREM HidesAtMostTwiceAlways ==
    ASSUME OrderIsPrime
    PROVE  Spec => []HidesAtMostTwice
<1>1. TypeOK /\ ResultInv => HidesAtMostTwice
  <2> SUFFICES ASSUME TypeOK, ResultInv, NEW k \in 1 .. Len(accs) - 1,
                      ErrorFree(instances[k + 1]),
                      ~(Satisfied(accs[k]) /\ Satisfied(instances[k + 1]))
               PROVE  Cardinality({r \in Challenges :
                                     Satisfied(Merge(accs[k], instances[k + 1], r))}) <= 2
    BY DEF HidesAtMostTwice
  <2>1. /\ accs \in Seq(AccumulatorType) /\ instances \in Seq(AccumulatorType)
        /\ Len(accs) <= Len(instances)
    BY FoldChainAssumption DEF TypeOK
  <2>2. /\ k \in DOMAIN accs /\ k + 1 \in 1 .. Len(accs) /\ k + 1 \in DOMAIN instances
        /\ 1 \in 1 .. Len(accs) /\ Len(accs) > 1 /\ (k = 1 \/ k \in 2 .. Len(accs))
    BY <2>1
  <2>3. WellFormed(accs[k]) /\ WellFormed(instances[k + 1])
    BY <2>1, <2>2 DEF ResultInv, FoldedWell
  <2>4. Len(accs[k].rows) = Len(instances[k + 1].rows)
    BY <2>1, <2>2 DEF ResultInv, FoldedWell
  <2>5. accs[k] \in AccumulatorType /\ instances[k + 1] \in AccumulatorType
    BY <2>1, <2>2
  <2> QED
    BY <2>3, <2>4, <2>5, MergeOutcomeWellFormed, FewChallengesHide
<1> QED
  BY <1>1, ResultCorrect, TypeCorrect, PTL
----------------------------------------------------------------------------
(* Replay.                                                                 *)

\* Every fold was of the next instance, under the challenge it recorded.
FoldsInstances ==
    /\ accs # <<>> => accs[1] = instances[1]
    /\ \A k \in 1 .. Len(accs) - 1 :
          /\ MergeOutcome(accs[k], instances[k + 1]) = Ok
          /\ accs[k + 1] = Merge(accs[k], instances[k + 1], steps[k].challenge)

LEMMA StepFoldsInstance ==
    ASSUME TypeOK, FoldsInstances, NEW r \in Challenges, ProveStep(r)
    PROVE  FoldsInstances'
<1> DEFINE n == Len(accs)
           old == accs[n]
           fresh == instances[n + 1]
           merged == Merge(old, fresh, r)
           step == [challenge |-> r, index |-> merged.step]
<1>1. /\ n \in Nat \ {0} /\ MergeOutcome(old, fresh) = Ok /\ merged \in AccumulatorType
      /\ accs # <<>> /\ accs' = Append(accs, merged) /\ steps' = Append(steps, step)
  BY ProveStepEffect
<1>2. /\ accs \in Seq(AccumulatorType) /\ instances' = instances
      /\ steps \in Seq(FoldStep) /\ Len(steps) = n - 1
  BY <1>1 DEF TypeOK, ProveStep
<1>3. step.challenge = r
  OBVIOUS
<1> HIDE DEF merged, old, fresh, step
<1>4. Len(accs') = n + 1 /\ accs'[n + 1] = merged /\ \A k \in 1 .. n : accs'[k] = accs[k]
  BY <1>1, <1>2
<1>5. steps'[n] = step /\ \A k \in 1 .. n - 1 : steps'[k] = steps[k]
  BY <1>1, <1>2
<1>6. accs'[1] = instances'[1]
  BY <1>1, <1>2, <1>4 DEF FoldsInstances
<1>7. ASSUME NEW k \in 1 .. n
      PROVE  /\ MergeOutcome(accs'[k], instances[k + 1]) = Ok
             /\ accs'[k + 1] = Merge(accs'[k], instances[k + 1], steps'[k].challenge)
  <2>1. CASE k = n
    BY <1>1, <1>3, <1>4, <1>5, <2>1 DEF merged, old, fresh
  <2>2. CASE k # n
    <3>1. k \in 1 .. n - 1 /\ k + 1 \in 1 .. n
      BY <1>1, <2>2
    <3> QED
      BY <1>4, <1>5, <3>1 DEF FoldsInstances
  <2> QED
    BY <2>1, <2>2
<1> HIDE DEF n
<1>8. Len(accs') - 1 = n
  BY <1>1, <1>4
<1> QED
  BY <1>2, <1>6, <1>7, <1>8 DEF FoldsInstances

LEMMA FoldsInstancesAlways == Spec => []FoldsInstances
<1>1. Init => FoldsInstances
  BY DEF Init, FoldsInstances
<1>2. TypeOK /\ FoldsInstances /\ [Next]_vars => FoldsInstances'
  <2> SUFFICES ASSUME TypeOK, FoldsInstances, [Next]_vars PROVE FoldsInstances'
    OBVIOUS
  <2>1. CASE UNCHANGED <<instances, accs, steps>>
    BY <2>1 DEF FoldsInstances
  <2>2. CASE Seed
    <3>1. accs' = <<instances[1]>> /\ instances' = instances
      BY <2>2 DEF Seed
    <3>2. accs'[1] = instances[1] /\ Len(accs') = 1
      BY <3>1
    <3> QED
      BY <3>1, <3>2 DEF FoldsInstances
  <2>3. ASSUME NEW r \in Challenges, ProveStep(r) PROVE FoldsInstances'
    BY <2>3, StepFoldsInstance
  <2> QED
    BY <2>1, <2>2, <2>3 DEF Next, vars, RejectEmpty, MergeFails, Finish
<1> QED
  BY <1>1, <1>2, TypeCorrect, PTL DEF Spec

\* One more instance adds its value times its challenge.
LEMMA WeightedExtends ==
    ASSUME steps \in Seq(FoldStep), NEW k \in 1 .. Len(steps), NEW values \in [1 .. k + 1 -> Int]
    PROVE  Weighted(values)
           = Combine(Weighted([j \in 1 .. k |-> values[j]]), steps[k].challenge, values[k + 1])
<1> DEFINE terms == [j \in 1 .. k |-> steps[j].challenge * values[j + 1]]
           before == [j \in 1 .. k - 1 |-> steps[j].challenge * values[j + 1]]
           old == [j \in 1 .. k |-> values[j]]
<1>1. \A j \in 1 .. k : steps[j].challenge \in Int
  <2>1. \A j \in 1 .. k : steps[j] \in FoldStep
    OBVIOUS
  <2> QED
    BY <2>1, ScalarBytes DEF FoldStep
<1>2. terms \in [1 .. k -> Int] /\ before \in [1 .. k - 1 -> Int]
  BY <1>1
<1>3. /\ values \in Seq(Int) /\ Len(values) = k + 1 /\ Len(values) - 1 = k
      /\ old \in Seq(Int) /\ Len(old) = k
  OBVIOUS
<1>5. terms[k] = steps[k].challenge * values[k + 1]
  OBVIOUS
<1>6. 1 .. k = (1 .. k - 1) \cup {k} /\ k \notin 1 .. k - 1 /\ IsFiniteSet(1 .. k - 1)
  <2>1. k \in Nat \ {0}
    OBVIOUS
  <2>2. IsFiniteSet(1 .. k - 1)
    BY <2>1, FS_Interval
  <2>3. 1 .. k = (1 .. k - 1) \cup {k} /\ k \notin 1 .. k - 1
    BY <2>1
  <2> QED
    BY <2>2, <2>3
<1> DEFINE sum == SumFunction(before)
           term == steps[k].challenge * values[k + 1]
<1>7. SumFunction(terms) = sum + term
  <2> DEFINE S == 1 .. k - 1
  <2>1. /\ terms \in [S \cup {k} -> Int] /\ before \in [S -> Int]
        /\ IsFiniteSet(S) /\ k \notin S
    BY <1>2, <1>6
  <2>2. \A j \in S : before[j] = terms[j]
    OBVIOUS
  <2> HIDE DEF terms, before, S
  <2>3. SumFunction(terms) = SumFunction(before) + terms[k]
    BY <2>1, <2>2, SumExtend
  <2> QED
    BY <1>5, <2>3
<1>8. sum \in Int /\ term \in Int /\ values[1] \in Int
  <2>1. sum \in Int
    <3> HIDE DEF before
    <3> QED
      BY <1>2, <1>6, SumType
  <2> QED
    BY <1>1, <2>1
<1>9. Weighted(values) = (values[1] + SumFunction(terms)) % Order
  BY <1>3 DEF Weighted
<1>10. Weighted(old) = (values[1] + sum) % Order
  <2>1. old[1] = values[1]
    BY <1>3
  <2>2. [j \in 1 .. Len(old) - 1 |-> steps[j].challenge * old[j + 1]] = before
    BY <1>3
  <2> HIDE DEF old, before
  <2> QED
    BY <2>1, <2>2 DEF Weighted
<1> HIDE DEF sum, term, terms
<1>11. Combine(Weighted(old), steps[k].challenge, values[k + 1])
       = (((values[1] + sum) % Order) + term) % Order
  BY <1>10 DEF Combine, term
<1> DEFINE all == values[1] + sum
<1>12. ((all % Order) + term) % Order = (all + term) % Order
  <2>1. all \in Int
    BY <1>8
  <2> HIDE DEF all
  <2> QED
    BY <1>8, <2>1, ModAdd
<1>13. (values[1] + sum) + term = values[1] + (sum + term)
  BY <1>8
<1> QED
  BY <1>7, <1>9, <1>11, <1>12, <1>13

LEMMA WeightedAlone ==
    ASSUME NEW values \in [1 .. 1 -> Int], values[1] \in Scalar
    PROVE  Weighted(values) = values[1]
<1> DEFINE terms == [j \in 1 .. Len(values) - 1 |-> steps[j].challenge * values[j + 1]]
<1>1. 1 .. Len(values) - 1 = {}
  <2>1. values \in Seq(Int) /\ Len(values) = 1
    <3> DEFINE one == 1
    <3>1. one \in Nat /\ values \in [1 .. one -> Int]
      OBVIOUS
    <3> HIDE DEF one
    <3>2. values \in Seq(Int) /\ Len(values) = one
      BY <3>1
    <3> QED
      BY <3>2 DEF one
  <2>2. 1 .. 1 - 1 = {}
    OBVIOUS
  <2> QED
    BY <2>1, <2>2
<1>2. terms \in [{} -> Int]
  BY <1>1
<1>3. Weighted(values) = (values[1] + SumFunction(terms)) % Order
  BY DEF Weighted
<1> HIDE DEF terms
<1>4. SumFunction(terms) = 0
  BY <1>2, SumEmpty
<1>5. values[1] + 0 = values[1]
  BY ScalarBytes
<1> QED
  BY <1>3, <1>4, <1>5, ModScalar

\* A component that every fold combines is the weighted sum of the instances'.
LEMMA Replayed ==
    ASSUME steps \in Seq(FoldStep), NEW n \in Nat \ {0}, n - 1 <= Len(steps),
           NEW comp \in [1 .. n -> Int], NEW values \in [1 .. n -> Int],
           comp[1] = values[1], values[1] \in Scalar,
           \A k \in 1 .. n - 1 :
              comp[k + 1] = Combine(comp[k], steps[k].challenge, values[k + 1])
    PROVE  \A k \in 1 .. n : comp[k] = Weighted([j \in 1 .. k |-> values[j]])
<1> DEFINE upTo(k) == [j \in 1 .. k |-> values[j]]
           Good == {m \in Nat : m + 1 <= n => comp[m + 1] = Weighted(upTo(m + 1))}
<1>1. 0 \in Good
  <2>1. upTo(1) \in [1 .. 1 -> Int] /\ upTo(1)[1] = values[1]
    OBVIOUS
  <2> HIDE DEF upTo
  <2>2. Weighted(upTo(1)) = values[1]
    BY <2>1, WeightedAlone
  <2> QED
    BY <2>2
<1>2. ASSUME NEW m \in Nat, m \in Good PROVE m + 1 \in Good
  <2> SUFFICES ASSUME (m + 1) + 1 <= n
               PROVE  comp[(m + 1) + 1] = Weighted(upTo((m + 1) + 1))
    OBVIOUS
  <2> DEFINE k == m + 1
             new == upTo(k + 1)
             old == [j \in 1 .. k |-> new[j]]
  <2>1. k \in 1 .. n - 1 /\ Len(steps) \in Nat
    OBVIOUS
  <2>2. k \in 1 .. Len(steps)
    BY <2>1
  <2>3. comp[k] = Weighted(upTo(k))
    BY <1>2, <2>1
  <2>4. new \in [1 .. k + 1 -> Int] /\ new[k + 1] = values[k + 1]
    BY <2>1
  <2>5. old = upTo(k)
    BY <2>1
  <2>6. comp[k + 1] = Combine(comp[k], steps[k].challenge, values[k + 1])
    BY <2>1
  <2> HIDE DEF k, new, upTo, Good
  <2>7. Weighted(new) = Combine(Weighted(old), steps[k].challenge, new[k + 1])
    BY <2>2, <2>4, WeightedExtends
  <2>8. comp[k + 1] = Weighted(new)
    BY <2>3, <2>4, <2>5, <2>6, <2>7
  <2> QED
    BY <2>8 DEF k, new
<1> HIDE DEF Good, upTo
<1>3. \A m \in Nat : m \in Good
  BY <1>1, <1>2, SetInduction
<1>4. ASSUME NEW k \in 1 .. n PROVE comp[k] = Weighted(upTo(k))
  <2>1. k - 1 \in Good /\ (k - 1) + 1 = k
    BY <1>3
  <2> QED
    BY <2>1 DEF Good
<1> QED
  BY <1>4 DEF upTo

LEMMA MergeParts ==
    ASSUME NEW a, NEW b, NEW r
    PROVE  LET m == Merge(a, b, r)
           IN  /\ m.u = Combine(a.u, r, b.u)
               /\ m.commitment_z = CombineCommitments(a.commitment_z, b.commitment_z, r)
               /\ m.commitment_e = CombineCommitments(a.commitment_e, b.commitment_e, r)
               /\ \A i \in 1 .. Len(a.rows) :
                     m.rows[i] = MergeRow(a.u, a.rows[i], b.u, b.rows[i], r)
BY DEF Merge

LEMMA MergeRowParts ==
    ASSUME NEW ua, NEW a, NEW ub, NEW b, NEW r
    PROVE  LET row == MergeRow(ua, a, ub, b, r)
           IN  /\ row.az = Combine(a.az, r, b.az) /\ row.bz = Combine(a.bz, r, b.bz)
               /\ row.cz = Combine(a.cz, r, b.cz)
BY DEF MergeRow

\* What a replay of the recorded challenges over the instances computes is what
\* the loop computed, component by component.
THEOREM ReplayDetermines == Spec => []ReplayDeterminesAccumulator
<1>1. TypeOK /\ FoldedWell /\ FoldsInstances => ReplayDeterminesAccumulator
  <2> SUFFICES ASSUME TypeOK, FoldedWell, FoldsInstances, NEW k \in 2 .. Len(accs)
               PROVE  /\ accs[k].u = Weighted([j \in 1 .. k |-> instances[j].u])
                      /\ Point(accs[k].commitment_z)
                           = Weighted([j \in 1 .. k |-> Point(instances[j].commitment_z)])
                      /\ Point(accs[k].commitment_e)
                           = Weighted([j \in 1 .. k |-> Point(instances[j].commitment_e)])
                      /\ \A i \in DOMAIN accs[k].rows :
                            /\ accs[k].rows[i].az
                                 = Weighted([j \in 1 .. k |-> instances[j].rows[i].az])
                            /\ accs[k].rows[i].bz
                                 = Weighted([j \in 1 .. k |-> instances[j].rows[i].bz])
                            /\ accs[k].rows[i].cz
                                 = Weighted([j \in 1 .. k |-> instances[j].rows[i].cz])
    BY DEF ReplayDeterminesAccumulator
  <2> DEFINE n == Len(accs)
             rowCount == Len(instances[1].rows)
  <2>1. /\ accs \in Seq(AccumulatorType) /\ instances \in Seq(AccumulatorType)
        /\ n <= Len(instances) /\ steps \in Seq(FoldStep)
        /\ accs # <<>> /\ Len(steps) = n - 1 /\ n > 1
    BY FoldChainAssumption DEF TypeOK
  <2>2. /\ n \in Nat \ {0} /\ n - 1 <= Len(steps) /\ k \in 1 .. n
        /\ \A j \in 1 .. n : accs[j] \in AccumulatorType /\ instances[j] \in AccumulatorType
    BY <2>1
  <2>3. accs[1] = instances[1]
    BY <2>1 DEF FoldsInstances
  <2>4. ASSUME NEW j \in 1 .. n
        PROVE  /\ WellFormed(instances[j]) /\ Len(instances[j].rows) = rowCount
               /\ Len(accs[j].rows) = rowCount
    BY <2>1 DEF FoldedWell
  <2> HIDE DEF n, rowCount
  <2>5. ASSUME NEW j \in 1 .. n - 1
        PROVE  /\ j \in 1 .. n /\ j + 1 \in 1 .. n
               /\ accs[j + 1] = Merge(accs[j], instances[j + 1], steps[j].challenge)
    BY <2>2 DEF FoldsInstances, n
  <2>6. 1 \in 1 .. n
    BY <2>2
  <2>7. accs[k].u = Weighted([j \in 1 .. k |-> instances[j].u])
    <3> DEFINE comp == [j \in 1 .. n |-> accs[j].u]
               values == [j \in 1 .. n |-> instances[j].u]
    <3>1. comp \in [1 .. n -> Int] /\ values \in [1 .. n -> Int]
      <4>1. ASSUME NEW j \in 1 .. n PROVE accs[j].u \in Int /\ instances[j].u \in Int
        <5>1. accs[j].u \in Bytes32 /\ instances[j].u \in Bytes32
          BY <2>2 DEF AccumulatorType
        <5> QED
          BY <5>1, BytesAreIntegers
      <4> QED
        BY <4>1
    <3>2. comp[1] = values[1] /\ values[1] \in Scalar
      BY <2>2, <2>3, <2>4, <2>6, ScalarBytes DEF WellFormed, AccumulatorType
    <3>3. \A j \in 1 .. n - 1 :
             comp[j + 1] = Combine(comp[j], steps[j].challenge, values[j + 1])
      BY <2>5, MergeParts
    <3>4. [j \in 1 .. k |-> values[j]] = [j \in 1 .. k |-> instances[j].u]
      BY <2>2
    <3>5. comp[k] = accs[k].u
      BY <2>2
    <3> HIDE DEF comp, values
    <3>6. comp[k] = Weighted([j \in 1 .. k |-> values[j]])
      BY <2>1, <2>2, <3>1, <3>2, <3>3, Replayed, ZenonT(30)
    <3> QED
      BY <3>4, <3>5, <3>6
  <2>8. ASSUME NEW j \in 1 .. n - 1 PROVE steps[j].challenge \in Scalar
    <3>1. steps[j] \in FoldStep
      BY <2>1
    <3> QED
      BY <3>1 DEF FoldStep
  <2>9. ASSUME NEW j \in 1 .. n
        PROVE  Point(accs[j].commitment_z) \in Scalar /\ Point(instances[j].commitment_z) \in Scalar
    <3>1. accs[j].commitment_z \in Commitment /\ instances[j].commitment_z \in Commitment /\ 0 \in Scalar
      BY <2>2, FieldAssumption DEF AccumulatorType, Scalar
    <3> QED
      BY <3>1 DEF Point, Commitment
  <2>10. ASSUME NEW j \in 1 .. n - 1
         PROVE  Point(accs[j + 1].commitment_z)
                = Combine(Point(accs[j].commitment_z), steps[j].challenge,
                          Point(instances[j + 1].commitment_z))
    <3>1. accs[j].commitment_z \in Commitment /\ instances[j + 1].commitment_z \in Commitment
      BY <2>2, <2>5 DEF AccumulatorType
    <3>2. accs[j + 1].commitment_z
          = CombineCommitments(accs[j].commitment_z, instances[j + 1].commitment_z, steps[j].challenge)
      BY <2>5, MergeParts
    <3> QED
      BY <2>8, <3>1, <3>2, PointsCombine
  <2>11. Point(accs[k].commitment_z) = Weighted([j \in 1 .. k |-> Point(instances[j].commitment_z)])
    <3> DEFINE comp == [j \in 1 .. n |-> Point(accs[j].commitment_z)]
               values == [j \in 1 .. n |-> Point(instances[j].commitment_z)]
    <3>1. comp \in [1 .. n -> Int] /\ values \in [1 .. n -> Int]
      BY <2>9, ScalarBytes
    <3>2. comp[1] = values[1] /\ values[1] \in Scalar
      BY <2>3, <2>6, <2>9
    <3>3. \A j \in 1 .. n - 1 :
             comp[j + 1] = Combine(comp[j], steps[j].challenge, values[j + 1])
      BY <2>5, <2>10
    <3>4. [j \in 1 .. k |-> values[j]] = [j \in 1 .. k |-> Point(instances[j].commitment_z)]
      BY <2>2
    <3>5. comp[k] = Point(accs[k].commitment_z)
      BY <2>2
    <3> HIDE DEF comp, values
    <3>6. comp[k] = Weighted([j \in 1 .. k |-> values[j]])
      BY <2>1, <2>2, <3>1, <3>2, <3>3, Replayed, ZenonT(30)
    <3> QED
      BY <3>4, <3>5, <3>6
  <2>12. ASSUME NEW j \in 1 .. n
        PROVE  Point(accs[j].commitment_e) \in Scalar /\ Point(instances[j].commitment_e) \in Scalar
    <3>1. accs[j].commitment_e \in Commitment /\ instances[j].commitment_e \in Commitment /\ 0 \in Scalar
      BY <2>2, FieldAssumption DEF AccumulatorType, Scalar
    <3> QED
      BY <3>1 DEF Point, Commitment
  <2>13. ASSUME NEW j \in 1 .. n - 1
         PROVE  Point(accs[j + 1].commitment_e)
                = Combine(Point(accs[j].commitment_e), steps[j].challenge,
                          Point(instances[j + 1].commitment_e))
    <3>1. accs[j].commitment_e \in Commitment /\ instances[j + 1].commitment_e \in Commitment
      BY <2>2, <2>5 DEF AccumulatorType
    <3>2. accs[j + 1].commitment_e
          = CombineCommitments(accs[j].commitment_e, instances[j + 1].commitment_e, steps[j].challenge)
      BY <2>5, MergeParts
    <3> QED
      BY <2>8, <3>1, <3>2, PointsCombine
  <2>14. Point(accs[k].commitment_e) = Weighted([j \in 1 .. k |-> Point(instances[j].commitment_e)])
    <3> DEFINE comp == [j \in 1 .. n |-> Point(accs[j].commitment_e)]
               values == [j \in 1 .. n |-> Point(instances[j].commitment_e)]
    <3>1. comp \in [1 .. n -> Int] /\ values \in [1 .. n -> Int]
      BY <2>12, ScalarBytes
    <3>2. comp[1] = values[1] /\ values[1] \in Scalar
      BY <2>3, <2>6, <2>12
    <3>3. \A j \in 1 .. n - 1 :
             comp[j + 1] = Combine(comp[j], steps[j].challenge, values[j + 1])
      BY <2>5, <2>13
    <3>4. [j \in 1 .. k |-> values[j]] = [j \in 1 .. k |-> Point(instances[j].commitment_e)]
      BY <2>2
    <3>5. comp[k] = Point(accs[k].commitment_e)
      BY <2>2
    <3> HIDE DEF comp, values
    <3>6. comp[k] = Weighted([j \in 1 .. k |-> values[j]])
      BY <2>1, <2>2, <3>1, <3>2, <3>3, Replayed, ZenonT(30)
    <3> QED
      BY <3>4, <3>5, <3>6
  <2>15. ASSUME NEW i \in DOMAIN accs[k].rows
         PROVE  /\ accs[k].rows[i].az = Weighted([j \in 1 .. k |-> instances[j].rows[i].az])
                /\ accs[k].rows[i].bz = Weighted([j \in 1 .. k |-> instances[j].rows[i].bz])
                /\ accs[k].rows[i].cz = Weighted([j \in 1 .. k |-> instances[j].rows[i].cz])
    <3>1. i \in 1 .. rowCount
      BY <2>2, <2>4 DEF AccumulatorType
    <3>2. ASSUME NEW j \in 1 .. n
          PROVE  /\ accs[j].rows[i] \in RelaxedRow /\ instances[j].rows[i] \in RelaxedRow
                 /\ CanonicalRow(instances[j].rows[i])
      BY <2>2, <2>4, <3>1 DEF AccumulatorType, WellFormed, MalformedRows
    <3>3. ASSUME NEW j \in 1 .. n - 1
          PROVE  accs[j + 1].rows[i]
                 = MergeRow(accs[j].u, accs[j].rows[i], instances[j + 1].u,
                            instances[j + 1].rows[i], steps[j].challenge)
      BY <2>4, <2>5, <3>1, MergeParts
    <3>4. accs[k].rows[i].az = Weighted([j \in 1 .. k |-> instances[j].rows[i].az])
      <4> DEFINE comp == [j \in 1 .. n |-> accs[j].rows[i].az]
                 values == [j \in 1 .. n |-> instances[j].rows[i].az]
      <4>1. comp \in [1 .. n -> Int] /\ values \in [1 .. n -> Int]
        <5>1. ASSUME NEW j \in 1 .. n
              PROVE  accs[j].rows[i].az \in Int /\ instances[j].rows[i].az \in Int
          <6>1. accs[j].rows[i].az \in Bytes32 /\ instances[j].rows[i].az \in Bytes32
            BY <3>2 DEF RelaxedRow
          <6> QED
            BY <6>1, BytesAreIntegers
        <5> QED
          BY <5>1
      <4>2. comp[1] = values[1] /\ values[1] \in Scalar
        BY <2>3, <2>6, <3>2, ScalarBytes DEF CanonicalRow, RelaxedRow
      <4>3. \A j \in 1 .. n - 1 :
               comp[j + 1] = Combine(comp[j], steps[j].challenge, values[j + 1])
        BY <2>5, <3>3, MergeRowParts
      <4>4. [j \in 1 .. k |-> values[j]] = [j \in 1 .. k |-> instances[j].rows[i].az]
        BY <2>2
      <4>5. comp[k] = accs[k].rows[i].az
        BY <2>2
      <4> HIDE DEF comp, values
      <4>6. comp[k] = Weighted([j \in 1 .. k |-> values[j]])
        BY <2>1, <2>2, <4>1, <4>2, <4>3, Replayed, ZenonT(30)
      <4> QED
        BY <4>4, <4>5, <4>6
    <3>5. accs[k].rows[i].bz = Weighted([j \in 1 .. k |-> instances[j].rows[i].bz])
      <4> DEFINE comp == [j \in 1 .. n |-> accs[j].rows[i].bz]
                 values == [j \in 1 .. n |-> instances[j].rows[i].bz]
      <4>1. comp \in [1 .. n -> Int] /\ values \in [1 .. n -> Int]
        <5>1. ASSUME NEW j \in 1 .. n
              PROVE  accs[j].rows[i].bz \in Int /\ instances[j].rows[i].bz \in Int
          <6>1. accs[j].rows[i].bz \in Bytes32 /\ instances[j].rows[i].bz \in Bytes32
            BY <3>2 DEF RelaxedRow
          <6> QED
            BY <6>1, BytesAreIntegers
        <5> QED
          BY <5>1
      <4>2. comp[1] = values[1] /\ values[1] \in Scalar
        BY <2>3, <2>6, <3>2, ScalarBytes DEF CanonicalRow, RelaxedRow
      <4>3. \A j \in 1 .. n - 1 :
               comp[j + 1] = Combine(comp[j], steps[j].challenge, values[j + 1])
        BY <2>5, <3>3, MergeRowParts
      <4>4. [j \in 1 .. k |-> values[j]] = [j \in 1 .. k |-> instances[j].rows[i].bz]
        BY <2>2
      <4>5. comp[k] = accs[k].rows[i].bz
        BY <2>2
      <4> HIDE DEF comp, values
      <4>6. comp[k] = Weighted([j \in 1 .. k |-> values[j]])
        BY <2>1, <2>2, <4>1, <4>2, <4>3, Replayed, ZenonT(30)
      <4> QED
        BY <4>4, <4>5, <4>6
    <3>6. accs[k].rows[i].cz = Weighted([j \in 1 .. k |-> instances[j].rows[i].cz])
      <4> DEFINE comp == [j \in 1 .. n |-> accs[j].rows[i].cz]
                 values == [j \in 1 .. n |-> instances[j].rows[i].cz]
      <4>1. comp \in [1 .. n -> Int] /\ values \in [1 .. n -> Int]
        <5>1. ASSUME NEW j \in 1 .. n
              PROVE  accs[j].rows[i].cz \in Int /\ instances[j].rows[i].cz \in Int
          <6>1. accs[j].rows[i].cz \in Bytes32 /\ instances[j].rows[i].cz \in Bytes32
            BY <3>2 DEF RelaxedRow
          <6> QED
            BY <6>1, BytesAreIntegers
        <5> QED
          BY <5>1
      <4>2. comp[1] = values[1] /\ values[1] \in Scalar
        BY <2>3, <2>6, <3>2, ScalarBytes DEF CanonicalRow, RelaxedRow
      <4>3. \A j \in 1 .. n - 1 :
               comp[j + 1] = Combine(comp[j], steps[j].challenge, values[j + 1])
        BY <2>5, <3>3, MergeRowParts
      <4>4. [j \in 1 .. k |-> values[j]] = [j \in 1 .. k |-> instances[j].rows[i].cz]
        BY <2>2
      <4>5. comp[k] = accs[k].rows[i].cz
        BY <2>2
      <4> HIDE DEF comp, values
      <4>6. comp[k] = Weighted([j \in 1 .. k |-> values[j]])
        BY <2>1, <2>2, <4>1, <4>2, <4>3, Replayed, ZenonT(30)
      <4> QED
        BY <4>4, <4>5, <4>6
    <3> QED
      BY <3>4, <3>5, <3>6
  <2> QED
    BY <2>7, <2>11, <2>14, <2>15
<1>2. ResultInv => FoldedWell
  BY DEF ResultInv
<1> QED
  BY <1>1, <1>2, TypeCorrect, ResultCorrect, FoldsInstancesAlways, PTL
============================================================================

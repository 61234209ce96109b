-------------------------- MODULE FoldSchemeProofs --------------------------
(***************************************************************************)
(* What holds of proving and verifying for any field, instances, schemes   *)
(* and hash: the types, that a step verifies under its own challenge only, *)
(* that an honest proof gets the verdict it deserves, and what a verified  *)
(* Nova proof is bound to.                                                 *)
(*                                                                         *)
(* The prover and the relying party run the same loop.  What is said of a  *)
(* run is therefore said of its four variables, whosever they are.         *)
(***************************************************************************)
EXTENDS FoldScheme, AccumulatorTheorems

Running == [tag |-> "running"]
StepRecord == [challenge : Scalar, index : 0 .. MaxU64]
Error == [tag : {"violated"}, row : Nat]

----------------------------------------------------------------------------
(* A run of fold_chain: the instances ins, the accumulators a and records  *)
(* s so far, the result out; o answers the queries made for the public     *)
(* input pi.                                                               *)

RunTypes(ins, a, s, out) ==
    /\ ins \in Seq(AccumulatorType)
    /\ a \in Seq(AccumulatorType) /\ Len(a) <= Len(ins)
    /\ s \in Seq(StepRecord) /\ Len(s) = (IF a = <<>> THEN 0 ELSE Len(a) - 1)
    /\ out \in {Running, Ok} \cup Error

\* The k-th fold of a run was under the hash's answer to its own query.
FoldedAt(ins, a, s, o, pi, k) ==
    LET query  == Query(a[k], ins[k + 1], pi)
        merged == Merge(a[k], ins[k + 1], o[query])
    IN  /\ MergeOutcome(a[k], ins[k + 1]) = Ok
        /\ query \in DOMAIN o
        /\ s[k] = [challenge |-> o[query], index |-> merged.step]
        /\ a[k + 1] = merged

\* Why a run has its result: no instance, one that does not merge, or none left.
Ended(ins, a, out) ==
    \/ out # Ok /\ ins = <<>>
    \/ out # Ok /\ a # <<>> /\ Len(a) < Len(ins) /\ MergeOutcome(a[Len(a)], ins[Len(a) + 1]) # Ok
    \/ out = Ok /\ a # <<>> /\ Len(a) = Len(ins)

Run(ins, a, s, out, o, pi) ==
    /\ RunTypes(ins, a, s, out)
    /\ a # <<>> => a[1] = ins[1]
    /\ \A k \in 1 .. Len(a) - 1 : FoldedAt(ins, a, s, o, pi, k)
    /\ out # Running => Ended(ins, a, out)

----------------------------------------------------------------------------
(* The invariant of the whole.                                             *)

\* The hash: distinct queries have distinct answers, all of them challenges.
OracleInv == IsInjective(oracle) /\ Range(oracle) \subseteq Challenges

\* The proof in hand is the one its prover made.
Honest ==
    /\ pOutcome = Ok
    /\ PastaOutcome(Last(pAccs)) = Ok
    /\ proof = [tag |-> "proof", scheme |-> statement.scheme.kind, final_acc |-> Last(pAccs),
                steps |-> pSteps, pasta_cross_check |-> PastaDigest(Last(pAccs))]

ProverInv ==
    /\ statement \in [scheme : Schemes, public_input : PublicInputs]
    /\ pInstances \in Seq(Instances)
    /\ Run(pInstances, pAccs, pSteps, pOutcome, oracle,
           Augment(statement.scheme, statement.public_input))
    /\ proof # Pending => pOutcome # Running
    /\ proof = Pending \/ proof \in Error \/ Honest

\* Nothing is verified before a proof is received, and what is received differs
\* in one part at most.  The replay follows the screening, and the verdict both.
VerifierInv ==
    IF received = Pending
    THEN /\ vInstances = <<>> /\ vAccs = <<>> /\ vSteps = <<>> /\ vOutcome = Running
         /\ verdict = Pending
    ELSE /\ Honest
         /\ received \in [tag : {"received"}, proof : Damaged(proof) \cup {proof},
                          public_input : PublicInputs, entry : BOOLEAN]
         /\ vInstances \in Seq(Instances)
         /\ Run(vInstances, vAccs, vSteps, vOutcome, oracle,
                Augment(Checking, received.public_input))
         /\ vAccs # <<>> \/ vOutcome # Running => Screening = Ok
         /\ verdict # Pending => \/ verdict = Screening /\ Screening # Ok
                                 \/ verdict = Conclusion(received.proof) /\ vOutcome # Running

SchemeInv == OracleInv /\ ProverInv /\ VerifierInv

----------------------------------------------------------------------------
(* The actions of the two instances of FoldChain, as steps of a run.       *)

Seeds(ins, a, s, out, a2, s2, out2) ==
    /\ out = Running /\ ins # <<>> /\ a = <<>>
    /\ a2 = <<ins[1]>> /\ s2 = s /\ out2 = out

FoldsOne(ins, a, s, out, a2, s2, out2, r) ==
    LET fresh == ins[Len(a) + 1]
        merged == Merge(a[Len(a)], fresh, r)
    IN  /\ out = Running /\ a # <<>> /\ Len(a) < Len(ins)
        /\ MergeOutcome(a[Len(a)], fresh) = Ok
        /\ a2 = Append(a, merged)
        /\ s2 = Append(s, [challenge |-> r, index |-> merged.step])
        /\ out2 = out

Stops(ins, a, s, out, a2, s2, out2) ==
    /\ out = Running /\ a2 = a /\ s2 = s
    /\ \/ ins = <<>> /\ out2 = Violated(0)
       \/ /\ a # <<>> /\ Len(a) < Len(ins)
          /\ MergeOutcome(a[Len(a)], ins[Len(a) + 1]) # Ok
          /\ out2 = MergeOutcome(a[Len(a)], ins[Len(a) + 1])
       \/ a # <<>> /\ Len(a) = Len(ins) /\ out2 = Ok

LEMMA ProverOps ==
    /\ Prover!Running = Running /\ Prover!Ok = Ok /\ \A n : Prover!Violated(n) = Violated(n)
    /\ \A a, b : Prover!MergeOutcome(a, b) = MergeOutcome(a, b)
    /\ \A a, b, r : Prover!Merge(a, b, r) = Merge(a, b, r)
<1>1. /\ Prover!Running = Running /\ Prover!Ok = Ok /\ \A n : Prover!Violated(n) = Violated(n)
  BY DEF Prover!Running, Running, Prover!Ok, Ok, Prover!Violated, Violated
<1>2. ASSUME NEW a, NEW b PROVE Prover!MergeOutcome(a, b) = MergeOutcome(a, b)
  BY Zenon DEF Prover!MergeOutcome, MergeOutcome, Prover!MalformedRows, MalformedRows,
     Prover!CanonicalRow, CanonicalRow, Prover!Canonical, Canonical, Prover!AtFirst, AtFirst,
     Prover!Min, Min, Prover!Ok, Ok, Prover!Violated, Violated
<1>3. ASSUME NEW a, NEW b, NEW r PROVE Prover!Merge(a, b, r) = Merge(a, b, r)
  BY Zenon DEF Prover!Merge, Merge, Prover!Combine, Combine, Prover!CombineCommitments,
     CombineCommitments, Prover!Point, Point, Prover!MergeRow, MergeRow,
     Prover!SaturatingInc, SaturatingInc
<1> QED
  BY <1>1, <1>2, <1>3

LEMMA ProverSteps ==
    /\ Prover!Seed =>
          /\ Seeds(pInstances, pAccs, pSteps, pOutcome, pAccs', pSteps', pOutcome')
          /\ pInstances' = pInstances
    /\ \A r : Prover!ProveStep(r) =>
          /\ FoldsOne(pInstances, pAccs, pSteps, pOutcome, pAccs', pSteps', pOutcome', r)
          /\ pInstances' = pInstances
    /\ Prover!RejectEmpty \/ Prover!MergeFails \/ Prover!Finish =>
          /\ Stops(pInstances, pAccs, pSteps, pOutcome, pAccs', pSteps', pOutcome')
          /\ pInstances' = pInstances
<1>1. Prover!Seed => /\ Seeds(pInstances, pAccs, pSteps, pOutcome, pAccs', pSteps', pOutcome')
                     /\ pInstances' = pInstances
  BY ProverOps DEF Prover!Seed, Seeds
<1>2. ASSUME NEW r, Prover!ProveStep(r)
      PROVE  /\ FoldsOne(pInstances, pAccs, pSteps, pOutcome, pAccs', pSteps', pOutcome', r)
             /\ pInstances' = pInstances
  BY <1>2, ProverOps DEF Prover!ProveStep, Prover!MoreToFold, Prover!Last, Prover!Fresh, FoldsOne
<1>3. Prover!RejectEmpty \/ Prover!MergeFails \/ Prover!Finish =>
          /\ Stops(pInstances, pAccs, pSteps, pOutcome, pAccs', pSteps', pOutcome')
          /\ pInstances' = pInstances
  BY ProverOps DEF Prover!RejectEmpty, Prover!MergeFails, Prover!Finish, Prover!MoreToFold,
     Prover!Last, Prover!Fresh, Stops
<1> QED
  BY <1>1, <1>2, <1>3

LEMMA VerifierOps ==
    /\ Verifier!Running = Running /\ Verifier!Ok = Ok /\ \A n : Verifier!Violated(n) = Violated(n)
    /\ \A a, b : Verifier!MergeOutcome(a, b) = MergeOutcome(a, b)
    /\ \A a, b, r : Verifier!Merge(a, b, r) = Merge(a, b, r)
<1>1. /\ Verifier!Running = Running /\ Verifier!Ok = Ok /\ \A n : Verifier!Violated(n) = Violated(n)
  BY DEF Verifier!Running, Running, Verifier!Ok, Ok, Verifier!Violated, Violated
<1>2. ASSUME NEW a, NEW b PROVE Verifier!MergeOutcome(a, b) = MergeOutcome(a, b)
  BY Zenon DEF Verifier!MergeOutcome, MergeOutcome, Verifier!MalformedRows, MalformedRows,
     Verifier!CanonicalRow, CanonicalRow, Verifier!Canonical, Canonical, Verifier!AtFirst, AtFirst,
     Verifier!Min, Min, Verifier!Ok, Ok, Verifier!Violated, Violated
<1>3. ASSUME NEW a, NEW b, NEW r PROVE Verifier!Merge(a, b, r) = Merge(a, b, r)
  BY Zenon DEF Verifier!Merge, Merge, Verifier!Combine, Combine, Verifier!CombineCommitments,
     CombineCommitments, Verifier!Point, Point, Verifier!MergeRow, MergeRow,
     Verifier!SaturatingInc, SaturatingInc
<1> QED
  BY <1>1, <1>2, <1>3

LEMMA VerifierSteps ==
    /\ Verifier!Seed =>
          /\ Seeds(vInstances, vAccs, vSteps, vOutcome, vAccs', vSteps', vOutcome')
          /\ vInstances' = vInstances
    /\ \A r : Verifier!ProveStep(r) =>
          /\ FoldsOne(vInstances, vAccs, vSteps, vOutcome, vAccs', vSteps', vOutcome', r)
          /\ vInstances' = vInstances
    /\ Verifier!RejectEmpty \/ Verifier!MergeFails \/ Verifier!Finish =>
          /\ Stops(vInstances, vAccs, vSteps, vOutcome, vAccs', vSteps', vOutcome')
          /\ vInstances' = vInstances
<1>1. Verifier!Seed => /\ Seeds(vInstances, vAccs, vSteps, vOutcome, vAccs', vSteps', vOutcome')
                     /\ vInstances' = vInstances
  BY VerifierOps DEF Verifier!Seed, Seeds
<1>2. ASSUME NEW r, Verifier!ProveStep(r)
      PROVE  /\ FoldsOne(vInstances, vAccs, vSteps, vOutcome, vAccs', vSteps', vOutcome', r)
             /\ vInstances' = vInstances
  BY <1>2, VerifierOps DEF Verifier!ProveStep, Verifier!MoreToFold, Verifier!Last, Verifier!Fresh, FoldsOne
<1>3. Verifier!RejectEmpty \/ Verifier!MergeFails \/ Verifier!Finish =>
          /\ Stops(vInstances, vAccs, vSteps, vOutcome, vAccs', vSteps', vOutcome')
          /\ vInstances' = vInstances
  BY VerifierOps DEF Verifier!RejectEmpty, Verifier!MergeFails, Verifier!Finish, Verifier!MoreToFold,
     Verifier!Last, Verifier!Fresh, Stops
<1> QED
  BY <1>1, <1>2, <1>3

----------------------------------------------------------------------------
(* What a step keeps of a run.                                             *)

LEMMA ResultsDiffer ==
    /\ Ok # Running /\ \A n : Violated(n) # Running /\ Violated(n) # Ok
    /\ Running \notin Error /\ Ok \notin Error /\ Violated(0) \in Error
BY DEF Ok, Running, Violated, Error

\* More answers take no fold back.
LEMMA RunKeeps ==
    ASSUME NEW ins, NEW a, NEW s, NEW out, NEW o, NEW o2, NEW pi,
           Run(ins, a, s, out, o, pi),
           DOMAIN o \subseteq DOMAIN o2, \A query \in DOMAIN o : o2[query] = o[query]
    PROVE  Run(ins, a, s, out, o2, pi)
<1>1. ASSUME NEW k \in 1 .. Len(a) - 1 PROVE FoldedAt(ins, a, s, o2, pi, k)
  <2>1. FoldedAt(ins, a, s, o, pi, k)
    BY DEF Run
  <2> QED
    BY <2>1 DEF FoldedAt
<1> QED
  BY <1>1 DEF Run

LEMMA RunSeeds ==
    ASSUME NEW ins, NEW a, NEW s, NEW out, NEW o, NEW pi, NEW a2, NEW s2, NEW out2,
           Run(ins, a, s, out, o, pi), Seeds(ins, a, s, out, a2, s2, out2)
    PROVE  Run(ins, a2, s2, out2, o, pi)
<1>1. /\ ins \in Seq(AccumulatorType) /\ ins # <<>> /\ s = <<>> /\ s2 = <<>>
      /\ a2 = <<ins[1]>> /\ out2 = Running
  BY DEF Run, RunTypes, Seeds
<1>2. ins[1] \in AccumulatorType /\ Len(ins) >= 1
  BY <1>1
<1>3. a2 \in Seq(AccumulatorType) /\ Len(a2) = 1 /\ a2 # <<>> /\ a2[1] = ins[1]
  BY <1>1, <1>2
<1>4. RunTypes(ins, a2, s2, out2)
  BY <1>1, <1>2, <1>3 DEF RunTypes
<1> QED
  BY <1>1, <1>3, <1>4 DEF Run

LEMMA RunFolds ==
    ASSUME NEW ins, NEW a, NEW s, NEW out, NEW o, NEW pi, NEW a2, NEW s2, NEW out2,
           NEW r \in Scalar,
           Run(ins, a, s, out, o, pi), FoldsOne(ins, a, s, out, a2, s2, out2, r),
           Query(a[Len(a)], ins[Len(a) + 1], pi) \in DOMAIN o,
           o[Query(a[Len(a)], ins[Len(a) + 1], pi)] = r
    PROVE  Run(ins, a2, s2, out2, o, pi)
<1> DEFINE n == Len(a)
           old == a[n]
           fresh == ins[n + 1]
           merged == Merge(old, fresh, r)
           step == [challenge |-> r, index |-> merged.step]
<1>1. /\ ins \in Seq(AccumulatorType) /\ a \in Seq(AccumulatorType) /\ s \in Seq(StepRecord)
      /\ a # <<>> /\ n < Len(ins) /\ Len(s) = n - 1 /\ out2 = Running
      /\ MergeOutcome(old, fresh) = Ok /\ a2 = Append(a, merged) /\ s2 = Append(s, step)
  BY DEF Run, RunTypes, FoldsOne
<1>2. n \in Nat \ {0} /\ n + 1 \in DOMAIN ins
  BY <1>1
<1>3. old \in AccumulatorType /\ fresh \in AccumulatorType
  BY <1>1, <1>2
<1>4. merged \in AccumulatorType
  BY <1>1, <1>3, MergeType
<1>5. step \in StepRecord
  BY <1>4 DEF AccumulatorType, StepRecord
<1>6. Query(old, fresh, pi) \in DOMAIN o /\ o[Query(old, fresh, pi)] = r
  OBVIOUS
<1> HIDE DEF merged, step, old, fresh
<1>7. /\ a2 \in Seq(AccumulatorType) /\ Len(a2) = n + 1 /\ a2[n + 1] = merged
      /\ \A k \in 1 .. n : a2[k] = a[k]
  BY <1>1, <1>4
<1>8. /\ s2 \in Seq(StepRecord) /\ Len(s2) = n /\ s2[n] = step
      /\ \A k \in 1 .. n - 1 : s2[k] = s[k]
  BY <1>1, <1>2, <1>5
<1>9. a2 # <<>> /\ a2[1] = ins[1]
  BY <1>1, <1>2, <1>7 DEF Run
<1> HIDE DEF n
<1>10. RunTypes(ins, a2, s2, out2)
  BY <1>1, <1>2, <1>7, <1>8, <1>9 DEF RunTypes
<1>11. ASSUME NEW k \in 1 .. n PROVE FoldedAt(ins, a2, s2, o, pi, k)
  <2>1. CASE k = n
    <3>1. a2[k] = old /\ ins[k + 1] = fresh /\ a2[k + 1] = merged /\ s2[k] = step
      BY <1>2, <1>7, <1>8, <2>1 DEF old, fresh
    <3> QED
      BY <1>1, <1>6, <3>1 DEF FoldedAt, merged, step
  <2>2. CASE k # n
    <3>1. k \in 1 .. n - 1 /\ k + 1 \in 1 .. n
      BY <1>2, <2>2
    <3>2. FoldedAt(ins, a, s, o, pi, k)
      BY <3>1 DEF Run, n
    <3>3. a2[k] = a[k] /\ a2[k + 1] = a[k + 1] /\ s2[k] = s[k]
      BY <1>7, <1>8, <3>1
    <3> QED
      BY <3>2, <3>3 DEF FoldedAt
  <2> QED
    BY <2>1, <2>2
<1>12. Len(a2) - 1 = n
  BY <1>2, <1>7
<1> QED
  BY <1>1, <1>9, <1>10, <1>11, <1>12 DEF Run

LEMMA RunStops ==
    ASSUME NEW ins, NEW a, NEW s, NEW out, NEW o, NEW pi, NEW a2, NEW s2, NEW out2,
           Run(ins, a, s, out, o, pi), Stops(ins, a, s, out, a2, s2, out2)
    PROVE  Run(ins, a2, s2, out2, o, pi) /\ out2 # Running
<1>1. a2 = a /\ s2 = s /\ ins \in Seq(AccumulatorType) /\ a \in Seq(AccumulatorType)
  BY DEF Run, RunTypes, Stops
<1>2. out2 \in {Ok} \cup Error /\ Ended(ins, a, out2)
  <2>1. CASE ins = <<>> /\ out2 = Violated(0)
    BY <2>1, ResultsDiffer DEF Ended
  <2>2. CASE a # <<>> /\ Len(a) = Len(ins) /\ out2 = Ok
    BY <2>2 DEF Ended
  <2>3. CASE /\ a # <<>> /\ Len(a) < Len(ins)
             /\ MergeOutcome(a[Len(a)], ins[Len(a) + 1]) # Ok
             /\ out2 = MergeOutcome(a[Len(a)], ins[Len(a) + 1])
    <3>1. a[Len(a)] \in AccumulatorType /\ ins[Len(a) + 1] \in AccumulatorType
      BY <1>1, <2>3
    <3>2. out2 \in {Ok} \cup Error
      BY <2>3, <3>1, MergeOutcomeType DEF Error
    <3> QED
      BY <2>3, <3>2 DEF Ended
  <2> QED
    BY <2>1, <2>2, <2>3 DEF Stops
<1>3. RunTypes(ins, a2, s2, out2)
  BY <1>1, <1>2 DEF Run, RunTypes
<1>4. \A k \in 1 .. Len(a2) - 1 : FoldedAt(ins, a2, s2, o, pi, k)
  BY <1>1 DEF Run
<1> QED
  BY <1>1, <1>2, <1>3, <1>4, ResultsDiffer DEF Run
----------------------------------------------------------------------------
(* The invariant is one.                                                   *)

\* A query gets a challenge of its own, and every other keeps what it has.
LEMMA AnswerKeeps ==
    ASSUME NEW query, NEW r \in Challenges, OracleInv, Answer(query, r)
    PROVE  /\ OracleInv'
           /\ DOMAIN oracle \subseteq DOMAIN oracle'
           /\ \A q \in DOMAIN oracle : oracle'[q] = oracle[q]
           /\ query \in DOMAIN oracle' /\ oracle'[query] = r
<1>1. CASE query \in DOMAIN oracle
  BY <1>1 DEF Answer, OracleInv, IsInjective, Range
<1>2. CASE query \notin DOMAIN oracle
  <2>1. /\ r \notin Range(oracle)
        /\ oracle' = [q \in DOMAIN oracle \cup {query} |-> IF q = query THEN r ELSE oracle[q]]
    BY <1>2 DEF Answer
  <2>2. /\ DOMAIN oracle' = DOMAIN oracle \cup {query} /\ oracle'[query] = r
        /\ \A q \in DOMAIN oracle : oracle'[q] = oracle[q]
    BY <1>2, <2>1
  <2>3. IsInjective(oracle')
    <3>1. \A q \in DOMAIN oracle : oracle[q] # r
      BY <2>1 DEF Range
    <3> QED
      BY <2>2, <3>1 DEF OracleInv, IsInjective
  <2>4. Range(oracle') \subseteq Challenges
    BY <2>2 DEF OracleInv, Range
  <2> QED
    BY <2>2, <2>3, <2>4 DEF OracleInv
<1> QED
  BY <1>1, <1>2

LEMMA InitRun ==
    ASSUME NEW ins \in Seq(Instances), NEW o, NEW pi
    PROVE  Run(ins, <<>>, <<>>, Running, o, pi)
<1>1. Instances \subseteq AccumulatorType
  BY FoldSchemeAssumption
<1>2. ins \in Seq(AccumulatorType)
  BY <1>1
<1>3. RunTypes(ins, <<>>, <<>>, Running)
  BY <1>2 DEF RunTypes
<1> QED
  BY <1>3 DEF Run

LEMMA InitSchemeInv == Init => SchemeInv
<1> SUFFICES ASSUME Init PROVE SchemeInv
  OBVIOUS
<1>1. pInstances \in Seq(Instances) /\ pAccs = <<>> /\ pSteps = <<>> /\ pOutcome = Running
  BY ProverOps, FoldSchemeAssumption DEF Init, Prover!Init, Prover!BoundedSeq, Prover!SeqOf
<1>2. OracleInv
  BY DEF Init, OracleInv, IsInjective, Range
<1>3. ProverInv
  BY <1>1, InitRun DEF Init, ProverInv
<1>4. VerifierInv
  BY VerifierOps DEF Init, VerifierInv
<1> QED
  BY <1>2, <1>3, <1>4 DEF SchemeInv

\* The prover's step of the loop is a step of a run, and asks at most one query.
LEMMA ProverRuns ==
    ASSUME OracleInv, Folds,
           Run(pInstances, pAccs, pSteps, pOutcome, oracle, Augment(statement.scheme, statement.public_input))
    PROVE  /\ OracleInv' /\ pInstances' = pInstances /\ pOutcome = Running
           /\ DOMAIN oracle \subseteq DOMAIN oracle'
           /\ \A q \in DOMAIN oracle : oracle'[q] = oracle[q]
           /\ Run(pInstances, pAccs', pSteps', pOutcome', oracle', Augment(statement.scheme, statement.public_input))
<1> DEFINE pi == Augment(statement.scheme, statement.public_input)
<1>1. CASE Prover!Seed /\ UNCHANGED oracle
  <2>1. /\ Seeds(pInstances, pAccs, pSteps, pOutcome, pAccs', pSteps', pOutcome')
        /\ pInstances' = pInstances
    BY <1>1, ProverSteps
  <2>2. Run(pInstances, pAccs', pSteps', pOutcome', oracle, pi)
    BY <2>1, RunSeeds
  <2> QED
    BY <1>1, <2>1, <2>2 DEF Seeds, OracleInv
<1>2. CASE (Prover!RejectEmpty \/ Prover!MergeFails \/ Prover!Finish) /\ UNCHANGED oracle
  <2>1. /\ Stops(pInstances, pAccs, pSteps, pOutcome, pAccs', pSteps', pOutcome')
        /\ pInstances' = pInstances
    BY <1>2, ProverSteps
  <2>2. Run(pInstances, pAccs', pSteps', pOutcome', oracle, pi)
    BY <2>1, RunStops
  <2> QED
    BY <1>2, <2>1, <2>2 DEF Stops, OracleInv
<1>3. ASSUME NEW r \in Challenges, Prover!ProveStep(r),
             Answer(Query(Last(pAccs), Prover!Fresh, pi), r)
      PROVE  /\ OracleInv' /\ pInstances' = pInstances /\ pOutcome = Running
             /\ DOMAIN oracle \subseteq DOMAIN oracle'
             /\ \A q \in DOMAIN oracle : oracle'[q] = oracle[q]
             /\ Run(pInstances, pAccs', pSteps', pOutcome', oracle', pi)
  <2> DEFINE query == Query(pAccs[Len(pAccs)], pInstances[Len(pAccs) + 1], pi)
  <2>1. /\ FoldsOne(pInstances, pAccs, pSteps, pOutcome, pAccs', pSteps', pOutcome', r)
        /\ pInstances' = pInstances
    BY <1>3, ProverSteps
  <2>2. Query(Last(pAccs), Prover!Fresh, pi) = query
    BY DEF Last, Prover!Fresh
  <2>3. /\ OracleInv'
        /\ DOMAIN oracle \subseteq DOMAIN oracle'
        /\ \A q \in DOMAIN oracle : oracle'[q] = oracle[q]
        /\ query \in DOMAIN oracle' /\ oracle'[query] = r
    BY <1>3, <2>2, AnswerKeeps
  <2>4. Run(pInstances, pAccs, pSteps, pOutcome, oracle', pi)
    BY <2>3, RunKeeps
  <2>5. Run(pInstances, pAccs', pSteps', pOutcome', oracle', pi)
    BY <1>3, <2>1, <2>3, <2>4, RunFolds, ChallengesAreScalars
  <2> QED
    BY <2>1, <2>3, <2>5 DEF FoldsOne
<1> QED
  BY <1>1, <1>2, <1>3 DEF Folds

\* The relying party's step of the loop is a step of a run, and asks at most one query.
LEMMA VerifierRuns ==
    ASSUME OracleInv, Replays,
           Run(vInstances, vAccs, vSteps, vOutcome, oracle, Augment(Checking, received.public_input))
    PROVE  /\ OracleInv' /\ vInstances' = vInstances /\ vOutcome = Running
           /\ DOMAIN oracle \subseteq DOMAIN oracle'
           /\ \A q \in DOMAIN oracle : oracle'[q] = oracle[q]
           /\ Run(vInstances, vAccs', vSteps', vOutcome', oracle', Augment(Checking, received.public_input))
<1> DEFINE pi == Augment(Checking, received.public_input)
<1>1. CASE Verifier!Seed /\ UNCHANGED oracle
  <2>1. /\ Seeds(vInstances, vAccs, vSteps, vOutcome, vAccs', vSteps', vOutcome')
        /\ vInstances' = vInstances
    BY <1>1, VerifierSteps
  <2>2. Run(vInstances, vAccs', vSteps', vOutcome', oracle, pi)
    BY <2>1, RunSeeds
  <2> QED
    BY <1>1, <2>1, <2>2 DEF Seeds, OracleInv
<1>2. CASE (Verifier!RejectEmpty \/ Verifier!MergeFails \/ Verifier!Finish) /\ UNCHANGED oracle
  <2>1. /\ Stops(vInstances, vAccs, vSteps, vOutcome, vAccs', vSteps', vOutcome')
        /\ vInstances' = vInstances
    BY <1>2, VerifierSteps
  <2>2. Run(vInstances, vAccs', vSteps', vOutcome', oracle, pi)
    BY <2>1, RunStops
  <2> QED
    BY <1>2, <2>1, <2>2 DEF Stops, OracleInv
<1>3. ASSUME NEW r \in Challenges, Verifier!ProveStep(r),
             Answer(Query(Last(vAccs), Verifier!Fresh, pi), r)
      PROVE  /\ OracleInv' /\ vInstances' = vInstances /\ vOutcome = Running
             /\ DOMAIN oracle \subseteq DOMAIN oracle'
             /\ \A q \in DOMAIN oracle : oracle'[q] = oracle[q]
             /\ Run(vInstances, vAccs', vSteps', vOutcome', oracle', pi)
  <2> DEFINE query == Query(vAccs[Len(vAccs)], vInstances[Len(vAccs) + 1], pi)
  <2>1. /\ FoldsOne(vInstances, vAccs, vSteps, vOutcome, vAccs', vSteps', vOutcome', r)
        /\ vInstances' = vInstances
    BY <1>3, VerifierSteps
  <2>2. Query(Last(vAccs), Verifier!Fresh, pi) = query
    BY DEF Last, Verifier!Fresh
  <2>3. /\ OracleInv'
        /\ DOMAIN oracle \subseteq DOMAIN oracle'
        /\ \A q \in DOMAIN oracle : oracle'[q] = oracle[q]
        /\ query \in DOMAIN oracle' /\ oracle'[query] = r
    BY <1>3, <2>2, AnswerKeeps
  <2>4. Run(vInstances, vAccs, vSteps, vOutcome, oracle', pi)
    BY <2>3, RunKeeps
  <2>5. Run(vInstances, vAccs', vSteps', vOutcome', oracle', pi)
    BY <1>3, <2>1, <2>3, <2>4, RunFolds, ChallengesAreScalars
  <2> QED
    BY <2>1, <2>3, <2>5 DEF FoldsOne
<1> QED
  BY <1>1, <1>2, <1>3 DEF Replays

\* A chain that is not empty and has its result Ok ends in an accumulator.
LEMMA LastType ==
    ASSUME NEW ins, NEW a, NEW s, NEW o, NEW pi, Run(ins, a, s, Ok, o, pi)
    PROVE  /\ a # <<>> /\ Len(a) = Len(ins) /\ Len(a) \in Nat \ {0}
           /\ Last(a) = a[Len(a)] /\ Last(a) \in AccumulatorType
<1>1. Ended(ins, a, Ok) /\ a \in Seq(AccumulatorType)
  BY ResultsDiffer DEF Run, RunTypes
<1>2. a # <<>> /\ Len(a) = Len(ins)
  BY <1>1 DEF Ended
<1> QED
  BY <1>1, <1>2 DEF Last

LEMMA PastaOutcomeType ==
    ASSUME NEW acc \in AccumulatorType
    PROVE  PastaOutcome(acc) \in {Ok} \cup Error
<1> DEFINE malformed == {i \in DOMAIN acc.rows :
                           ~Canonical(acc.rows[i].az) \/ ~Canonical(acc.rows[i].bz)}
<1>1. malformed \in SUBSET (Nat \ {0})
  BY DEF AccumulatorType
<1> HIDE DEF malformed
<1>2. malformed # {} => AtFirst(malformed) \in Error
  BY <1>1, AtFirstType DEF Error
<1> QED
  BY <1>2 DEF PastaOutcome, malformed

\* A proof in hand that is neither pending nor an error is its prover's.
LEMMA ProofIsHonest ==
    /\ ProverInv /\ proof.tag = "proof" => Honest
    /\ Honest => proof # Pending /\ pOutcome # Running
<1>1. ASSUME Honest PROVE proof # Pending /\ pOutcome # Running
  <2>1. proof.tag = "proof" /\ Pending.tag = "pending"
    BY <1>1 DEF Honest, Pending
  <2> QED
    BY <1>1, <2>1, ResultsDiffer DEF Honest
<1>2. ProverInv /\ proof.tag = "proof" => Honest
  BY DEF ProverInv, Pending, Error
<1> QED
  BY <1>1, <1>2

\* Nothing of what concerns verification can have changed.
LEMMA VerifierIdle ==
    ASSUME VerifierInv, received = Pending,
           UNCHANGED <<received, verifierVars, verdict>>
    PROVE  VerifierInv'
BY DEF VerifierInv, verifierVars

LEMMA FoldsKeeps == SchemeInv /\ Folds => SchemeInv'
<1> SUFFICES ASSUME SchemeInv, Folds PROVE SchemeInv'
  OBVIOUS
<1> DEFINE pi == Augment(statement.scheme, statement.public_input)
<1>1. /\ OracleInv' /\ pInstances' = pInstances /\ pOutcome = Running
      /\ Run(pInstances, pAccs', pSteps', pOutcome', oracle', pi)
  BY ProverRuns DEF SchemeInv, ProverInv
<1>2. proof = Pending /\ received = Pending
  BY <1>1, ProofIsHonest DEF SchemeInv, ProverInv, VerifierInv
<1>3. UNCHANGED <<statement, proof, received, verifierVars, verdict>>
  BY DEF Folds
<1>4. ProverInv'
  BY <1>1, <1>2, <1>3 DEF SchemeInv, ProverInv
<1>5. VerifierInv'
  BY <1>2, <1>3, VerifierIdle DEF SchemeInv
<1> QED
  BY <1>1, <1>4, <1>5 DEF SchemeInv

LEMMA ProvesKeeps == SchemeInv /\ Proves => SchemeInv'
<1> SUFFICES ASSUME SchemeInv, Proves PROVE SchemeInv'
  OBVIOUS
<1> DEFINE pi == Augment(statement.scheme, statement.public_input)
<1>1. proof = Pending /\ pOutcome # Running
  BY ProverOps DEF Proves
<1>2. received = Pending
  BY <1>1, ProofIsHonest DEF SchemeInv, VerifierInv
<1>3. UNCHANGED <<statement, proverVars, received, verifierVars, verdict, oracle>>
  BY DEF Proves
<1>4. Run(pInstances, pAccs, pSteps, pOutcome, oracle, pi)
  BY DEF SchemeInv, ProverInv
<1>5. proof' \in Error \/ Honest'
  <2>1. CASE pOutcome # Ok
    <3>1. proof' = pOutcome
      BY <2>1 DEF Proves
    <3> QED
      BY <1>1, <1>4, <2>1, <3>1 DEF Run, RunTypes
  <2>2. CASE pOutcome = Ok /\ PastaOutcome(Last(pAccs)) # Ok
    <3>1. proof' = PastaOutcome(Last(pAccs))
      BY <2>2 DEF Proves
    <3>2. Last(pAccs) \in AccumulatorType
      BY <1>4, <2>2, LastType
    <3> QED
      BY <2>2, <3>1, <3>2, PastaOutcomeType
  <2>3. CASE pOutcome = Ok /\ PastaOutcome(Last(pAccs)) = Ok
    BY <1>3, <2>3 DEF Proves, Honest, proverVars
  <2> QED
    BY <2>1, <2>2, <2>3
<1>6. ProverInv'
  BY <1>1, <1>3, <1>5 DEF SchemeInv, ProverInv, proverVars
<1>7. VerifierInv'
  BY <1>2, <1>3, VerifierIdle DEF SchemeInv
<1>8. OracleInv'
  BY <1>3 DEF SchemeInv, OracleInv
<1> QED
  BY <1>6, <1>7, <1>8 DEF SchemeInv

LEMMA ReceivesKeeps ==
    ASSUME SchemeInv, proof.tag = "proof",
           NEW p \in Damaged(proof) \cup {proof}, NEW ins \in Seq(Instances),
           NEW public_input \in PublicInputs, NEW entry \in BOOLEAN,
           Receives(p, ins, public_input, entry)
    PROVE  SchemeInv'
<1>1. /\ received = Pending /\ vInstances' = ins
      /\ received' = [tag |-> "received", proof |-> p, public_input |-> public_input,
                       entry |-> entry]
      /\ UNCHANGED <<statement, proverVars, proof, vAccs, vSteps, vOutcome, verdict, oracle>>
  BY DEF Receives
<1>2. vAccs = <<>> /\ vSteps = <<>> /\ vOutcome = Running /\ verdict = Pending
  BY <1>1 DEF SchemeInv, VerifierInv
<1>3. OracleInv' /\ ProverInv'
  BY <1>1 DEF SchemeInv, OracleInv, ProverInv, Honest, proverVars
<1>4. Honest /\ Honest'
  BY <1>1, ProofIsHonest DEF SchemeInv, Honest, proverVars
<1>5. received' # Pending
  BY <1>1 DEF Pending
<1>6. received' \in [tag : {"received"}, proof : Damaged(proof) \cup {proof},
                     public_input : PublicInputs, entry : BOOLEAN]
  BY <1>1
<1>7. (received \in [tag : {"received"}, proof : Damaged(proof) \cup {proof},
                     public_input : PublicInputs, entry : BOOLEAN])'
  BY <1>1, <1>6 DEF Damaged
<1>8. Run(ins, <<>>, <<>>, Running, oracle, Augment(Checking, received.public_input)')
  BY InitRun
<1>9. Run(vInstances, vAccs, vSteps, vOutcome, oracle, Augment(Checking, received.public_input))'
  BY <1>1, <1>2, <1>8
<1>10. VerifierInv'
  BY <1>1, <1>2, <1>4, <1>5, <1>7, <1>9 DEF VerifierInv
<1> QED
  BY <1>3, <1>10 DEF SchemeInv

LEMMA ReceivesDamagedKeeps == SchemeInv /\ ReceivesDamaged => SchemeInv'
<1> SUFFICES ASSUME SchemeInv, ReceivesDamaged PROVE SchemeInv'
  OBVIOUS
<1>1. PICK p \in Damaged(proof), entry \in BOOLEAN :
         Receives(p, pInstances, statement.public_input, entry)
  BY DEF ReceivesDamaged
<1>2. pInstances \in Seq(Instances) /\ statement.public_input \in PublicInputs
  BY DEF SchemeInv, ProverInv
<1>3. proof.tag = "proof"
  BY DEF ReceivesDamaged
<1> QED
  BY <1>1, <1>2, <1>3, ReceivesKeeps

LEMMA ReceivesIntactKeeps == SchemeInv /\ ReceivesIntact => SchemeInv'
<1> SUFFICES ASSUME SchemeInv, ReceivesIntact PROVE SchemeInv'
  OBVIOUS
<1>1. proof.tag = "proof"
  BY DEF ReceivesIntact
<1>2. PICK ins \in {pInstances, Reverse(pInstances), <<>>}
                      \cup {Append(Front(pInstances), other) : other \in Instances},
           public_input \in PublicInputs, entry \in BOOLEAN :
              Receives(proof, ins, public_input, entry)
  BY DEF ReceivesIntact
<1>3. pInstances \in Seq(Instances) /\ pInstances # <<>>
  <2>1. Run(pInstances, pAccs, pSteps, Ok, oracle,
            Augment(statement.scheme, statement.public_input))
    BY <1>1, ProofIsHonest DEF SchemeInv, ProverInv, Honest
  <2>2. Len(pInstances) \in Nat \ {0}
    BY <2>1, LastType
  <2> QED
    BY <2>2 DEF SchemeInv, ProverInv
<1>4. Reverse(pInstances) \in Seq(Instances)
  BY <1>3 DEF Reverse
<1>5. ASSUME NEW other \in Instances PROVE Append(Front(pInstances), other) \in Seq(Instances)
  BY <1>3 DEF Front
<1>6. ins \in Seq(Instances)
  <2>1. <<>> \in Seq(Instances)
    OBVIOUS
  <2> QED
    BY <1>2, <1>3, <1>4, <1>5, <2>1, Zenon
<1> QED
  BY <1>1, <1>2, <1>6, ReceivesKeeps

LEMMA RefusesKeeps == SchemeInv /\ Refuses => SchemeInv'
<1> SUFFICES ASSUME SchemeInv, Refuses PROVE SchemeInv'
  OBVIOUS
<1>1. /\ received # Pending /\ Screening # Ok /\ verdict' = Screening
      /\ UNCHANGED <<statement, proverVars, proof, received, verifierVars, oracle>>
  BY DEF Refuses
<1>2. OracleInv' /\ ProverInv'
  BY <1>1 DEF SchemeInv, OracleInv, ProverInv, Honest, proverVars
<1>3. Honest' /\ Screening' = Screening /\ Checking' = Checking
      /\ Damaged(proof)' = Damaged(proof)
  BY <1>1 DEF SchemeInv, VerifierInv, Honest, proverVars, verifierVars, Screening, Checking
<1>4. VerifierInv'
  BY <1>1, <1>3 DEF SchemeInv, VerifierInv, verifierVars
<1> QED
  BY <1>2, <1>4 DEF SchemeInv

LEMMA ReplaysKeeps == SchemeInv /\ Replays => SchemeInv'
<1> SUFFICES ASSUME SchemeInv, Replays PROVE SchemeInv'
  OBVIOUS
<1>1. /\ received # Pending /\ verdict = Pending /\ Screening = Ok
      /\ UNCHANGED <<statement, proverVars, proof, received, verdict>>
  BY DEF Replays
<1>2. /\ OracleInv' /\ vInstances' = vInstances
      /\ DOMAIN oracle \subseteq DOMAIN oracle'
      /\ \A q \in DOMAIN oracle : oracle'[q] = oracle[q]
      /\ Run(vInstances, vAccs', vSteps', vOutcome', oracle',
             Augment(Checking, received.public_input))
  BY <1>1, VerifierRuns DEF SchemeInv, VerifierInv
<1>3. Run(pInstances, pAccs, pSteps, pOutcome, oracle',
          Augment(statement.scheme, statement.public_input))
  BY <1>2, RunKeeps DEF SchemeInv, ProverInv
<1>4. ProverInv'
  BY <1>1, <1>3 DEF SchemeInv, ProverInv, Honest, proverVars
<1>5. Honest' /\ Screening' = Screening /\ Checking' = Checking
      /\ Damaged(proof)' = Damaged(proof)
  BY <1>1, <1>2 DEF SchemeInv, VerifierInv, Honest, proverVars, Screening, Checking
<1>6. Run(vInstances, vAccs, vSteps, vOutcome, oracle, Augment(Checking, received.public_input))'
  BY <1>1, <1>2, <1>5
<1>7. VerifierInv'
  BY <1>1, <1>2, <1>5, <1>6 DEF SchemeInv, VerifierInv
<1> QED
  BY <1>2, <1>4, <1>7 DEF SchemeInv

LEMMA ConcludesKeeps == SchemeInv /\ Concludes => SchemeInv'
<1> SUFFICES ASSUME SchemeInv, Concludes PROVE SchemeInv'
  OBVIOUS
<1>1. /\ received # Pending /\ vOutcome # Running /\ verdict' = Conclusion(received.proof)
      /\ UNCHANGED <<statement, proverVars, proof, received, verifierVars, oracle>>
  BY VerifierOps DEF Concludes
<1>2. OracleInv' /\ ProverInv'
  BY <1>1 DEF SchemeInv, OracleInv, ProverInv, Honest, proverVars
<1>3. Honest' /\ Screening' = Screening /\ Checking' = Checking
      /\ Damaged(proof)' = Damaged(proof)
      /\ Conclusion(received.proof)' = Conclusion(received.proof)
  BY <1>1 DEF SchemeInv, VerifierInv, Honest, proverVars, verifierVars, Screening, Checking,
     Conclusion
<1>4. VerifierInv'
  BY <1>1, <1>3 DEF SchemeInv, VerifierInv, verifierVars
<1> QED
  BY <1>2, <1>4 DEF SchemeInv

LEMMA SchemeInvIsInductive == SchemeInv /\ [Next]_vars => SchemeInv'
<1>1. SchemeInv /\ UNCHANGED vars => SchemeInv'
  <2> SUFFICES ASSUME SchemeInv, UNCHANGED vars PROVE SchemeInv'
    OBVIOUS
  <2>1. UNCHANGED <<statement, proverVars, proof, received, verifierVars, verdict, oracle>>
    BY DEF vars
  <2>2. OracleInv' /\ ProverInv'
    BY <2>1 DEF SchemeInv, OracleInv, ProverInv, Honest, proverVars
  <2>3. /\ Screening' = Screening /\ Checking' = Checking /\ Damaged(proof)' = Damaged(proof)
        /\ Conclusion(received.proof)' = Conclusion(received.proof)
        /\ Honest' = Honest
    BY <2>1 DEF Honest, proverVars, verifierVars, Screening, Checking, Conclusion
  <2>4. VerifierInv'
    BY <2>1, <2>3 DEF SchemeInv, VerifierInv, verifierVars
  <2> QED
    BY <2>2, <2>4 DEF SchemeInv
<1> QED
  BY <1>1, FoldsKeeps, ProvesKeeps, ReceivesDamagedKeeps, ReceivesIntactKeeps, RefusesKeeps,
     ReplaysKeeps, ConcludesKeeps DEF Next

\* The strengthening that all the theorems below rest on: both runs are runs of
\* the same loop over the same hash, the proof is its prover's, what is received
\* differs from it in one part at most, and a verdict is that of the screening
\* or that of the comparison.
THEOREM SchemeInvHolds == Spec => []SchemeInv
<1>1. Init => SchemeInv
  BY InitSchemeInv
<1>2. SchemeInv /\ [Next]_vars => SchemeInv'
  BY SchemeInvIsInductive
<1> QED
  BY <1>1, <1>2, PTL DEF Spec
----------------------------------------------------------------------------
(* Two runs over the same instances, hash and public input do the same.    *)

LEMMA SameAccumulators ==
    ASSUME NEW ins, NEW o, NEW pi, NEW a, NEW s, NEW out, NEW b, NEW t, NEW out2,
           Run(ins, a, s, out, o, pi), Run(ins, b, t, out2, o, pi)
    PROVE  \A k \in 1 .. Len(a) : k <= Len(b) => a[k] = b[k]
<1> DEFINE Same == {n \in Nat : n + 1 <= Len(a) /\ n + 1 <= Len(b) => a[n + 1] = b[n + 1]}
<1>1. a \in Seq(AccumulatorType) /\ b \in Seq(AccumulatorType)
  BY DEF Run, RunTypes
<1>2. Len(a) \in Nat /\ Len(b) \in Nat
  BY <1>1
<1>3. 0 \in Same
  <2>1. 1 <= Len(a) => a[1] = ins[1]
    BY <1>1 DEF Run
  <2>2. 1 <= Len(b) => b[1] = ins[1]
    BY <1>1 DEF Run
  <2> QED
    BY <2>1, <2>2
<1>4. ASSUME NEW n \in Nat, n \in Same PROVE n + 1 \in Same
  <2> SUFFICES ASSUME (n + 1) + 1 <= Len(a), (n + 1) + 1 <= Len(b)
               PROVE  a[(n + 1) + 1] = b[(n + 1) + 1]
    OBVIOUS
  <2>1. n + 1 \in 1 .. Len(a) - 1 /\ n + 1 \in 1 .. Len(b) - 1
    BY <1>2
  <2>2. FoldedAt(ins, a, s, o, pi, n + 1) /\ FoldedAt(ins, b, t, o, pi, n + 1)
    BY <2>1 DEF Run
  <2>3. a[n + 1] = b[n + 1]
    BY <1>2, <1>4
  <2> QED
    BY <2>2, <2>3 DEF FoldedAt
<1> HIDE DEF Same
<1>5. \A n \in Nat : n \in Same
  BY <1>3, <1>4, SetInduction
<1> QED
  <2> TAKE k \in 1 .. Len(a)
  <2> HAVE k <= Len(b)
  <2>1. k - 1 \in Same /\ (k - 1) + 1 = k
    BY <1>5
  <2> QED
    BY <1>2, <2>1 DEF Same

LEMMA SameRun ==
    ASSUME NEW ins, NEW o, NEW pi, NEW a, NEW s, NEW b, NEW t,
           Run(ins, a, s, Ok, o, pi), Run(ins, b, t, Ok, o, pi)
    PROVE  a = b /\ s = t
<1>1. /\ a \in Seq(AccumulatorType) /\ b \in Seq(AccumulatorType)
      /\ s \in Seq(StepRecord) /\ t \in Seq(StepRecord)
  BY DEF Run, RunTypes
<1>2. Len(a) = Len(b) /\ a # <<>> /\ b # <<>>
  BY LastType
<1>3. a = b
  BY <1>1, <1>2, SameAccumulators
<1>4. Len(s) = Len(a) - 1 /\ Len(t) = Len(a) - 1
  BY <1>2 DEF Run, RunTypes
<1>5. ASSUME NEW k \in 1 .. Len(a) - 1 PROVE s[k] = t[k]
  <2>1. FoldedAt(ins, a, s, o, pi, k) /\ FoldedAt(ins, b, t, o, pi, k)
    BY <1>2 DEF Run
  <2> QED
    BY <1>3, <2>1 DEF FoldedAt
<1> QED
  BY <1>1, <1>3, <1>4, <1>5

\* A run that followed a successful one cannot have failed.
LEMMA ReplaySucceeds ==
    ASSUME NEW ins, NEW o, NEW pi, NEW a, NEW s, NEW b, NEW t, NEW out,
           Run(ins, a, s, Ok, o, pi), Run(ins, b, t, out, o, pi), out # Running
    PROVE  out = Ok
<1> SUFFICES ASSUME out # Ok PROVE FALSE
  OBVIOUS
<1>1. ins # <<>> /\ Len(a) = Len(ins) /\ a \in Seq(AccumulatorType)
  BY LastType DEF Run, RunTypes
<1>2. /\ b # <<>> /\ Len(b) < Len(ins) /\ b \in Seq(AccumulatorType)
      /\ MergeOutcome(b[Len(b)], ins[Len(b) + 1]) # Ok
  BY <1>1 DEF Run, RunTypes, Ended
<1>3. Len(b) \in 1 .. Len(a) - 1
  BY <1>1, <1>2
<1>4. a[Len(b)] = b[Len(b)]
  BY <1>1, <1>3, SameAccumulators
<1>5. FoldedAt(ins, a, s, o, pi, Len(b))
  BY <1>3 DEF Run
<1> QED
  BY <1>2, <1>4, <1>5 DEF FoldedAt
----------------------------------------------------------------------------
(* What is proved of proving and verifying.                                *)

\* Every recorded step passes verify_step under its own challenge and no other,
\* exactly when the accumulator it made is satisfied.
THEOREM StepsVerifyAlways == Spec => []StepsVerify
<1>1. SchemeInv => StepsVerify
  <2> SUFFICES ASSUME SchemeInv, NEW k \in DOMAIN pSteps
               PROVE  LET Verified(step) ==
                            VerifyStep(pAccs[k], pInstances[k + 1],
                                       Augment(statement.scheme, statement.public_input),
                                       step, pAccs[k + 1])
                      IN  /\ Verified(pSteps[k]) = Check(pAccs[k + 1])
                          /\ \A c \in Scalar \ {pSteps[k].challenge} :
                                Verified([pSteps[k] EXCEPT !.challenge = c]) = Mismatch
    BY DEF StepsVerify
  <2> DEFINE pi == Augment(statement.scheme, statement.public_input)
             r == oracle[Query(pAccs[k], pInstances[k + 1], pi)]
  <2>1. Run(pInstances, pAccs, pSteps, pOutcome, oracle, pi)
    BY DEF SchemeInv, ProverInv
  <2>2. /\ pSteps \in Seq(StepRecord) /\ Len(pSteps) = (IF pAccs = <<>> THEN 0 ELSE Len(pAccs) - 1)
        /\ pAccs \in Seq(AccumulatorType)
    BY <2>1 DEF Run, RunTypes
  <2>3. k \in 1 .. Len(pAccs) - 1 /\ pSteps[k] \in StepRecord
    BY <2>2
  <2>4. FoldedAt(pInstances, pAccs, pSteps, oracle, pi, k)
    BY <2>1, <2>3 DEF Run
  <2>5. /\ MergeOutcome(pAccs[k], pInstances[k + 1]) = Ok
        /\ pSteps[k].challenge = r /\ pAccs[k + 1] = Merge(pAccs[k], pInstances[k + 1], r)
    BY <2>4 DEF FoldedAt
  <2>6. r \in Scalar /\ \A c \in Scalar : Canonical(c)
    BY <2>3, <2>5, ScalarBytes DEF StepRecord
  <2> HIDE DEF r
  <2>7. VerifyStep(pAccs[k], pInstances[k + 1], pi, pSteps[k], pAccs[k + 1]) = Check(pAccs[k + 1])
    BY <2>5, <2>6 DEF VerifyStep, r
  <2>8. ASSUME NEW c \in Scalar \ {pSteps[k].challenge}
        PROVE  VerifyStep(pAccs[k], pInstances[k + 1], pi,
                          [pSteps[k] EXCEPT !.challenge = c], pAccs[k + 1]) = Mismatch
    <3>1. [pSteps[k] EXCEPT !.challenge = c].challenge = c /\ Canonical(c) /\ c # r
      BY <2>3, <2>5, <2>6 DEF StepRecord
    <3> QED
      BY <3>1 DEF VerifyStep, r
  <2> QED
    BY <2>7, <2>8
<1> QED
  BY <1>1, SchemeInvHolds, PTL

\* What an accepting verdict says: the screening passed, the replay ended well
\* and agrees with the proof.
LEMMA Accepted ==
    ASSUME SchemeInv, verdict = Ok
    PROVE  /\ received # Pending /\ Honest /\ Screening = Ok
           /\ received.proof \in Damaged(proof) \cup {proof}
           /\ received.proof.scheme = Checking.kind
           /\ vOutcome = Ok /\ Agrees(received.proof, Last(vAccs), vSteps)
           /\ PastaDigest(received.proof.final_acc) = received.proof.pasta_cross_check
           /\ Run(vInstances, vAccs, vSteps, Ok, oracle, Augment(Checking, received.public_input))
<1>1. Ok # Pending /\ Ok # Mismatch /\ Ok # StepCountMismatch
  BY DEF Ok, Pending, Mismatch, StepCountMismatch
<1>2. received # Pending
  BY <1>1 DEF SchemeInv, VerifierInv
<1>3. /\ Honest /\ Conclusion(received.proof) = Ok /\ vOutcome # Running /\ Screening = Ok
      /\ received.proof \in Damaged(proof) \cup {proof}
      /\ Run(vInstances, vAccs, vSteps, vOutcome, oracle,
             Augment(Checking, received.public_input))
  BY <1>1, <1>2 DEF SchemeInv, VerifierInv
<1>4. received.proof.scheme = Checking.kind
  BY <1>1, <1>3 DEF Screening
<1>5. /\ vOutcome = Ok /\ Agrees(received.proof, Last(vAccs), vSteps)
      /\ PastaDigest(received.proof.final_acc) = received.proof.pasta_cross_check
  BY <1>1, <1>3 DEF Conclusion
<1> QED
  BY <1>2, <1>3, <1>4, <1>5

\* An honest proof gets from its own scheme the verdict its final accumulator
\* deserves: the replay asks the queries of the prover, in its order.
THEOREM HonestVerifiesAlways == Spec => []HonestVerifies
<1>1. SchemeInv => HonestVerifies
  <2> SUFFICES ASSUME SchemeInv, verdict # Pending, Intact, SameStatement, ~received.entry
               PROVE  verdict = Check(proof.final_acc)
    BY DEF HonestVerifies
  <2> DEFINE pi == Augment(statement.scheme, statement.public_input)
  <2>1. /\ received # Pending /\ Honest
        /\ Run(vInstances, vAccs, vSteps, vOutcome, oracle,
               Augment(Checking, received.public_input))
        /\ \/ verdict = Screening /\ Screening # Ok
           \/ verdict = Conclusion(received.proof) /\ vOutcome # Running
    BY DEF SchemeInv, VerifierInv
  <2>2. received.proof = proof /\ vInstances = pInstances /\ Checking = statement.scheme
        /\ received.public_input = statement.public_input
    BY DEF Intact, SameStatement, Checking
  <2>3. /\ pOutcome = Ok /\ PastaOutcome(Last(pAccs)) = Ok
        /\ proof.scheme = statement.scheme.kind /\ proof.final_acc = Last(pAccs)
        /\ proof.steps = pSteps /\ proof.pasta_cross_check = PastaDigest(Last(pAccs))
    BY <2>1 DEF Honest
  <2>4. Screening = Ok
    BY <2>2, <2>3 DEF Screening
  <2>5. verdict = Conclusion(proof) /\ vOutcome # Running
    BY <2>1, <2>2, <2>4
  <2>6. /\ Run(pInstances, pAccs, pSteps, Ok, oracle, pi)
        /\ Run(pInstances, vAccs, vSteps, vOutcome, oracle, pi)
    BY <2>1, <2>2, <2>3 DEF SchemeInv, ProverInv
  <2>7. vOutcome = Ok
    BY <2>5, <2>6, ReplaySucceeds
  <2>8. vAccs = pAccs /\ vSteps = pSteps
    BY <2>6, <2>7, SameRun
  <2> QED
    BY <2>3, <2>5, <2>7, <2>8 DEF Conclusion, Agrees
<1> QED
  BY <1>1, SchemeInvHolds, PTL

\* One part of a damaged proof differs: if that is the tag, the rest is as it was.
LEMMA Relabelled ==
    ASSUME Honest, NEW p \in Damaged(proof) \cup {proof}, p.scheme # proof.scheme
    PROVE  p.steps = proof.steps /\ p.final_acc = proof.final_acc
<1>1. proof = [tag |-> "proof", scheme |-> statement.scheme.kind, final_acc |-> Last(pAccs),
               steps |-> pSteps, pasta_cross_check |-> PastaDigest(Last(pAccs))]
  BY DEF Honest
<1>2. \E kind \in Kinds : p = [proof EXCEPT !.scheme = kind]
  BY <1>1 DEF Damaged
<1> QED
  BY <1>1, <1>2

\* A proof that verifies as Nova's for the prover's statement has its prover's
\* step records, u and commitments, and the digest of the rows it holds.
THEOREM NovaNoticesDamageAlways == Spec => []NovaNoticesDamage
<1>1. SchemeInv => NovaNoticesDamage
  <2> SUFFICES ASSUME SchemeInv, verdict = Ok, SameStatement, Checking.kind = "nova"
               PROVE  /\ received.proof.steps = proof.steps
                      /\ Visible(received.proof.final_acc) = Visible(proof.final_acc)
                      /\ received.proof.pasta_cross_check
                           = PastaDigest(received.proof.final_acc)
    BY DEF NovaNoticesDamage
  <2> DEFINE p == received.proof
  <2>1. /\ Honest /\ p \in Damaged(proof) \cup {proof} /\ p.scheme = "nova"
        /\ Agrees(p, Last(vAccs), vSteps) /\ PastaDigest(p.final_acc) = p.pasta_cross_check
        /\ Run(vInstances, vAccs, vSteps, Ok, oracle, Augment(Checking, received.public_input))
    BY Accepted
  <2>2. /\ pOutcome = Ok /\ proof.scheme = statement.scheme.kind
        /\ proof.final_acc = Last(pAccs) /\ proof.steps = pSteps
    BY <2>1 DEF Honest
  <2>3. p.steps = vSteps /\ Visible(p.final_acc) = Visible(Last(vAccs))
    BY <2>1 DEF Agrees
  <2>4. CASE proof.scheme # "nova"
    BY <2>1, <2>4, Relabelled
  <2>5. CASE proof.scheme = "nova"
    <3>1. /\ Augment(statement.scheme, statement.public_input) = statement.public_input
          /\ Augment(Checking, received.public_input) = received.public_input
      BY <2>2, <2>5 DEF Augment
    <3>2. /\ Run(pInstances, pAccs, pSteps, Ok, oracle, statement.public_input)
          /\ Run(pInstances, vAccs, vSteps, Ok, oracle, statement.public_input)
      BY <2>1, <2>2, <3>1 DEF SchemeInv, ProverInv, SameStatement
    <3>3. vAccs = pAccs /\ vSteps = pSteps
      BY <3>2, SameRun
    <3> QED
      BY <2>1, <2>2, <2>3, <3>3
  <2> QED
    BY <2>1, <2>4, <2>5
<1> QED
  BY <1>1, SchemeInvHolds, PTL

\* An intact Nova proof with a fold in it verifies for its own public input and
\* instances only: equal challenges are answers to equal queries.
THEOREM NovaBindsStatementAlways == Spec => []NovaBindsStatement
<1>1. SchemeInv => NovaBindsStatement
  <2> SUFFICES ASSUME SchemeInv, verdict = Ok, Intact, Checking.kind = "nova",
                      Len(pInstances) > 1
               PROVE  /\ received.public_input = statement.public_input
                      /\ [i \in DOMAIN vInstances |-> Visible(vInstances[i])]
                           = [i \in DOMAIN pInstances |-> Visible(pInstances[i])]
    BY DEF NovaBindsStatement
  <2> DEFINE given == statement.public_input
             claimed == received.public_input
  <2>1. /\ Honest /\ proof.scheme = "nova" /\ Agrees(proof, Last(vAccs), vSteps)
        /\ Run(vInstances, vAccs, vSteps, Ok, oracle, Augment(Checking, claimed))
    BY Accepted DEF Intact
  <2>2. pOutcome = Ok /\ proof.scheme = statement.scheme.kind /\ proof.steps = pSteps
    BY <2>1 DEF Honest
  <2>3. vSteps = pSteps
    BY <2>1, <2>2 DEF Agrees
  <2>4. Augment(statement.scheme, given) = given /\ Augment(Checking, claimed) = claimed
    BY <2>1, <2>2 DEF Augment
  <2>5. /\ Run(pInstances, pAccs, pSteps, Ok, oracle, given)
        /\ Run(vInstances, vAccs, vSteps, Ok, oracle, claimed)
    BY <2>1, <2>2, <2>4 DEF SchemeInv, ProverInv
  <2>6. /\ Len(pAccs) = Len(pInstances) /\ Len(vAccs) = Len(vInstances)
        /\ Len(pAccs) \in Nat \ {0} /\ Len(vAccs) \in Nat \ {0}
        /\ pAccs # <<>> /\ vAccs # <<>>
    BY <2>5, LastType
  <2>7. Len(vInstances) = Len(pInstances)
    BY <2>3, <2>5, <2>6 DEF Run, RunTypes
  <2>8. pInstances \in Seq(AccumulatorType) /\ vInstances \in Seq(AccumulatorType)
    BY <2>5 DEF Run, RunTypes
  <2> HIDE DEF given, claimed
  <2>9. ASSUME NEW k \in 1 .. Len(pInstances) - 1
        PROVE  /\ claimed = given /\ Visible(vAccs[k]) = Visible(pAccs[k])
               /\ Visible(vInstances[k + 1]) = Visible(pInstances[k + 1])
    <3> DEFINE asked == Query(pAccs[k], pInstances[k + 1], given)
               replayed == Query(vAccs[k], vInstances[k + 1], claimed)
    <3>1. k \in 1 .. Len(pAccs) - 1 /\ k \in 1 .. Len(vAccs) - 1
      BY <2>6, <2>7
    <3>2. /\ FoldedAt(pInstances, pAccs, pSteps, oracle, given, k)
          /\ FoldedAt(vInstances, vAccs, vSteps, oracle, claimed, k)
      BY <2>5, <3>1 DEF Run
    <3>3. /\ asked \in DOMAIN oracle /\ replayed \in DOMAIN oracle
          /\ oracle[asked] = pSteps[k].challenge /\ oracle[replayed] = vSteps[k].challenge
      BY <3>2 DEF FoldedAt
    <3>4. asked = replayed
      BY <2>3, <3>3 DEF SchemeInv, OracleInv, IsInjective
    <3> QED
      BY <3>4 DEF Query
  <2>10. 1 \in 1 .. Len(pInstances) - 1
    BY <2>8
  <2>11. claimed = given
    BY <2>9, <2>10
  <2>12. ASSUME NEW i \in 1 .. Len(pInstances)
         PROVE  Visible(vInstances[i]) = Visible(pInstances[i])
    <3>1. CASE i = 1
      <4>1. vAccs[1] = vInstances[1] /\ pAccs[1] = pInstances[1]
        BY <2>5, <2>6 DEF Run
      <4> QED
        BY <2>9, <2>10, <3>1, <4>1
    <3>2. CASE i # 1
      <4>1. i - 1 \in 1 .. Len(pInstances) - 1 /\ (i - 1) + 1 = i
        BY <2>8, <3>2
      <4> QED
        BY <2>9, <4>1
    <3> QED
      BY <3>1, <3>2
  <2>13. DOMAIN vInstances = 1 .. Len(pInstances) /\ DOMAIN pInstances = 1 .. Len(pInstances)
    BY <2>7, <2>8
  <2> QED
    BY <2>11, <2>12, <2>13 DEF given, claimed
<1> QED
  BY <1>1, SchemeInvHolds, PTL
----------------------------------------------------------------------------
(* Types.                                                                  *)

\* The digest is a scalar of the field of the cross-check.
LEMMA PastaDigestType ==
    ASSUME NEW acc \in AccumulatorType
    PROVE  PastaDigest(acc) \in 0 .. PastaOrder - 1
<1> DEFINE rows == acc.rows
           S == DOMAIN rows
           V == 0 .. PastaOrder - 1
           pick == [T \in SUBSET S |-> Max(T)]
           op == [xv \in S \X V |-> (xv[2] + rows[xv[1]].az * rows[xv[1]].bz) % PastaOrder]
           Solves(g) == g = [s \in SUBSET S |->
                               IF s = {} THEN 0
                               ELSE (g[s \ {Max(s)}] + rows[Max(s)].az * rows[Max(s)].bz)
                                      % PastaOrder]
<1>1. rows \in Seq(RelaxedRow) /\ S = 1 .. Len(rows) /\ Len(rows) \in Nat
  BY DEF AccumulatorType
<1>2. PastaDigest(acc) = (CHOOSE g : Solves(g))[S]
  BY Zenon DEF PastaDigest, FoldLeft, MapThenFoldSet
<1>3. \A x \in S : rows[x].az \in Nat /\ rows[x].bz \in Nat
  <2>1. \A x \in S : rows[x] \in RelaxedRow
    BY <1>1
  <2> QED
    BY <2>1, ScalarBytes DEF RelaxedRow
<1>4. PastaOrder \in Nat \ {0}
  BY FoldSchemeAssumption, FieldAssumption
<1>5. ASSUME NEW x \in S, NEW v \in V
      PROVE  (v + rows[x].az * rows[x].bz) % PastaOrder \in V
  <2>1. rows[x].az * rows[x].bz \in Nat
    BY <1>3
  <2> QED
    BY <1>4, <2>1
<1>6. op \in [S \X V -> V]
  BY <1>5
<1>7. \A x \in S, v \in V : op[<<x, v>>] = (v + rows[x].az * rows[x].bz) % PastaOrder
  OBVIOUS
<1>8. Picks(pick, S)
  <2>1. IsFiniteSet(S)
    BY <1>1, FS_Interval
  <2>2. \A T \in SUBSET S : T # {} => Max(T) \in T
    BY <1>1, GreatestBelow
  <2> QED
    BY <2>1, <2>2 DEF Picks
<1>9. \A T \in SUBSET S : pick[T] = Max(T)
  OBVIOUS
<1>10. 0 \in V
  BY <1>4
<1> HIDE DEF pick, op, V, rows, S
<1>11. PICK g \in [SUBSET S -> V] : FoldsOver(g, S, 0, op, pick)
  <2> HIDE DEF Solves
  <2> QED
    BY <1>6, <1>8, <1>10, FoldExists
<1>12. \A T \in SUBSET S :
          g[T] = IF T = {} THEN 0
                 ELSE (g[T \ {Max(T)}] + rows[Max(T)].az * rows[Max(T)].bz) % PastaOrder
  <2>1. ASSUME NEW T \in SUBSET S, T # {}
        PROVE  g[T] = (g[T \ {Max(T)}] + rows[Max(T)].az * rows[Max(T)].bz) % PastaOrder
    <3>1. Max(T) \in S /\ g[T \ {Max(T)}] \in V
      BY <1>8, <1>9, <2>1 DEF Picks
    <3>2. g[T] = op[<<Max(T), g[T \ {Max(T)}]>>]
      BY <1>9, <1>11, <2>1 DEF FoldsOver
    <3> QED
      BY <1>7, <3>1, <3>2
  <2> QED
    BY <1>11, <2>1 DEF FoldsOver
<1>13. Solves(g)
  BY <1>12
<1> HIDE DEF Solves
<1>14. Solves(CHOOSE h : Solves(h))
  BY <1>13, Zenon
<1> DEFINE h == CHOOSE h : Solves(h)
           Same == {T \in SUBSET S : h[T] = g[T]}
<1>15. \A T \in SUBSET S :
          h[T] = IF T = {} THEN 0
                 ELSE (h[T \ {Max(T)}] + rows[Max(T)].az * rows[Max(T)].bz) % PastaOrder
  <2>1. Solves(h)
    BY <1>14
  <2> HIDE DEF h
  <2> QED
    BY <2>1 DEF Solves
<1> HIDE DEF h
<1>16. {} \in Same
  BY <1>12, <1>15
<1>17. \A T \in SUBSET S : T # {} /\ T \ {pick[T]} \in Same => T \in Same
  BY <1>9, <1>12, <1>15, ZenonT(30)
<1>18. \A T \in SUBSET S : T \in Same
  <2> HIDE DEF Same
  <2> QED
    BY <1>8, <1>16, <1>17, SubsetInduction
<1>19. PastaDigest(acc) = h[S]
  BY <1>2 DEF h
<1>20. h[S] = g[S] /\ g[S] \in V
  BY <1>18
<1> QED
  BY <1>19, <1>20 DEF V

LEMMA ProverType ==
    ASSUME pInstances \in Seq(Instances), RunTypes(pInstances, pAccs, pSteps, pOutcome)
    PROVE  Prover!TypeOK
<1>1. Prover!AccumulatorType = AccumulatorType
  BY Zenon DEF Prover!AccumulatorType, AccumulatorType, Prover!Bytes32, Bytes32,
     Prover!Commitment, Commitment, Prover!Scalar, Scalar, Prover!RelaxedRow, RelaxedRow
<1>2. Prover!FoldStep = StepRecord
  BY Zenon DEF Prover!FoldStep, StepRecord, Prover!Scalar, Scalar
<1>3. Prover!Outcome = {Running, Ok} \cup Error
  BY DEF Prover!Outcome, Prover!Running, Prover!Ok, Running, Ok, Error
<1> QED
  BY <1>1, <1>2, <1>3 DEF Prover!TypeOK, RunTypes

LEMMA VerifierType ==
    ASSUME vInstances \in Seq(Instances), RunTypes(vInstances, vAccs, vSteps, vOutcome)
    PROVE  Verifier!TypeOK
<1>1. Verifier!AccumulatorType = AccumulatorType
  BY Zenon DEF Verifier!AccumulatorType, AccumulatorType, Verifier!Bytes32, Bytes32,
     Verifier!Commitment, Commitment, Verifier!Scalar, Scalar, Verifier!RelaxedRow, RelaxedRow
<1>2. Verifier!FoldStep = StepRecord
  BY Zenon DEF Verifier!FoldStep, StepRecord, Verifier!Scalar, Scalar
<1>3. Verifier!Outcome = {Running, Ok} \cup Error
  BY DEF Verifier!Outcome, Verifier!Running, Verifier!Ok, Running, Ok, Error
<1> QED
  BY <1>1, <1>2, <1>3 DEF Verifier!TypeOK, RunTypes

\* What prove returns is a proof.
LEMMA HonestType == ProverInv /\ Honest => proof \in Proof
<1> SUFFICES ASSUME ProverInv, Honest PROVE proof \in Proof
  OBVIOUS
<1>1. proof = [tag |-> "proof", scheme |-> statement.scheme.kind, final_acc |-> Last(pAccs),
               steps |-> pSteps, pasta_cross_check |-> PastaDigest(Last(pAccs))]
  BY DEF Honest
<1>2. Run(pInstances, pAccs, pSteps, Ok, oracle,
          Augment(statement.scheme, statement.public_input))
  BY DEF ProverInv, Honest
<1>3. Last(pAccs) \in AccumulatorType
  BY <1>2, LastType
<1>4. PastaDigest(Last(pAccs)) \in 0 .. PastaOrder - 1
  BY <1>3, PastaDigestType
<1>5. statement.scheme.kind \in Kinds
  BY DEF ProverInv, Schemes, Kinds
<1>6. Prover!FoldStep = StepRecord
  BY Zenon DEF Prover!FoldStep, StepRecord, Prover!Scalar, Scalar
<1>7. pSteps \in Seq(Prover!FoldStep)
  BY <1>2, <1>6 DEF Run, RunTypes
<1> QED
  BY <1>1, <1>3, <1>4, <1>5, <1>7 DEF Proof

\* A proof with a damaged part is still of a proof's type.
LEMMA DamagedType ==
    ASSUME NEW q \in Proof, NEW p \in Damaged(q) PROVE p \in Proof
<1> DEFINE acc == q.final_acc
           steps == q.steps
           Step == Prover!FoldStep
<1>1. /\ acc \in AccumulatorType /\ steps \in Seq(Step) /\ q.scheme \in Kinds
      /\ q.pasta_cross_check \in 0 .. PastaOrder - 1
      /\ q = [tag |-> "proof", scheme |-> q.scheme, final_acc |-> acc, steps |-> steps,
              pasta_cross_check |-> q.pasta_cross_check]
  BY DEF Proof
<1>2. \A new \in AccumulatorType : [q EXCEPT !.final_acc = new] \in Proof
  BY DEF Proof
<1>3. \A new \in Seq(Step) : [q EXCEPT !.steps = new] \in Proof
  BY DEF Proof
<1>4. /\ {0, 1} \subseteq Scalar /\ {0, 1} \subseteq Bytes32 /\ {0, 2} \subseteq 0 .. MaxU64
      /\ {0, 1} \subseteq 0 .. PastaOrder - 1 /\ 0 \in Commitment
  BY FieldAssumption, AccumulatorAssumption, FoldSchemeAssumption
     DEF Scalar, Bytes32, Commitment
<1>5. Step = [challenge : Scalar, index : 0 .. MaxU64]
  BY Zenon DEF Prover!FoldStep, Prover!Scalar, Scalar
<1>6. ASSUME NEW kind \in Kinds, p = [q EXCEPT !.scheme = kind] PROVE p \in Proof
  BY <1>6 DEF Proof
<1>7. ASSUME NEW u \in {0, 1}, p = [q EXCEPT !.final_acc.u = u] PROVE p \in Proof
  <2>1. [acc EXCEPT !.u = u] \in AccumulatorType
    BY <1>1, <1>4 DEF AccumulatorType
  <2> QED
    BY <1>2, <1>7, <2>1
<1>8. ASSUME p = [q EXCEPT !.final_acc.commitment_e = 0] PROVE p \in Proof
  <2>1. [acc EXCEPT !.commitment_e = 0] \in AccumulatorType
    BY <1>1, <1>4 DEF AccumulatorType
  <2> QED
    BY <1>2, <1>8, <2>1
<1>9. ASSUME p = [q EXCEPT !.final_acc.rows = Reverse(@)] PROVE p \in Proof
  <2>1. acc.rows \in Seq(RelaxedRow)
    BY <1>1 DEF AccumulatorType
  <2> DEFINE rows == acc.rows
  <2>2. Reverse(rows) \in Seq(RelaxedRow)
    <3> HIDE DEF rows
    <3> QED
      BY <2>1 DEF Reverse, rows
  <2>3. [acc EXCEPT !.rows = Reverse(acc.rows)] \in AccumulatorType
    BY <1>1, <2>2 DEF AccumulatorType
  <2> QED
    BY <1>2, <1>9, <2>3
<1>10. ASSUME NEW k \in DOMAIN steps, NEW c \in {0, 1}, p = [q EXCEPT !.steps[k].challenge = c]
       PROVE  p \in Proof
  <2>1. [steps[k] EXCEPT !.challenge = c] \in Step
    <3> HIDE DEF Step, steps
    <3>1. steps[k] \in Step
      BY <1>1
    <3> QED
      BY <1>4, <1>5, <3>1
  <2>2. [steps EXCEPT ![k] = [steps[k] EXCEPT !.challenge = c]] \in Seq(Step)
    BY <1>1, <2>1
  <2> QED
    BY <1>3, <1>10, <2>2
<1>11. ASSUME NEW k \in DOMAIN steps, NEW n \in {0, 2}, p = [q EXCEPT !.steps[k].index = n]
       PROVE  p \in Proof
  <2>1. [steps[k] EXCEPT !.index = n] \in Step
    <3> HIDE DEF Step, steps
    <3>1. steps[k] \in Step
      BY <1>1
    <3> QED
      BY <1>4, <1>5, <3>1
  <2>2. [steps EXCEPT ![k] = [steps[k] EXCEPT !.index = n]] \in Seq(Step)
    BY <1>1, <2>1
  <2> QED
    BY <1>3, <1>11, <2>2
<1>12. ASSUME p = [q EXCEPT !.steps = Reverse(@)] PROVE p \in Proof
  <2>1. Reverse(steps) \in Seq(Step)
    BY <1>1 DEF Reverse
  <2> QED
    BY <1>3, <1>12, <2>1
<1>13. ASSUME p = [q EXCEPT !.steps = SubSeq(@, 2, Len(@))] PROVE p \in Proof
  <2>1. SubSeq(steps, 2, Len(steps)) \in Seq(Step)
    BY <1>1
  <2> QED
    BY <1>3, <1>13, <2>1
<1>14. ASSUME NEW d \in {0, 1}, p = [q EXCEPT !.pasta_cross_check = d] PROVE p \in Proof
  BY <1>4, <1>14 DEF Proof
<1> QED
  BY <1>6, <1>7, <1>8, <1>9, <1>10, <1>11, <1>12, <1>13, <1>14 DEF Damaged

\* Every value both sides hold is of its type, the damaged proofs too, and no
\* two queries ever get the same challenge.
THEOREM SchemeTypes == Spec => []TypeOK
<1>1. SchemeInv => TypeOK
  <2> SUFFICES ASSUME SchemeInv PROVE TypeOK
    OBVIOUS
  <2>1. statement \in [scheme : Schemes, public_input : PublicInputs] /\ Prover!TypeOK
    BY ProverType DEF SchemeInv, ProverInv, Run
  <2>2. Verifier!TypeOK
    <3>1. CASE received = Pending
      <4>1. vInstances = <<>> /\ vAccs = <<>> /\ vSteps = <<>> /\ vOutcome = Running
        BY <3>1 DEF SchemeInv, VerifierInv
      <4>2. vInstances \in Seq(Instances)
        BY <4>1
      <4>3. Run(vInstances, vAccs, vSteps, vOutcome, oracle, <<>>)
        BY <4>1, <4>2, InitRun
      <4> QED
        BY <4>2, <4>3, VerifierType DEF Run
    <3>2. CASE received # Pending
      BY <3>2, VerifierType DEF SchemeInv, VerifierInv, Run
    <3> QED
      BY <3>1, <3>2
  <2>3. proof.tag \in {"pending", "violated"} \/ proof \in Proof
    BY HonestType DEF SchemeInv, ProverInv, Error, Pending
  <2>4. received = Pending \/ received \in [tag : {"received"}, proof : Proof,
                                           public_input : PublicInputs, entry : BOOLEAN]
    <3> SUFFICES ASSUME received # Pending
                 PROVE  received \in [tag : {"received"}, proof : Proof,
                                      public_input : PublicInputs, entry : BOOLEAN]
      OBVIOUS
    <3>1. /\ Honest
          /\ received \in [tag : {"received"}, proof : Damaged(proof) \cup {proof},
                           public_input : PublicInputs, entry : BOOLEAN]
      BY DEF SchemeInv, VerifierInv
    <3>2. proof \in Proof
      BY <3>1, HonestType DEF SchemeInv
    <3>3. Damaged(proof) \cup {proof} \subseteq Proof
      BY <3>2, DamagedType
    <3> QED
      BY <3>1, <3>3
  <2>5. IsInjective(oracle) /\ Range(oracle) \subseteq Challenges
    BY DEF SchemeInv, OracleInv
  <2> QED
    BY <2>1, <2>2, <2>3, <2>4, <2>5 DEF TypeOK
<1> QED
  BY <1>1, SchemeInvHolds, PTL

\* Whatever the scheme, prove's fold is a run of the loop of FoldChain, the hash
\* choosing the challenges: what holds of the loop under every choice of them
\* holds of every prover.
THEOREM ProverRunsTheLoop == Spec => Prover!Spec
<1>1. Init => Prover!Init
  BY DEF Init
<1>2. [Next]_vars => [Prover!Next]_(Prover!vars)
  <2> SUFFICES ASSUME [Next]_vars PROVE [Prover!Next]_(Prover!vars)
    OBVIOUS
  <2>1. ASSUME Folds PROVE Prover!Next
    <3>1. ASSUME NEW r \in Challenges, Prover!ProveStep(r) PROVE Prover!Next
      BY <3>1, Zenon DEF Prover!Next, Prover!Challenges, Challenges, Prover!Challenge, Challenge,
         Prover!Bytes32, Bytes32
    <3>2. Prover!RejectEmpty \/ Prover!Seed \/ Prover!MergeFails \/ Prover!Finish => Prover!Next
      BY DEF Prover!Next
    <3> QED
      BY <2>1, <3>1, <3>2, Zenon DEF Folds
  <2>2. CASE proverVars' = proverVars
    BY <2>2 DEF proverVars, Prover!vars
  <2> QED
    BY <2>1, <2>2 DEF Next, Proves, ReceivesDamaged, ReceivesIntact, Receives, Refuses,
       Replays, Concludes, vars
<1> QED
  BY <1>1, <1>2, PTL DEF Spec, Prover!Spec
============================================================================

----------------------------- MODULE FoldScheme -----------------------------
(***************************************************************************)
(* Proving and verifying: a prover folds its instances and emits a proof,  *)
(* a relying party folds its own copy of them and compares.  Both run the  *)
(* loop of FoldChain; what is added here is where challenges come from,    *)
(* what the three schemes put into a proof and what they check of it, and  *)
(* verify_proof, which chooses a scheme by the proof's tag.                *)
(*                                                                         *)
(* The hash behind a challenge is a function that is found out one query   *)
(* at a time: a new query draws any challenge no other query has (distinct *)
(* inputs do not collide), a repeated one gets its old answer.             *)
(***************************************************************************)
EXTENDS Accumulator, SequencesExt

CONSTANTS
    Instances,     \* the accumulators a chain may be asked to fold
    MaxChain,      \* bound: instances in a chain
    PublicInputs,  \* sequences of scalars
    Selectors,     \* SuperNova's circuit choices: sequences of u16
    LaneCounts,    \* HyperNova's lane counts
    MaxU16,        \* the largest u16
    PastaOrder     \* the modulus of the field of the cross-check

ASSUME FoldSchemeAssumption ==
    /\ Instances \subseteq AccumulatorType /\ MaxChain \in Nat
    /\ MaxU64 >= 2
    /\ PublicInputs \subseteq Seq(Scalar)
    /\ Selectors \subseteq Seq(Scalar) /\ LaneCounts \subseteq Scalar
    /\ MaxU16 \in Nat \ {0}
    /\ PastaOrder \in Nat /\ Order <= PastaOrder

Kinds == {"nova", "supernova", "hypernova"}

\* The values of type Nova, SuperNova and HyperNova.
Schemes ==
    {[kind |-> "nova"]}
      \cup [kind : {"supernova"}, circuits : Selectors]
      \cup [kind : {"hypernova"}, lanes : LaneCounts]

\* What a scheme appends to the public input before it folds.
Augment(scheme, public_input) ==
    CASE scheme.kind = "nova" -> public_input
      [] scheme.kind = "supernova" -> public_input \o scheme.circuits
      [] scheme.kind = "hypernova" -> Append(public_input, scheme.lanes)

\* The scheme verify_proof instantiates for a proof: the selector is read off
\* the step indices (as u16, modulo u16::MAX), the lane count is always 1.
Dispatch(proof) ==
    CASE proof.scheme = "nova" -> [kind |-> "nova"]
      [] proof.scheme = "supernova" ->
           [kind |-> "supernova",
            circuits |-> [k \in DOMAIN proof.steps |->
                            (proof.steps[k].index % (MaxU16 + 1)) % MaxU16]]
      [] proof.scheme = "hypernova" -> [kind |-> "hypernova", lanes |-> 1]

\* The parts of an accumulator that are hashed, and that Nova compares.
Visible(acc) == <<acc.u, acc.commitment_z, acc.commitment_e>>

\* Mutant: the public input is left out of the hash.
QueryUnbound(acc, fresh, public_input) ==
    [running |-> Visible(acc), fresh |-> Visible(fresh),
     public_input |-> <<>>, step |-> acc.step]

\* What squeeze_challenge hashes.
Query(acc, fresh, public_input) ==
    [running |-> Visible(acc), fresh |-> Visible(fresh),
     public_input |-> public_input, step |-> acc.step]

\* pasta_cross_check_digest: an error, or the inner product of the columns.
PastaOutcome(acc) ==
    LET malformed == {i \in DOMAIN acc.rows :
                        ~Canonical(acc.rows[i].az) \/ ~Canonical(acc.rows[i].bz)}
    IN  IF malformed = {} THEN Ok ELSE AtFirst(malformed)

\* Mutant: no reduction.
PastaDigestUnreduced(acc) ==
    FoldLeft(LAMBDA sum, row : sum + row.az * row.bz, 0, acc.rows)

PastaDigest(acc) ==
    FoldLeft(LAMBDA sum, row : (sum + row.az * row.bz) % PastaOrder, 0, acc.rows)

\* Results of verification that FoldChain does not have.
Mismatch == [tag |-> "opening mismatch"]
StepCountMismatch == [tag |-> "step count mismatch"]

Pending == [tag |-> "pending"]

VARIABLES
    statement,                             \* the prover's scheme and public input
    pInstances, pAccs, pSteps, pOutcome,   \* its run of fold_chain
    proof,                                 \* Pending, an error, or what prove returned
    received,                              \* Pending, or what the relying party holds
    vInstances, vAccs, vSteps, vOutcome,   \* its run of fold_chain
    verdict,                               \* Pending, or the result of verification
    oracle                                 \* the queries answered so far

proverVars == <<pInstances, pAccs, pSteps, pOutcome>>
verifierVars == <<vInstances, vAccs, vSteps, vOutcome>>
vars == <<statement, proverVars, proof, received, verifierVars, verdict, oracle>>

Prover == INSTANCE FoldChain WITH
    instances <- pInstances, accs <- pAccs, steps <- pSteps, outcome <- pOutcome

Verifier == INSTANCE FoldChain WITH
    instances <- vInstances, accs <- vAccs, steps <- vSteps, outcome <- vOutcome

Proof ==
    [tag : {"proof"}, scheme : Kinds, final_acc : AccumulatorType,
     steps : Seq(Prover!FoldStep), pasta_cross_check : 0 .. PastaOrder - 1]

TypeOK ==
    /\ statement \in [scheme : Schemes, public_input : PublicInputs]
    /\ Prover!TypeOK /\ Verifier!TypeOK
    /\ proof.tag \in {"pending", "violated"} \/ proof \in Proof
    /\ received = Pending \/ received \in [tag : {"received"}, proof : Proof,
                                           public_input : PublicInputs, entry : BOOLEAN]
    /\ IsInjective(oracle) /\ Range(oracle) \subseteq Challenges

----------------------------------------------------------------------------
Init ==
    /\ statement \in [scheme : Schemes, public_input : PublicInputs]
    /\ Prover!Init
    /\ proof = Pending
    /\ received = Pending
    /\ vInstances = <<>> /\ vAccs = <<>> /\ vSteps = <<>> /\ vOutcome = Verifier!Running
    /\ verdict = Pending
    /\ oracle = <<>>

Answer(query, r) ==
    IF query \in DOMAIN oracle
    THEN /\ r = oracle[query]
         /\ UNCHANGED oracle
    ELSE /\ r \notin Range(oracle)
         /\ oracle' = [q \in DOMAIN oracle \cup {query} |-> IF q = query THEN r ELSE oracle[q]]

\* One iteration, or the return, of the fold_chain that prove runs.
Folds ==
    /\ \/ Prover!RejectEmpty /\ UNCHANGED oracle
       \/ Prover!Seed /\ UNCHANGED oracle
       \/ \E r \in Challenges :
             /\ Prover!ProveStep(r)
             /\ Answer(Query(Last(pAccs), Prover!Fresh,
                             Augment(statement.scheme, statement.public_input)), r)
       \/ Prover!MergeFails /\ UNCHANGED oracle
       \/ Prover!Finish /\ UNCHANGED oracle
    /\ UNCHANGED <<statement, proof, received, verifierVars, verdict>>

\* The rest of prove: the cross-check, and the proof.
Proves ==
    /\ proof = Pending /\ pOutcome # Prover!Running
    /\ proof' =
         IF pOutcome # Ok THEN pOutcome
         ELSE IF PastaOutcome(Last(pAccs)) # Ok THEN PastaOutcome(Last(pAccs))
         ELSE [tag |-> "proof", scheme |-> statement.scheme.kind, final_acc |-> Last(pAccs),
               steps |-> pSteps, pasta_cross_check |-> PastaDigest(Last(pAccs))]
    /\ UNCHANGED <<statement, proverVars, received, verifierVars, verdict, oracle>>

\* What a proof may have become in storage or transit: one part of it differs.
Damaged(p) ==
    {[p EXCEPT !.scheme = kind] : kind \in Kinds}
      \cup {[p EXCEPT !.final_acc.u = u] : u \in {0, 1}}
      \cup {[p EXCEPT !.final_acc.commitment_e = 0], [p EXCEPT !.final_acc.rows = Reverse(@)]}
      \cup {[p EXCEPT !.steps[k].challenge = c] : k \in DOMAIN p.steps, c \in {0, 1}}
      \cup {[p EXCEPT !.steps[k].index = n] : k \in DOMAIN p.steps, n \in {0, 2}}
      \cup {[p EXCEPT !.steps = Reverse(@)], [p EXCEPT !.steps = SubSeq(@, 2, Len(@))]}
      \cup {[p EXCEPT !.pasta_cross_check = d] : d \in {0, 1}}

\* The relying party holds a proof, its own instances and its own public input.
\* It calls verify_proof (the entry point), or verify of the very scheme object
\* the prover used.
Receives(p, instances, public_input, entry) ==
    /\ received = Pending
    /\ received' = [tag |-> "received", proof |-> p, public_input |-> public_input, entry |-> entry]
    /\ vInstances' = instances
    /\ UNCHANGED <<statement, proverVars, proof, vAccs, vSteps, vOutcome, verdict, oracle>>

ReceivesDamaged ==
    /\ proof.tag = "proof"
    /\ \E p \in Damaged(proof), entry \in BOOLEAN :
          Receives(p, pInstances, statement.public_input, entry)

\* Undamaged, but perhaps for another statement.
ReceivesIntact ==
    /\ proof.tag = "proof"
    /\ \E instances \in {pInstances, Reverse(pInstances), <<>>}
                         \cup {Append(Front(pInstances), other) : other \in Instances},
          public_input \in PublicInputs, entry \in BOOLEAN :
            Receives(proof, instances, public_input, entry)

\* Mutant: the selector and the lane count are always those of the entry point.
CheckingDefault == Dispatch(received.proof)

\* The scheme whose verify runs.
Checking == IF received.entry THEN Dispatch(received.proof) ELSE statement.scheme

\* The checks that come before the replay.
Screening ==
    IF received.entry /\ Len(received.proof.steps) # Max({0, Len(vInstances) - 1})
    THEN StepCountMismatch
    ELSE IF received.proof.scheme # Checking.kind THEN Mismatch
    ELSE Ok

Refuses ==
    /\ received # Pending /\ verdict = Pending
    /\ Screening # Ok
    /\ verdict' = Screening
    /\ UNCHANGED <<statement, proverVars, proof, received, verifierVars, oracle>>

\* One iteration, or the return, of the fold_chain that verify runs.
Replays ==
    /\ received # Pending /\ verdict = Pending
    /\ Screening = Ok
    /\ \/ Verifier!RejectEmpty /\ UNCHANGED oracle
       \/ Verifier!Seed /\ UNCHANGED oracle
       \/ \E r \in Challenges :
             /\ Verifier!ProveStep(r)
             /\ Answer(Query(Last(vAccs), Verifier!Fresh,
                             Augment(Checking, received.public_input)), r)
       \/ Verifier!MergeFails /\ UNCHANGED oracle
       \/ Verifier!Finish /\ UNCHANGED oracle
    /\ UNCHANGED <<statement, proverVars, proof, received, verdict>>

\* Mutant: Nova compares the accumulators but not the step records.
AgreesLoosely(p, replayed, steps) ==
    IF p.scheme = "nova"
    THEN Visible(p.final_acc) = Visible(replayed)
    ELSE p.final_acc.u = replayed.u

\* What a scheme compares of its replay and the proof: Nova the step records and
\* the visible parts, SuperNova and HyperNova only u.
Agrees(p, replayed, steps) ==
    IF p.scheme = "nova"
    THEN p.steps = steps /\ Visible(p.final_acc) = Visible(replayed)
    ELSE p.final_acc.u = replayed.u

Conclusion(p) ==
    IF vOutcome # Ok THEN vOutcome
    ELSE IF ~Agrees(p, Last(vAccs), vSteps) THEN Mismatch
    ELSE IF PastaOutcome(p.final_acc) # Ok THEN PastaOutcome(p.final_acc)
    ELSE IF PastaDigest(p.final_acc) # p.pasta_cross_check THEN Mismatch
    ELSE Check(p.final_acc)

Concludes ==
    /\ received # Pending /\ verdict = Pending
    /\ vOutcome # Verifier!Running
    /\ verdict' = Conclusion(received.proof)
    /\ UNCHANGED <<statement, proverVars, proof, received, verifierVars, oracle>>

Next ==
    \/ Folds
    \/ Proves
    \/ ReceivesDamaged
    \/ ReceivesIntact
    \/ Refuses
    \/ Replays
    \/ Concludes

Spec == Init /\ [][Next]_vars

----------------------------------------------------------------------------
\* Mutant: the counter is compared before it is raised.
VerifyStepStale(acc, fresh, public_input, step, merged) ==
    LET r == oracle[Query(acc, fresh, public_input)]
    IN  IF step.challenge # r THEN Mismatch
        ELSE IF MergeOutcome(acc, fresh) # Ok THEN MergeOutcome(acc, fresh)
        ELSE IF Visible(Merge(acc, fresh, r)) # Visible(merged) \/ acc.step # merged.step
        THEN Mismatch
        ELSE Check(merged)

\* verify_step, for a query that has been answered.
VerifyStep(acc, fresh, public_input, step, merged) ==
    LET r == oracle[Query(acc, fresh, public_input)]
        replay == Merge(acc, fresh, r)
    IN  IF ~Canonical(step.challenge) THEN Violated(0)
        ELSE IF step.challenge # r THEN Mismatch
        ELSE IF MergeOutcome(acc, fresh) # Ok THEN MergeOutcome(acc, fresh)
        ELSE IF Visible(replay) # Visible(merged) \/ replay.step # merged.step THEN Mismatch
        ELSE Check(merged)

\* Every step of a chain passes verify_step exactly when its accumulator is
\* satisfied, and under no other challenge than the recorded one.
StepsVerify ==
    \A k \in DOMAIN pSteps :
        LET Verified(step) ==
              VerifyStep(pAccs[k], pInstances[k + 1],
                         Augment(statement.scheme, statement.public_input), step, pAccs[k + 1])
        IN  /\ Verified(pSteps[k]) = Check(pAccs[k + 1])
            /\ \A c \in Scalar \ {pSteps[k].challenge} :
                  Verified([pSteps[k] EXCEPT !.challenge = c]) = Mismatch

SameStatement == vInstances = pInstances /\ received.public_input = statement.public_input
Intact == received.proof = proof

\* An honest proof gets from its own scheme exactly the verdict its final
\* accumulator deserves, whichever the scheme, its parameters and the error.
HonestVerifies ==
    (verdict # Pending /\ Intact /\ SameStatement /\ ~received.entry)
    => verdict = Check(proof.final_acc)

\* Nova notices damage to the step records, the cross-check, and u and the
\* commitments of the final accumulator.  Its rows and counter are never
\* compared with the replay, and nothing is said here of the proof's tag, which
\* verify_proof takes to choose the scheme.
NovaNoticesDamage ==
    (verdict = Ok /\ SameStatement /\ Checking.kind = "nova")
    => /\ received.proof.steps = proof.steps
       /\ Visible(received.proof.final_acc) = Visible(proof.final_acc)
       /\ received.proof.pasta_cross_check = PastaDigest(received.proof.final_acc)

\* An intact Nova proof verifies for no other statement: not for another public
\* input, nor for the instances in another order or one of them replaced, once
\* there is a fold.
NovaBindsStatement ==
    (verdict = Ok /\ Intact /\ Checking.kind = "nova" /\ Len(pInstances) > 1)
    => /\ received.public_input = statement.public_input
       /\ [i \in DOMAIN vInstances |-> Visible(vInstances[i])]
            = [i \in DOMAIN pInstances |-> Visible(pInstances[i])]

\* verify_proof accepts "if and only if every fold step's challenge matches" the
\* one the hash gave and the final accumulator is satisfied
\* (verifier/src/lib.rs:53-55), for a proof that has perhaps lost its step
\* records but is otherwise as its prover made it.
EntryIffReplays ==
    (verdict # Pending /\ received.entry /\ SameStatement
       /\ [received.proof EXCEPT !.steps = proof.steps] = proof)
    => (verdict = Ok <=> received.proof.steps = proof.steps /\ Check(proof.final_acc) = Ok)

\* A proof with at least one fold never verifies under another scheme than the
\* one that produced it (scheme.rs:23-25).
SchemeBindsProof ==
    (verdict = Ok /\ Len(vSteps) > 0) => received.proof.scheme = proof.scheme
=============================================================================

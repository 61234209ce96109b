----------------------------- MODULE FoldChain -----------------------------
(***************************************************************************)
(* The IVC loop: fold_chain seeds the accumulator with the first instance  *)
(* and folds every other one into it, each under a Fiat-Shamir challenge.  *)
(* The challenge is a hash of both accumulators, the public input and the  *)
(* step counter; it is modelled as any value such a hash can reduce to.    *)
(*                                                                         *)
(* The code keeps the current accumulator only.  `accs` keeps all of them: *)
(* accs[k] is the value of `acc` once k instances have been folded, its    *)
(* last element is the program's `acc`, and Len(accs) its loop counter.    *)
(***************************************************************************)
EXTENDS Accumulator, SequencesExt

CONSTANTS
    Instances,  \* the accumulators a chain may be asked to fold
    MaxChain    \* bound: instances in a chain

ASSUME FoldChainAssumption ==
    /\ Instances \subseteq AccumulatorType
    /\ MaxChain \in Nat

VARIABLES
    instances,  \* the argument of fold_chain
    accs,       \* every value of the running accumulator so far
    steps,      \* the FoldStep records pushed so far
    outcome     \* Running, or what fold_chain returned

vars == <<instances, accs, steps, outcome>>

Running == [tag |-> "running"]

FoldStep == [challenge : Scalar, index : 0 .. MaxU64]
Outcome == {Running, Ok} \cup [tag : {"violated"}, row : Nat]

TypeOK ==
    /\ instances \in Seq(Instances)
    /\ accs \in Seq(AccumulatorType) /\ Len(accs) <= Len(instances)
    /\ steps \in Seq(FoldStep) /\ Len(steps) = (IF accs = <<>> THEN 0 ELSE Len(accs) - 1)
    /\ outcome \in Outcome

----------------------------------------------------------------------------
Init ==
    /\ instances \in BoundedSeq(Instances, MaxChain)
    /\ accs = <<>>
    /\ steps = <<>>
    /\ outcome = Running

\* An empty chain is refused.
RejectEmpty ==
    /\ outcome = Running
    /\ instances = <<>>
    /\ outcome' = Violated(0)
    /\ UNCHANGED <<instances, accs, steps>>

\* The first instance becomes the accumulator as it is: nothing checks it.
Seed ==
    /\ outcome = Running
    /\ instances # <<>> /\ accs = <<>>
    /\ accs' = <<instances[1]>>
    /\ UNCHANGED <<instances, steps, outcome>>

MoreToFold ==
    /\ outcome = Running
    /\ accs # <<>>
    /\ Len(accs) < Len(instances)

Fresh == instances[Len(accs) + 1]

\* prove_step under the challenge r, and the loop body around it.
ProveStep(r) ==
    /\ MoreToFold
    /\ MergeOutcome(Last(accs), Fresh) = Ok
    /\ LET merged == Merge(Last(accs), Fresh, r)
       IN  /\ accs' = Append(accs, merged)
           /\ steps' = Append(steps, [challenge |-> r, index |-> merged.step])
    /\ UNCHANGED <<instances, outcome>>

\* merge returns an error, which leaves fold_chain at once.
MergeFails ==
    /\ MoreToFold
    /\ MergeOutcome(Last(accs), Fresh) # Ok
    /\ outcome' = MergeOutcome(Last(accs), Fresh)
    /\ UNCHANGED <<instances, accs, steps>>

Finish ==
    /\ outcome = Running
    /\ accs # <<>> /\ Len(accs) = Len(instances)
    /\ outcome' = Ok
    /\ UNCHANGED <<instances, accs, steps>>

Next ==
    \/ RejectEmpty
    \/ Seed
    \/ \E r \in Challenges : ProveStep(r)
    \/ MergeFails
    \/ Finish

Spec == Init /\ [][Next]_vars

----------------------------------------------------------------------------
\* Folding satisfied instances keeps the accumulator satisfied, all along the
\* chain and under every challenge, provided the instances folded in (not the
\* seed) carry no error term.  This is what Accumulator::merge's cross term is
\* for (accumulator.rs:139-141).
ClosedUnderFolding ==
    (/\ \A i \in DOMAIN instances : Satisfied(instances[i])
     /\ \A i \in 2 .. Len(instances) : ErrorFree(instances[i]))
    => \A k \in DOMAIN accs : Satisfied(accs[k])

\* The same without the proviso, as merge's comment has it: the cross term
\* "is exactly what keeps the relaxed-R1CS check closed", for any two
\* accumulators.
MergeKeepsCheckClosed ==
    (\A i \in DOMAIN instances : Satisfied(instances[i]))
    => \A k \in DOMAIN accs : Satisfied(accs[k])

\* Folding hides nothing: of the challenges that could have been drawn at a
\* step that folds an unsatisfied instance, or folds into an unsatisfied
\* accumulator, at most two give a satisfied result.  This is why a verifier
\* may check the final accumulator only, and why the challenge must be a hash.
HidesAtMostTwice ==
    \A k \in 1 .. Len(accs) - 1 :
        LET fresh == instances[k + 1]
        IN  (ErrorFree(fresh) /\ ~(Satisfied(accs[k]) /\ Satisfied(fresh)))
            => Cardinality({r \in Challenges : Satisfied(Merge(accs[k], fresh, r))}) <= 2

\* The instances and the recorded challenges determine the accumulator: every
\* linear component of it is the seed's plus the sum of challenge times
\* instance, so a verifier that replays the steps gets the prover's values.
Weighted(values) ==
    (values[1] + SumFunction([j \in 1 .. Len(values) - 1 |-> steps[j].challenge * values[j + 1]]))
      % Order

ReplayDeterminesAccumulator ==
    \A k \in 2 .. Len(accs) :
        /\ accs[k].u = Weighted([j \in 1 .. k |-> instances[j].u])
        /\ Point(accs[k].commitment_z) = Weighted([j \in 1 .. k |-> Point(instances[j].commitment_z)])
        /\ Point(accs[k].commitment_e) = Weighted([j \in 1 .. k |-> Point(instances[j].commitment_e)])
        /\ \A i \in DOMAIN accs[k].rows :
              /\ accs[k].rows[i].az = Weighted([j \in 1 .. k |-> instances[j].rows[i].az])
              /\ accs[k].rows[i].bz = Weighted([j \in 1 .. k |-> instances[j].rows[i].bz])
              /\ accs[k].rows[i].cz = Weighted([j \in 1 .. k |-> instances[j].rows[i].cz])

\* A step's index is the counter of the accumulator it produced (fold.rs:36-37),
\* and indices go up by one from the seed's counter until they saturate: the
\* order of the steps can be read back from a proof.
IndexFollowsCounter ==
    \A k \in DOMAIN steps :
        /\ steps[k].index = accs[k + 1].step
        /\ steps[k].index = Min({MaxU64, accs[1].step + k})

\* The loop stops early only because of an instance it was given: the one it
\* was about to fold, or the seed that nothing had checked.  No accumulator
\* made by a fold is ever itself the reason (its scalars are canonical and it
\* keeps the seed's row count).
FailureBlamesAnInstance ==
    (outcome.tag = "violated" /\ instances # <<>>) =>
        \/ ~WellFormed(instances[1])
        \/ ~WellFormed(Fresh)
        \/ Len(Fresh.rows) # Len(instances[1].rows)

\* And it never passes over a bad one: a chain of two or more instances that
\* succeeded had every instance well formed and of the same row count.
SuccessMeansWellFormed ==
    (outcome = Ok /\ Len(instances) > 1) =>
        \A i \in DOMAIN instances :
            WellFormed(instances[i]) /\ Len(instances[i].rows) = Len(instances[1].rows)

\* The two satisfaction checks accept the same accumulators (accumulator.rs:124),
\* those given and those folded, whatever the order in which they meet a
\* malformed and a violated row.
ChecksAccept(acc) == Check(acc) = Ok <=> CheckViaCs(acc) = Ok

ChecksAgree ==
    /\ \A i \in DOMAIN instances : ChecksAccept(instances[i])
    /\ \A k \in DOMAIN accs : ChecksAccept(accs[k])

----------------------------------------------------------------------------
\* The loop implements DefectFold, through the defects of its accumulators.
Abstract == INSTANCE DefectFold WITH
    inputs  <- [i \in DOMAIN instances |-> DefectsOf(instances[i])],
    running <- IF accs = <<>> THEN <<>> ELSE DefectsOf(Last(accs)),
    folded  <- Len(accs)

\* Every step of the loop adds r^2 times the instance's defects and nothing
\* else.  It holds of instances without an error term.
FoldsDefects == Abstract!Spec
============================================================================

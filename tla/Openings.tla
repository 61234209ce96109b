------------------------------ MODULE Openings ------------------------------
(***************************************************************************)
(* A prover from end to end: witnesses, the fresh accumulators that commit *)
(* to them, and the loop of FoldChain over those.  What is added to the    *)
(* loop is only what the prover knows and the accumulators do not hold:    *)
(* the messages behind their commitments.                                  *)
(***************************************************************************)
EXTENDS FoldChain, Pedersen

CONSTANT Witnesses  \* records with the rows and the vector z of an instance

ASSUME OpeningsAssumption ==
    /\ Witnesses \subseteq [rows : Seq(RelaxedRow), z : Seq(Scalar)]
    /\ \A w \in Witnesses :
          /\ BlinderHash("acc.z", w.z) \in Bytes32
          /\ BlinderHash("acc.e", Zeros(Len(w.rows))) \in Bytes32
          /\ FreshOutcome(w.rows, w.z) = Ok => FreshAccumulator(w.rows, w.z) \in Instances

VARIABLE witnesses  \* one for each instance

OpeningsInit ==
    /\ witnesses \in BoundedSeq(Witnesses, MaxChain)
    /\ \A i \in DOMAIN witnesses : FreshOutcome(witnesses[i].rows, witnesses[i].z) = Ok
    /\ instances = [i \in DOMAIN witnesses |->
                      FreshAccumulator(witnesses[i].rows, witnesses[i].z)]
    /\ accs = <<>>
    /\ steps = <<>>
    /\ outcome = Running

OpeningsNext == Next /\ UNCHANGED witnesses

OpeningsSpec == OpeningsInit /\ [][OpeningsNext]_<<vars, witnesses>>

----------------------------------------------------------------------------
\* Vectors z of different lengths fold as if padded with zeros.
Entry(z, j) == IF j \in DOMAIN z THEN z[j] ELSE 0

\* What the challenges of the first k - 1 steps make of z and of the blinders.
FoldedZ(k) ==
    [j \in DOMAIN Key.generators |-> Weighted([i \in 1 .. k |-> Entry(witnesses[i].z, j)])]

FoldedBlinderZ(k) == Weighted([i \in 1 .. k |-> Blinder("acc.z", witnesses[i].z)])
FoldedBlinderE(k) ==
    Weighted([i \in 1 .. k |-> Blinder("acc.e", Zeros(Len(witnesses[i].rows)))])

\* The commitments of a fresh accumulator open, by verify_opening, to z and to
\* the zero vector (accumulator.rs:80-82).  Those of a folded one still open to
\* the folded z and to the zero vector, though under the folded blinders, which
\* are not the ones verify_opening derives from the folded message.
CommitmentsOpen ==
    /\ \A i \in DOMAIN instances :
          LET w == witnesses[i]
          IN  /\ VerifyOpening(w.z, "acc.z", instances[i].commitment_z) = Ok
              /\ VerifyOpening(Zeros(Len(w.rows)), "acc.e", instances[i].commitment_e) = Ok
    /\ \A k \in DOMAIN accs :
          /\ accs[k].commitment_z = Blinded(FoldedZ(k), FoldedBlinderZ(k))
          /\ accs[k].commitment_e = Blinded(<<>>, FoldedBlinderE(k))

\* commitment_e is the "Commitment to the error vector E" (accumulator.rs:68):
\* to the error terms of the very rows next to it, under the folded blinder.
CommitsToError ==
    \A k \in DOMAIN accs :
        accs[k].commitment_e =
            Blinded([i \in DOMAIN accs[k].rows |-> accs[k].rows[i].e], FoldedBlinderE(k))
============================================================================

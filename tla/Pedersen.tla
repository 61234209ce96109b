------------------------------ MODULE Pedersen ------------------------------
(***************************************************************************)
(* Deterministic Pedersen commitments, and the fresh accumulators made     *)
(* with them.  As in Accumulator, a point is its discrete logarithm, or    *)
(* Undecodable.  The hash behind a blinder is any function to 32 bytes.    *)
(***************************************************************************)
EXTENDS Accumulator, SequencesExt

CONSTANTS
    Key,                \* the CommitmentKey
    BlinderHash(_, _)   \* the 32 bytes that a domain and a message hash to

CommitmentKey == [generators : Seq(Commitment), blinder : Commitment]

ASSUME PedersenAssumption == Key \in CommitmentKey

PolyTooLarge == [tag |-> "poly too large"]
OpeningMismatch == [tag |-> "opening mismatch"]

\* derive_blinder: masked and reduced as a challenge is.
Blinder(domain, msg) == Challenge(BlinderHash(domain, msg))

\* The multi-exponentiation: the generators weighted by a message, plus the
\* blinding generator weighted by r.
Blinded(msg, r) ==
    (r * Point(Key.blinder)
       + SumFunction([i \in DOMAIN msg |-> msg[i] * Point(Key.generators[i])])) % Order

\* The error paths of commit_scalars: the message is longer than the key, or a
\* generator that it needs does not decode.
CommitOutcome(msg) ==
    IF Len(msg) > Len(Key.generators) THEN PolyTooLarge
    ELSE IF Undecodable \in {Key.generators[i] : i \in DOMAIN msg} \cup {Key.blinder}
    THEN OpeningMismatch
    ELSE Ok

\* What commit_scalars returns when CommitOutcome is Ok.
Commit(msg, domain) == Blinded(msg, Blinder(domain, msg))

VerifyOpening(msg, domain, claim) ==
    IF CommitOutcome(msg) # Ok THEN CommitOutcome(msg)
    ELSE IF Commit(msg, domain) # claim THEN OpeningMismatch
    ELSE Ok

Zeros(n) == [i \in 1 .. n |-> 0]

\* The two commitments of Accumulator::fresh, in their order.
FreshOutcome(rows, z) ==
    IF CommitOutcome(z) # Ok THEN CommitOutcome(z) ELSE CommitOutcome(Zeros(Len(rows)))

\* What Accumulator::fresh returns when FreshOutcome is Ok.  It does not look at
\* the rows: neither that they hold nor that their error terms are zero.
FreshAccumulator(rows, z) ==
    [u |-> 1, commitment_z |-> Commit(z, "acc.z"),
     commitment_e |-> Commit(Zeros(Len(rows)), "acc.e"), rows |-> rows, step |-> 0]
============================================================================

----------------------------- MODULE MCOpenings -----------------------------
(***************************************************************************)
(* Instances of Openings for TLC: a key of two generators over the group   *)
(* of 5 elements, witnesses of two rows.                                   *)
(***************************************************************************)
EXTENDS Openings

Row(az, bz, cz) == [az |-> az, bz |-> bz, cz |-> cz, e |-> 0]

TwoGenerators == [generators |-> <<2, 3>>, blinder |-> 4]

\* Not linear, as no hash is.
SomeHash(domain, msg) ==
    IF domain = "acc.e" THEN 31
    ELSE FoldLeft(LAMBDA h, m : (2 * h + m * m + 1) % ByteRange, 1, msg)

SatisfiedA  == [rows |-> <<Row(2, 3, 1), Row(1, 4, 4)>>, z |-> <<1, 2>>]
SatisfiedB  == [rows |-> <<Row(3, 3, 4), Row(2, 2, 4)>>, z |-> <<4>>]
Unsatisfied == [rows |-> <<Row(3, 1, 3), Row(2, 2, 1)>>, z |-> <<0, 3>>]
\* Longer than the key: fresh refuses it.
TooLong     == [rows |-> <<Row(2, 3, 1), Row(1, 4, 4)>>, z |-> <<1, 2, 3>>]

SomeWitnesses == {SatisfiedA, SatisfiedB, Unsatisfied, TooLong}

SomeInstances ==
    {FreshAccumulator(w.rows, w.z) : w \in {v \in SomeWitnesses : FreshOutcome(v.rows, v.z) = Ok}}
============================================================================

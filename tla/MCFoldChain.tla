---------------------------- MODULE MCFoldChain ----------------------------
(***************************************************************************)
(* Instances of FoldChain for TLC: the field of 5 elements, two-row        *)
(* accumulators, one of each kind the code tells apart.                    *)
(***************************************************************************)
EXTENDS FoldChain

Row(az, bz, cz, e) == [az |-> az, bz |-> bz, cz |-> cz, e |-> e]

Acc(u, z, e, rows, step) ==
    [u |-> u, commitment_z |-> z, commitment_e |-> e, rows |-> rows, step |-> step]

\* As Accumulator::fresh builds them: u = 1, E = 0, step = 0.
SatisfiedA == Acc(1, 2, 4, <<Row(2, 3, 1, 0), Row(1, 4, 4, 0)>>, 0)
SatisfiedB == Acc(1, 3, 1, <<Row(3, 3, 4, 0), Row(2, 2, 4, 0)>>, 0)
\* ... and from rows that do not hold, which it does not check.
Unsatisfied == Acc(1, 1, 3, <<Row(3, 1, 3, 0), Row(2, 2, 1, 0)>>, 0)

\* The result of an earlier chain: satisfied, with an error term.
Relaxed == Acc(2, 4, 2, <<Row(1, 3, 1, 1), Row(2, 2, 3, 3)>>, 1)

\* Deserialised from elsewhere: each is refused by some check of merge, except
\* the last, whose commitment counts as the identity.
MalformedRow == Acc(1, 1, 1, <<Row(2, 2, 2, 0), Row(2, 9, 1, 0)>>, 0)
MalformedU   == Acc(6, 1, 1, <<Row(2, 3, 1, 0), Row(1, 4, 4, 0)>>, 0)
OneRow       == Acc(1, 1, 1, <<Row(2, 3, 1, 0)>>, 0)
NoPoint      == Acc(1, Undecodable, 1, <<Row(2, 3, 1, 0), Row(3, 3, 4, 0)>>, 0)

FreshInstances == {SatisfiedA, SatisfiedB, Unsatisfied}
AnyInstances ==
    FreshInstances \cup {Relaxed, MalformedRow, MalformedU, OneRow, NoPoint}
SatisfiedInstances == {SatisfiedA, SatisfiedB, Relaxed}
============================================================================

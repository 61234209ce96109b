---------------------------- MODULE MCFoldScheme ----------------------------
(***************************************************************************)
(* Instances of FoldScheme for TLC: one-row accumulators over the field of *)
(* 5 elements.                                                             *)
(***************************************************************************)
EXTENDS FoldScheme

Acc(z, az, bz, cz) ==
    [u |-> 1, commitment_z |-> z, commitment_e |-> 1,
     rows |-> <<[az |-> az, bz |-> bz, cz |-> cz, e |-> 0]>>, step |-> 0]

SatisfiedA   == Acc(2, 2, 3, 1)
SatisfiedB   == Acc(3, 1, 4, 4)
Unsatisfied  == Acc(1, 3, 1, 1)
MalformedRow == Acc(4, 2, 2, 9)

AnyInstances == {SatisfiedA, Unsatisfied, MalformedRow}
SatisfiedInstances == {SatisfiedA, SatisfiedB}
SomeInputs == {<<>>, <<3>>}
SomeSelectors == {<<1>>, <<2, 1>>}
============================================================================

---------------------------- MODULE MCTranscript ----------------------------
(***************************************************************************)
(* Instances of Transcript for TLC: arguments chosen so that, were it not  *)
(* for a length, a label or the order, two different calls or sequences of *)
(* calls would hash the same bytes.  The parties are interchangeable.      *)
(***************************************************************************)
EXTENDS Transcript, TLC

Symmetry == Permutations(Parties)

SomeSeeds == {<<>>, <<7>>}

AccOf(z, e) == [u |-> <<1>>, commitment_z |-> <<z>>, commitment_e |-> <<e>>, step |-> 0]
SomeAccumulators == {AccOf(4, 5), AccOf(5, 4)}

SomePublicInputs == {<<>>, <<4>>, <<4, 4>>}

\* The same bytes, divided otherwise.
SomeMessages == {[label |-> <<8>>, msg |-> <<9, 9>>], [label |-> <<8, 9>>, msg |-> <<9>>]}

SomePrefix(out) == 5 + Len(out.bytes)
============================================================================

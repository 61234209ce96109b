----------------------------- MODULE MCRegistry -----------------------------
(***************************************************************************)
(* Instances of Registry for TLC.  Authorities are interchangeable, and so *)
(* are components: states are taken up to their permutations.              *)
(***************************************************************************)
EXTENDS Registry, TLC

ComponentSymmetry == Permutations(Components)
Symmetry == Permutations(Authorities) \cup ComponentSymmetry
============================================================================

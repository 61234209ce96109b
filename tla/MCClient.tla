------------------------------ MODULE MCClient ------------------------------
(***************************************************************************)
(* Instances of Client for TLC: a proof, the same proof submitted again    *)
(* with another step count by another payer, a proof under another scheme, *)
(* and one sent by this SDK to the address it derives.                     *)
(***************************************************************************)
EXTENDS Client

CONSTANTS a1, s1, c1, c2

Submission(payer, scheme, components, steps, seed) ==
    [authority |-> a1, payer |-> payer, scheme |-> scheme,
     components |-> components, steps |-> steps, seed |-> seed]

SdkSubmissions == {Submission(s1, 1, c1, 1, "tag")}

SomeSubmissions ==
    SdkSubmissions \cup
    {Submission(s1, 1, c1, 1, "byte"), Submission(a1, 1, c1, 2, "byte"),
     Submission(s1, 2, c2, 1, "byte")}
============================================================================

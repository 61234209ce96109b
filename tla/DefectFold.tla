----------------------------- MODULE DefectFold -----------------------------
(***************************************************************************)
(* What folding promises, with rows and commitments gone.  An accumulator  *)
(* is abstracted to its defects: for every row, the value of               *)
(* Az * Bz - u * Cz - E, zero exactly when the row is satisfied.  Folding  *)
(* adds r^2 times the defects of the instance it absorbs.  So satisfied    *)
(* instances fold to a satisfied accumulator, and over a prime field an    *)
(* unsatisfied one is hidden by at most two challenges.                    *)
(***************************************************************************)
EXTENDS Integers, Sequences

CONSTANT Order

VARIABLES
    inputs,   \* the defects of every instance, in the order they are folded
    running,  \* the defects of the running accumulator
    folded    \* how many instances it stands for

vars == <<inputs, running, folded>>

Defects == Seq(0 .. Order - 1)

Init ==
    /\ inputs \in Seq(Defects)
    /\ running = <<>>
    /\ folded = 0

Seed ==
    /\ folded = 0
    /\ inputs # <<>>
    /\ running' = inputs[1]
    /\ folded' = 1
    /\ UNCHANGED inputs

Absorb ==
    /\ folded \in 1 .. Len(inputs) - 1
    /\ LET next == inputs[folded + 1]
       IN  /\ Len(next) = Len(running)
           /\ \E r \in 0 .. Order - 1 :
                 running' = [i \in 1 .. Len(running) |->
                               (running[i] + r * r * next[i]) % Order]
    /\ folded' = folded + 1
    /\ UNCHANGED inputs

Next == Seed \/ Absorb

Spec == Init /\ [][Next]_vars
============================================================================

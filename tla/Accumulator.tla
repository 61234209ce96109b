---------------------------- MODULE Accumulator ----------------------------
(***************************************************************************)
(* Relaxed-R1CS accumulators: satisfaction, by direct evaluation and       *)
(* through a constraint system, and the merge that folds one accumulator   *)
(* into another.  All of it is pure; FoldChain runs it.                    *)
(*                                                                         *)
(* A commitment is a point of a group of prime order Order, represented by *)
(* its discrete logarithm, or Undecodable: 64 bytes that encode no point.  *)
(* Row indices are 1-based here and 0-based in the errors, as in the code. *)
(***************************************************************************)
EXTENDS Field, Sequences, FiniteSetsExt

CONSTANTS
    MaxU64,       \* the largest value of a step counter
    Undecodable   \* commitment bytes that encode no curve point

ASSUME AccumulatorAssumption ==
    /\ MaxU64 \in Nat
    /\ Undecodable \notin Scalar

RelaxedRow == [az : Bytes32, bz : Bytes32, cz : Bytes32, e : Bytes32]
Commitment == Scalar \cup {Undecodable}

AccumulatorType ==
    [u : Bytes32, commitment_z : Commitment, commitment_e : Commitment,
     rows : Seq(RelaxedRow), step : 0 .. MaxU64]

\* What an operation returns: Ok, or CoreError::RelaxedR1csViolated(index).
Ok == [tag |-> "ok"]
Violated(index) == [tag |-> "violated", row |-> index]

\* RelaxedRow::to_scalars is Some.
CanonicalRow(row) ==
    Canonical(row.az) /\ Canonical(row.bz) /\ Canonical(row.cz) /\ Canonical(row.e)

\* check_relaxed_row
RowHolds(u, row) == (row.az * row.bz) % Order = (u * row.cz + row.e) % Order

\* The error at the first row of a set of rows, given by their positions.
AtFirst(positions) == Violated(Min(positions) - 1)

MalformedRows(rows) == {i \in DOMAIN rows : ~CanonicalRow(rows[i])}
ViolatedRows(u, rows) ==
    {i \in DOMAIN rows : CanonicalRow(rows[i]) /\ ~RowHolds(u, rows[i])}

\* Accumulator::check stops at the first row that is malformed or violated.
Check(acc) ==
    LET bad == MalformedRows(acc.rows) \cup ViolatedRows(acc.u, acc.rows)
    IN  IF ~Canonical(acc.u) THEN Violated(0)
        ELSE IF bad = {} THEN Ok ELSE AtFirst(bad)

\* Mutant: the constraint system reduces u instead of refusing it.
CheckViaCsReducing(acc) ==
    LET malformed == MalformedRows(acc.rows)
        violated  == ViolatedRows(acc.u, acc.rows)
    IN  IF malformed # {} THEN AtFirst(malformed)
        ELSE IF violated = {} THEN Ok ELSE AtFirst(violated)

\* Accumulator::check_via_cs builds the whole system, where any malformed row
\* is an error, before it looks for a violated one.
CheckViaCs(acc) ==
    LET malformed == MalformedRows(acc.rows)
        violated  == ViolatedRows(acc.u, acc.rows)
    IN  IF ~Canonical(acc.u) THEN Violated(0)
        ELSE IF malformed # {} THEN AtFirst(malformed)
        ELSE IF violated = {} THEN Ok ELSE AtFirst(violated)

\* Commitment::to_point, with the identity in place of bytes that do not decode.
Point(commitment) == IF commitment = Undecodable THEN 0 ELSE commitment

\* Mutant: r weighs the receiver and not the argument.
CombineCommitmentsSwapped(a, b, r) == Combine(Point(b), r, Point(a))

\* Commitment::combine
CombineCommitments(a, b, r) == Combine(Point(a), r, Point(b))

\* Mutants of MergeRow: the cross term has one of the two u products only; the
\* error gathered so far is dropped; the error is whatever the new row lacks.
MergeRowOneSided(ua, a, ub, b, r) ==
    [az |-> Combine(a.az, r, b.az), bz |-> Combine(a.bz, r, b.bz),
     cz |-> Combine(a.cz, r, b.cz),
     e  |-> (a.e + r * b.e + r * (a.az * b.bz + b.az * a.bz - ua * b.cz)) % Order]

MergeRowForgetful(ua, a, ub, b, r) ==
    [az |-> Combine(a.az, r, b.az), bz |-> Combine(a.bz, r, b.bz),
     cz |-> Combine(a.cz, r, b.cz),
     e  |-> (r * b.e + r * (a.az * b.bz + b.az * a.bz - ua * b.cz - ub * a.cz)) % Order]

MergeRowSettled(ua, a, ub, b, r) ==
    [az |-> Combine(a.az, r, b.az), bz |-> Combine(a.bz, r, b.bz),
     cz |-> Combine(a.cz, r, b.cz),
     e  |-> (Combine(a.az, r, b.az) * Combine(a.bz, r, b.bz)
               - Combine(ua, r, ub) * Combine(a.cz, r, b.cz)) % Order]

\* The component-wise combination of two rows; the error term also picks up
\* the cross product.
MergeRow(ua, a, ub, b, r) ==
    LET cross == a.az * b.bz + b.az * a.bz - ua * b.cz - ub * a.cz
    IN  [az |-> Combine(a.az, r, b.az),
         bz |-> Combine(a.bz, r, b.bz),
         cz |-> Combine(a.cz, r, b.cz),
         e  |-> (a.e + r * b.e + r * cross) % Order]

\* Mutant: only the rows of the running accumulator are looked at.
MergeOutcomeTrusting(a, b) ==
    LET malformed == MalformedRows(a.rows)
    IN  IF Len(a.rows) # Len(b.rows) THEN Violated(Len(a.rows))
        ELSE IF ~Canonical(a.u) \/ ~Canonical(b.u) THEN Violated(0)
        ELSE IF malformed = {} THEN Ok ELSE AtFirst(malformed)

\* The checks of Accumulator::merge, in their order.
MergeOutcome(a, b) ==
    LET malformed == MalformedRows(a.rows) \cup MalformedRows(b.rows)
    IN  IF Len(a.rows) # Len(b.rows) THEN Violated(Len(a.rows))
        ELSE IF ~Canonical(a.u) \/ ~Canonical(b.u) THEN Violated(0)
        ELSE IF malformed = {} THEN Ok ELSE AtFirst(malformed)

\* Mutants: the counter wraps; the counter has no width.
WrappingInc(n) == (n + 1) % (MaxU64 + 1)
UnboundedInc(n) == n + 1

\* u64::saturating_add(1)
SaturatingInc(n) == IF n < MaxU64 THEN n + 1 ELSE n

\* What Accumulator::merge returns when MergeOutcome is Ok.
Merge(a, b, r) ==
    [u            |-> Combine(a.u, r, b.u),
     commitment_z |-> CombineCommitments(a.commitment_z, b.commitment_z, r),
     commitment_e |-> CombineCommitments(a.commitment_e, b.commitment_e, r),
     rows         |-> [i \in 1 .. Len(a.rows) |->
                         MergeRow(a.u, a.rows[i], b.u, b.rows[i], r)],
     step         |-> SaturatingInc(a.step)]

----------------------------------------------------------------------------
(* What is said of accumulators.                                           *)

Satisfied(acc) == Check(acc) = Ok

\* The form Accumulator::fresh is meant to produce: E is the zero vector.
ErrorFree(acc) == \A i \in DOMAIN acc.rows : acc.rows[i].e = 0

\* What merge asks of each of its arguments.
WellFormed(acc) == Canonical(acc.u) /\ MalformedRows(acc.rows) = {}

\* By how much a row fails to hold.
Defect(u, row) == (row.az * row.bz - u * row.cz - row.e) % Order
DefectsOf(acc) == [i \in DOMAIN acc.rows |-> Defect(acc.u, acc.rows[i])]
============================================================================

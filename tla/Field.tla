------------------------------- MODULE Field -------------------------------
(***************************************************************************)
(* The scalar field every crate computes in (bn254's Fr), the 32-byte      *)
(* strings scalars are stored in, and the reduction that turns a hash into *)
(* a folding challenge.                                                    *)
(*                                                                         *)
(* A 32-byte string is the little-endian number it encodes.  The real      *)
(* values are Order ~ 0.76 * 2^254, MaskRange = 2^254 and                  *)
(* ByteRange = 2^256; only their order matters here.                       *)
(***************************************************************************)
EXTENDS Integers

CONSTANTS
    Order,      \* the field's modulus
    MaskRange,  \* what is left of a hash once its top two bits are cleared
    ByteRange   \* the number of 32-byte strings

ASSUME FieldAssumption ==
    /\ Order \in Nat /\ MaskRange \in Nat /\ ByteRange \in Nat
    /\ 1 < Order /\ Order <= MaskRange /\ MaskRange <= ByteRange

Scalar == 0 .. Order - 1
Bytes32 == 0 .. ByteRange - 1

\* scalar_from_bytes: only the representative below the modulus decodes.
Canonical(b) == b < Order

\* Mutants of Combine: the challenge multiplies the wrong side; no reduction.
CombineSwapped(x, r, y) == (r * x + y) % Order
CombineUnreduced(x, r, y) == x + r * y

\* x + r * y in the field: one component of a random linear combination.
Combine(x, r, y) == (x + r * y) % Order

\* Clear the top two bits, decode, and reduce when that does not decode.
Challenge(hash) == (hash % MaskRange) % Order

Challenges == {Challenge(hash) : hash \in Bytes32}
============================================================================

SPECIFICATION Spec
CONSTANTS
    Authorities = {a1}
    Sponsors = {s1}
    SchemeBytes = {0, 2, 3}
    Components = {c1, c2, c3}
    StepCounts = {1, 2}
    MaxU64 = 2
    MaxSlot = 1
    RegistryRent = 2
    ProofRent = 1
    Funds = 3
    ZeroDigest = ZeroDigest
    NoAccount = NoAccount
INVARIANT
    CountIsProofsAccepted
SYMMETRY ComponentSymmetry
CHECK_DEADLOCK FALSE

SPECIFICATION Spec
CONSTANTS
    Authorities = {a1, a2}
    Sponsors = {s1}
    SchemeBytes = {0, 1, 3}
    Components = {c1, c2, c3}
    StepCounts = {1}
    MaxU64 = 2
    MaxSlot = 1
    RegistryRent = 2
    ProofRent = 1
    Funds = 2
    ZeroDigest = ZeroDigest
    NoAccount = NoAccount
INVARIANTS
    TypeOK
    RecordsBindScheme
    LamportsConserved
    CountMatchesRecords
    TipIsNewest
PROPERTY
    KeepsLog
SYMMETRY Symmetry
CHECK_DEADLOCK FALSE

SPECIFICATION ClientSpec
CONSTANTS
    a1 = a1
    s1 = s1
    c1 = c1
    c2 = c2
    Authorities = {a1}
    Sponsors = {s1}
    SchemeBytes = {1, 2}
    Components = {c1, c2}
    StepCounts = {1, 2}
    MaxU64 = 2
    MaxSlot = 3
    RegistryRent = 1
    ProofRent = 1
    Funds = 2
    ZeroDigest = ZeroDigest
    NoAccount = NoAccount
    Calls = {k1, k2}
    Submissions <- SdkSubmissions
    Validity = 1
    Expired = 3
INVARIANT
    InstructionsNameTheRegistry
CHECK_DEADLOCK FALSE

SPECIFICATION Spec
CONSTANTS
    Parties = {prover, verifier}
    Seeds <- SomeSeeds
    Accumulators <- SomeAccumulators
    PublicInputs <- SomePublicInputs
    Messages <- SomeMessages
    Counts = {0, 3}
    Prefix <- SomePrefix
    MaxU64 = 2
    MaxCalls = 4
INVARIANTS
    TypeOK
    StateIsHistory
    ChallengesBindPast
    ScalarsFollowAbsorb
SYMMETRY Symmetry
CHECK_DEADLOCK FALSE

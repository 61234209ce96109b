SPECIFICATION Spec
CONSTANTS
    Order = 5
    MaskRange = 8
    ByteRange = 32
    MaxU64 = 3
    MaxU16 = 3
    PastaOrder = 7
    Undecodable = Undecodable
    MaxChain = 3
    Instances <- SatisfiedInstances
    PublicInputs <- SomeInputs
    Selectors <- SomeSelectors
    LaneCounts = {1, 2}
INVARIANT
    SchemeBindsProof
CHECK_DEADLOCK FALSE

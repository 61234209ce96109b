SPECIFICATION Spec
CONSTANTS
    Order = 5
    MaskRange = 8
    ByteRange = 32
    MaxU64 = 2
    Undecodable = Undecodable
    MaxChain = 3
    Instances <- AnyInstances
INVARIANTS
    TypeOK
    ClosedUnderFolding
    ReplayDeterminesAccumulator
    FailureBlamesAnInstance
    SuccessMeansWellFormed
    ChecksAgree
CHECK_DEADLOCK FALSE

SPECIFICATION Spec
CONSTANTS
    Order = 5
    MaskRange = 8
    ByteRange = 32
    MaxU64 = 2
    Undecodable = Undecodable
    MaxChain = 3
    Instances <- SatisfiedInstances
INVARIANT
    MergeKeepsCheckClosed
CHECK_DEADLOCK FALSE

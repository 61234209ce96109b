SPECIFICATION OpeningsSpec
CONSTANTS
    Order = 5
    MaskRange = 8
    ByteRange = 32
    MaxU64 = 2
    Undecodable = Undecodable
    MaxChain = 4
    Instances <- SomeInstances
    Key <- TwoGenerators
    BlinderHash <- SomeHash
    Witnesses <- SomeWitnesses
INVARIANTS
    HidesAtMostTwice
    IndexFollowsCounter
    CommitmentsOpen
PROPERTY
    FoldsDefects
CHECK_DEADLOCK FALSE

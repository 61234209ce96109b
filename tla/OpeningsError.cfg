SPECIFICATION OpeningsSpec
CONSTANTS
    Order = 5
    MaskRange = 8
    ByteRange = 32
    MaxU64 = 2
    Undecodable = Undecodable
    MaxChain = 2
    Instances <- SomeInstances
    Key <- TwoGenerators
    BlinderHash <- SomeHash
    Witnesses <- SomeWitnesses
INVARIANT
    CommitsToError
CHECK_DEADLOCK FALSE

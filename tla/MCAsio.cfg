SPECIFICATION Spec
CONSTANTS
    MaxSessions = 2
    MaxRx = 1
    MaxWrites = 2
    MaxSize = 2
    ScratchSize = 1
    ReadSizes <- OneByOne
INVARIANTS
    SingleReadLoop SessionIsolation NoLostWrite CloseQuiesces IInv
    ByteAccounting WrittenIsOnWire NoSpuriousError PacedWireOrder
PROPERTY LinkSpec

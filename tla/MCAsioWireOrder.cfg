SPECIFICATION Spec
CONSTANTS
    MaxSessions = 1
    MaxRx = 1
    MaxWrites = 2
    MaxSize = 2
    ScratchSize = 1
    ReadSizes <- OneByOne
INVARIANT WireInCallOrder

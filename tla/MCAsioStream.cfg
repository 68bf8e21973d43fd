SPECIFICATION Spec
CONSTANTS
    MaxSessions = 1
    MaxRx = 3
    MaxWrites = 1
    MaxSize = 2
    ScratchSize = 2
    ReadSizes <- OneOrTwo
INVARIANTS TypeOK StreamIntegrity

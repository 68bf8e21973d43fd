SPECIFICATION FairSpec
CONSTANTS
    MaxSessions = 2
    MaxRx = 2
    ChunkSize = 2
    CabiBufSize = 2
    CBufSize = 1
    GoBufSize = 1
    MaxLevels = 3
    TargetVid <- Vid
    Systems <- SystemsOf
    Builds <- AllBuilds
INVARIANTS
    ProgramsInv PortSerialized ConnectedIsOpen NoStrandedBytes ListReleased PortListRight
PROPERTIES ErrorClosesItsSession CallbacksStable GuiReturns Drained

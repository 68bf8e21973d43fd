SPECIFICATION FairSpec
CONSTANTS
    MaxSessions = 2
    MaxRx = 1
    MaxWrites = 1
    MaxSize = 2
    ScratchSize = 1
    ReadSizes <- OneByOne
PROPERTIES CloseReturns DataArrives UnplugReported WriteSettles

SPECIFICATION FairSpec
CONSTANTS
    MaxSessions = 2
    MaxRx = 1
    MaxDialogs = 1
    ReadSizes <- OneByOne
PROPERTIES OpenReturns ThreadEnds DataArrives

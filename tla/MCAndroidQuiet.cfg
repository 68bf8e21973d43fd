SPECIFICATION Spec
CONSTANTS
    MaxSessions = 1
    MaxRx = 1
    MaxDialogs = 1
    ReadSizes <- OneByOne
INVARIANTS QuietAfterClose

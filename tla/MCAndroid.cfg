SPECIFICATION Spec
CONSTANTS
    MaxSessions = 2
    MaxRx = 2
    MaxDialogs = 2
    ReadSizes <- OneByOne
INVARIANTS OpenPortsAreOwned StreamIntegrity OpenIsBacked ErrorIsReal OpensWithPermission AndroidInv
PROPERTIES NoDropWhileOpen

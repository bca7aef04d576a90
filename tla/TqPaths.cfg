SPECIFICATION Spec
CONSTANTS
    None = None
    MaxCidsCount = 16
    MaxProbingTimeouts = 2
    MaxPathChalsRecv = 8
    Window = 2
    Client = Client
    Server = Server
    Home = a0
    Plans <- ModelPlans
    MaxPaths = 3
    a0 = a0
    a1 = a1
    a2 = a2
    b1 = b1
INVARIANTS
    CidsAgree
    PacketsUnambiguous
    PathsReady

\* Two connections, one script at a time, answers sent in two pieces.
SPECIFICATION Spec
CONSTANTS
    Peer = {p1, p2}
    Pid = {s1}
    None = None
    NListen = 1
    MaxFd = 8
    MaxClients = 2
    Requests = {"page", "script"}
    RespSize = 2
    BodySize = 1
    Timeout = 0
    SendAhead = FALSE
    EarlyClose = FALSE
INVARIANTS
    PollSetSound
    ModeMatches
    NoOverwrite
    EveryScriptOwned
    SocketBeforePipes
PROPERTIES
    KeepsPlace
    StartsAfresh
    ImplementsSteps
SYMMETRY Symmetry

\* Two connections whose requests feed a body of two pieces to a script.
SPECIFICATION Spec
CONSTANTS
    Peer = {p1, p2}
    Pid = {s1}
    None = None
    NListen = 1
    MaxFd = 9
    MaxClients = 2
    Requests = {"scriptBody"}
    RespSize = 1
    BodySize = 2
    Timeout = 0
    SendAhead = FALSE
    EarlyClose = FALSE
INVARIANTS
    CgiPipesOwned
    NothingOpenUnwatched
SYMMETRY Symmetry

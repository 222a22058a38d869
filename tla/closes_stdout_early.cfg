\* A script that closes its stdout and goes on running.
SPECIFICATION Spec
CONSTANTS
    Peer = {p1}
    Pid = {s1}
    None = None
    NListen = 1
    MaxFd = 8
    MaxClients = 2
    Requests = {"script"}
    RespSize = 1
    BodySize = 1
    Timeout = 0
    SendAhead = FALSE
    EarlyClose = TRUE
INVARIANTS
    NeverBlocks
SYMMETRY Symmetry

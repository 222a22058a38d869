\* A peer that sends while its script runs.
SPECIFICATION Spec
CONSTANTS
    Peer = {p1}
    Pid = {s1, s2}
    None = None
    NListen = 1
    MaxFd = 8
    MaxClients = 2
    Requests = {"script"}
    RespSize = 1
    BodySize = 1
    Timeout = 0
    SendAhead = TRUE
    EarlyClose = FALSE
INVARIANTS
    EveryScriptOwned
SYMMETRY Symmetry

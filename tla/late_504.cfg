\* A 504 that is never sent.
SPECIFICATION Spec
CONSTANTS
    Peer = {p1, p2}
    Pid = {s1}
    None = None
    NListen = 1
    MaxFd = 8
    MaxClients = 2
    Requests = {"script"}
    RespSize = 1
    BodySize = 1
    Timeout = 0
    SendAhead = FALSE
    EarlyClose = FALSE
PROPERTIES
    GatewayTimeoutSent
SYMMETRY Symmetry

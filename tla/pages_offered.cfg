\* Liveness without timeouts: two peers that come and go.
SPECIFICATION Untimed
CONSTANTS
    Peer = {p1, p2}
    Pid = {s1}
    None = None
    NListen = 1
    MaxFd = 3
    MaxClients = 2
    Requests = {"page"}
    RespSize = 2
    BodySize = 1
    Timeout = 0
    SendAhead = FALSE
    EarlyClose = FALSE
PROPERTIES
    Offered
    QueuedServed

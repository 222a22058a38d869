\* Liveness: a script that may hang, a peer that may stop reading.
SPECIFICATION Spec
CONSTANTS
    Peer = {p1}
    Pid = {s1}
    None = None
    NListen = 1
    MaxFd = 6
    MaxClients = 2
    Requests = {"scriptBody"}
    RespSize = 2
    BodySize = 2
    Timeout = 1
    SendAhead = FALSE
    EarlyClose = FALSE
PROPERTIES
    Answered
    OrphansReclaimed

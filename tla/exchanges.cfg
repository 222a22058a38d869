\* Two peers and one place; a script that may hang, a peer that may stop reading.
SPECIFICATION Spec
CONSTANTS
    Peer = {p1, p2}
    Pid = {s1}
    None = None
    NListen = 1
    MaxFd = 6
    MaxClients = 1
    Requests = {"page", "script"}
    RespSize = 2
    BodySize = 1
    Timeout = 0
    SendAhead = FALSE
    EarlyClose = FALSE
PROPERTIES
    Implements

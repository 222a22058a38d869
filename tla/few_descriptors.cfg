\* Small descriptor table and client cap; two sockets; bodies; scripts; requests sent ahead.
SPECIFICATION Spec
CONSTANTS
    Peer = {p1, p2}
    Pid = {s1, s2}
    None = None
    NListen = 2
    MaxFd = 7
    MaxClients = 1
    Requests = {"page", "scriptBody"}
    RespSize = 3
    BodySize = 1
    Timeout = 0
    SendAhead = TRUE
    EarlyClose = FALSE
INVARIANTS
    TypeOK
    ClientsBounded
    OnlyPipesAreLost
    KillsOwnScript
SYMMETRY Symmetry

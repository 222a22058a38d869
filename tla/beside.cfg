\* Every conversation of MCConnection, cut in every way; and three clients, each with a
\* script after another, and a server that restarts.
SPECIFICATION BesideSpec
CONSTANTS
    Conversations <- MCConversations
    Servers <- MCServers
    SizeWidth = 1000
    Client = {c1, c2, c3}
    Main = main
    Hanging = {c3}
INVARIANTS
    RepliesMatch
    LaunchedOnce
    ClosedWhenAsked
    TypeOK
    OutputEndsWithScript
    NoCircularWait
PROPERTIES
    AllAnswered
    ScriptsEnd
    PortFreed

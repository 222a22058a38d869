\* Inputs of which the code does not make what its comments say.
SPECIFICATION OddSpec
CONSTANTS
    Conversations <- OddConversations
    Servers <- AllServers
    BufferWidth = 1000
    Client = {c1}
    Main = main
    Hanging = {c1}
    Files <- OddFiles
    Address <- AllAddress
    Bytes <- AllBytes
    SizeWidth <- Width
    Forms <- OddForms
    Unopened = {}
    Prints <- OddPrints
    Garbage <- AllGarbage
    Sites <- OneSite
    Disks <- MCDisks
    ReadOnly <- MCReadOnly
    Full <- MCFull
    Dots = {".py"}
    Requests <- HeadOfScript
    Outputs <- MCOutputs
    MaxClock = 0
INVARIANTS
    SomeCommentKept

\* The tokenizer, the configuration parser, targets, the response builder, forms and script output.
SPECIFICATION PartsSpec
CONSTANTS
    Texts <- AllTexts
    Files <- AllFiles
    Address <- AllAddress
    Bytes <- AllBytes
    SizeWidth <- Width
    Uris <- AllUris
    Hex <- AllHex
    Sites <- MCSites
    Disks <- MCDisks
    ReadOnly <- MCReadOnly
    Full <- MCFull
    Dots = {".py"}
    Requests <- MCRequests
    Outputs <- MCOutputs
    MaxClock = 1
    Forms <- AllForms
    Unopened <- AllUnopened
    Prints <- AllPrints
    Garbage <- AllGarbage
INVARIANTS
    WordsOfFile
    NamesResolve
    PathIsClean
    LongestPrefix
    AllowedAnswered
    HeadLikeGet
    RedirectSettles
    GoneAfterDelete
    Stored
    StoredAsSent
    ReplyAsPrinted
PROPERTIES
    MeansWhatItSays

CONSTANTS
    Block = 4
    AdminTypes = {1, 2}
    MaxRows = 8
    MaxLines = 5
    Splits = TRUE
    MayFail = TRUE
SPECIFICATION FairSpec
INVARIANTS WireTypes InStep NothingLost LogComplete OnlyTheseStopServer OnlyTheseStopClient
PROPERTIES ExchangesEnd

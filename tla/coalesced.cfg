CONSTANTS
    Block = 3
    AdminTypes = {1}
    MaxRows = 1
    MaxLines = 1
    Splits = FALSE
    MayFail = FALSE
SPECIFICATION Spec
INVARIANTS ReviewKeepsServer

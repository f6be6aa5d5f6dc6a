SPECIFICATION FairSpec
CONSTANTS
    Openers = {a, b}
    a = a
    b = b
    InitialFiles <- MCInitialFiles
    MaxRows = 2
    MaxInterrupts = 2
CHECK_DEADLOCK FALSE
INVARIANTS
    OpenedIsComplete
    RowsReadAsHashed
    LoneOpenerSucceeds
PROPERTIES
    EveryOpenerOpens

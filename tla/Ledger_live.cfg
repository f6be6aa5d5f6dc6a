SPECIFICATION FairSpec
CONSTANTS
    a = a
    b = b
    log1 = log1
    log2 = log2
    log3 = log3
    anchor1 = anchor1
    update1 = update1
    verify1 = verify1
    old1 = old1
    old2 = old2
    request = request
    drift = drift
    k1 = k1
    NoSignature = NoSignature
    NoVerifier = NoVerifier
    NoCall = NoCall
    Body = {log1, log2, log3, old1, old2}
    EventType = {request, drift}
    Key = {k1}
    Ledgers = {a, b}
    LogCalls = {log1}
    AnchorCalls = {anchor1}
    UpdateCalls = {update1}
    VerifyCalls = {}
    Owner <- MCTwoLedgers
    EventTypeOf <- MCEventTypeOf
    SignerOf <- MCSignerOf
    InitialTables <- MCEmptyTable
PROPERTIES
    CallsFinish

SPECIFICATION Spec
CONSTANTS
    b1 = b1
    b2 = b2
    b3 = b3
    request = request
    drift = drift
    k1 = k1
    k2 = k2
    NoSignature = NoSignature
    NoVerifier = NoVerifier
    Body = {b1, b2, b3}
    EventType = {request, drift}
    Key = {k1, k2}
    Written <- MCWritten
    Tables <- MCTables
    Verifiers <- MCVerifiers
CHECK_DEADLOCK FALSE
INVARIANTS
    WalkInvariant
    HashBindsHistory
    SignedHistoryIsWritten

SPECIFICATION FairSpec
CONSTANTS
    c1 = c1
    c2 = c2
    t1 = t1
    t2 = t2
    t3 = t3
    Calendars <- MCCalendars
    Tsas <- MCTsas
    Unparseable = {t3}
    None = None
    Schedules <- MCSchedules
    MaxEntries = 3
    MaxMinutes = 3
    MaxRows = 2
INVARIANTS
    TypeOK
    RowCarriesProofs
    AnchoredIsDurable
    EitherTrackSuffices
    FallbackInOrder
    StoredTokensVerify
    AnchorsAdvance
    AnchorsAreSpaced
PROPERTIES
    CallEnds
CHECK_DEADLOCK FALSE

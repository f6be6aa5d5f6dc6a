SPECIFICATION Spec
CONSTANTS
    p = p
    q = q
    Pollers = {p, q}
    Calendars <- MCCalendars
    HeightOf <- MCHeightOf
    Limit = 2
    UseMaxAge = TRUE
    MaxRows = 1
    MaxFailures = 1
    Null = Null
INVARIANTS
    TypeOK
    ConfirmedRowsPass
    ProofsAreObtained
CHECK_DEADLOCK FALSE

SPECIFICATION Spec
CONSTANTS
    p = p
    q = q
    Pollers = {p, q}
    Calendars <- MCCalendars
    HeightOf <- MCHeightOf
    Limit = 2
    UseMaxAge = FALSE
    MaxRows = 1
    MaxFailures = 0
    Null = Null
PROPERTIES
    AttestationsKept
CHECK_DEADLOCK FALSE

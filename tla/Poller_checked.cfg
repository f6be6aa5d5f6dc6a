SPECIFICATION Spec
CONSTANTS
    p = p
    q = q
    Pollers = {p}
    Calendars <- MCOneCalendar
    HeightOf <- MCOneHeight
    Limit = 2
    UseMaxAge = FALSE
    MaxRows = 3
    MaxFailures = 0
    Null = Null
INVARIANTS
    ConfirmedIsReported
CHECK_DEADLOCK FALSE

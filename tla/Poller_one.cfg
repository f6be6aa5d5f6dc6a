SPECIFICATION FairSpec
CONSTANTS
    p = p
    q = q
    Pollers = {p}
    Calendars <- MCOneCalendar
    HeightOf <- MCOneHeight
    Limit = 2
    UseMaxAge = TRUE
    MaxRows = 3
    MaxFailures = 1
    Null = Null
PROPERTIES
    ConfirmedIsFinal
    MinedIsConfirmed
CHECK_DEADLOCK FALSE

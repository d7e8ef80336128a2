SPECIFICATION Spec
CONSTANTS
    Slots = 2
    HUGE = HUGE
    Requests <- EdgeRequests
INVARIANTS
    TypeOK
    RoundTrip
PROPERTIES
    ErrorStops
    WritesStayInside

\* An import against a direct booking that waits for its payment.
SPECIFICATION Spec
CONSTANTS
    Requests = {r1, r2}
    Properties = {p1}
    ActiveProperties = {p1}
    Rooms = {room1}
    ExternalKeys = {x1}
    Null = Null
    Today = 0
    StayDates <- TouchingDates
    RequestKinds = {"create", "import"}
    UpdateStatuses = {"CONFIRMED", "CANCELLED"}
CHECK_DEADLOCK FALSE
PROPERTY
    ImportChecksAllBookings

\* Staff cancelling, confirming and completing bookings while guests create them.
SPECIFICATION Spec
CONSTANTS
    Requests = {r1, r2, r3}
    Properties = {p1, p2}
    ActiveProperties = {p1, p2}
    Rooms = {}
    ExternalKeys = {}
    Null = Null
    Today = 1
    StayDates <- CrossingDates
    RequestKinds = {"create", "cancel", "markAsPaid", "complete"}
    UpdateStatuses = {}
SYMMETRY IdSymmetry
CHECK_DEADLOCK FALSE
INVARIANTS
    DuplicateScheduleNeedsRace

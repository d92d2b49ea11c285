\* Creates, imports and reschedules of one property with one room, racing.
SPECIFICATION Spec
CONSTANTS
    Requests = {r1, r2, r3}
    Properties = {p1}
    ActiveProperties = {p1}
    Rooms = {room1}
    ExternalKeys = {x1}
    Null = Null
    Today = 0
    StayDates <- TouchingDates
    RequestKinds = {"create", "import", "reschedule"}
    UpdateStatuses = {"CANCELLED"}
SYMMETRY IdSymmetry
CHECK_DEADLOCK FALSE
INVARIANTS
    TypeOK
    DoubleBookingNeedsRace
    UniqueExternal
    IInv
PROPERTY
    ImportChecksWholeProperty

\* A session handled by webhook and page at once, with crashes, refunds and edits by staff.
SPECIFICATION Spec
CONSTANTS
    Sessions = {s1}
    FreeSessions = {}
    Intents = {i1}
    Trips = {s1}
    TripOf <- OwnTrip
    Clash <- SameTrip
    Handlers = {h1, h2}
    Null = Null
    CallKinds = {"page", "confirm", "direct", "process", "remove", "refund"}
    UpdateStatuses = {"CANCELLED", "CONFIRMED"}
    MaxRows = 2
    MaxCalls = 2
    MaxCrashes = 1
SYMMETRY HandlerSymmetry
CHECK_DEADLOCK FALSE
INVARIANTS
    TypeOK
    OneBookingPerSession
    NothingBeforePayment
PROPERTIES
    KeepsTheLedger

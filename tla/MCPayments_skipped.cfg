\* A session handled again after its payment was refunded.
SPECIFICATION Spec
CONSTANTS
    Sessions = {s1}
    FreeSessions = {}
    Intents = {}
    Trips = {s1}
    TripOf <- OwnTrip
    Clash <- SameTrip
    Handlers = {h1, h2}
    Null = Null
    CallKinds = {"refund"}
    UpdateStatuses = {}
    MaxRows = 2
    MaxCalls = 2
    MaxCrashes = 0
CHECK_DEADLOCK FALSE
PROPERTY
    ProcessedSessionIsSkipped

\* Paid sessions, one of them free, their events repeated and out of order.
SPECIFICATION FairSpec
CONSTANTS
    Sessions = {s1, s2}
    FreeSessions = {s2}
    Intents = {}
    Trips = {s1, s2}
    TripOf <- OwnTrip
    Clash <- SameTrip
    Handlers = {h1, h2}
    Null = Null
    CallKinds = {"page", "confirm"}
    UpdateStatuses = {}
    MaxRows = 3
    MaxCalls = 1
    MaxCrashes = 0
CHECK_DEADLOCK FALSE
PROPERTY
    PaidSessionIsSettled

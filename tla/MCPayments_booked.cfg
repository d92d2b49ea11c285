\* Two sessions for the same trip.
SPECIFICATION FairSpec
CONSTANTS
    Sessions = {s1, s2}
    FreeSessions = {}
    Intents = {}
    Trips = {s1, s2}
    TripOf <- OwnTrip
    Clash <- AnyTrips
    Handlers = {h1, h2}
    Null = Null
    CallKinds = {}
    UpdateStatuses = {}
    MaxRows = 3
    MaxCalls = 0
    MaxCrashes = 0
CHECK_DEADLOCK FALSE
PROPERTY
    PaidSessionIsBooked

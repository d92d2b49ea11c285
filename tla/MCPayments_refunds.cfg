\* Refunds, cancellations and payments without a session.
SPECIFICATION Spec
CONSTANTS
    Sessions = {s1}
    FreeSessions = {}
    Intents = {}
    Trips = {s1}
    TripOf <- OwnTrip
    Clash <- SameTrip
    Handlers = {h1, h2}
    Null = Null
    CallKinds = {"refund", "cancel", "markAsPaid"}
    UpdateStatuses = {}
    MaxRows = 2
    MaxCalls = 3
    MaxCrashes = 0
SYMMETRY HandlerSymmetry
CHECK_DEADLOCK FALSE
INVARIANTS
    RefundedIsReturned

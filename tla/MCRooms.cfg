\* Rooms come and go, rules, closures, bookings and what every read makes of them.
SPECIFICATION ScriptSpec
CONSTANTS
    r1 = r1
    r2 = r2
    p1 = p1
    p2 = p2
    Rooms = {r1, r2}
    Properties = {p1, p2}
    Base <- SameBase
    PropertyBase <- SameRate
    Overrides = {100}
    SeededRooms = {r1}
    SeededAt = p1
    SeededBlocks <- DrawnBlocks
    MaxDay = 3
    MaxRules = 2
    WeekLength = 2
    MonthStart <- ShortMonths
    MaxStays = 2
    Hotel = p1
    SeedSize = 1
    Seasons <- TwoSeasons
    Handlers = {h1, h2}
    Null = Null
    Workloads <- Mixes
    MaxCalls = 3
SYMMETRY HandlerSymmetry
CHECK_DEADLOCK FALSE
INVARIANTS
    TypeOK
    FlagFollowsRooms
    OfferedIsFree
    FreeIsOffered
    OfferedIsAccepted
    QuoteIsCharged
    RefundIsFair
    ChartAddsUp
    SeasonsArePriced
PROPERTIES
    AvailabilityEditsShow

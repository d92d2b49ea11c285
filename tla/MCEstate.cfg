\* Reviews, cleaning, repairs and groups, with what deletions take along.
SPECIFICATION Spec
CONSTANTS
    p1 = p1
    p2 = p2
    b1 = b1
    b2 = b2
    PropertyIds = {p1, p2}
    SeededProperties = {p1}
    GroupIds = {g1}
    BookingIds = {b1, b2}
    SeededBookings <- TwoBookings
    Ratings = {2, 5}
    MaxReviews = 3
    Frequencies = {"AFTER_EACH_BOOKING", "WEEKLY"}
    CleaningDays = {1, 2}
    MaxSchedules = 2
    MaxRepairs = 2
    Handlers = {h1, h2}
    Null = Null
    Workloads <- Mixes
    MaxCalls = 4
SYMMETRY HandlerSymmetry
CHECK_DEADLOCK FALSE
INVARIANTS
    TypeOK
    ReferencesHold
    OneReviewPerStay
    AverageFollowsReviews
    CleaningDatesAgree
    DueIsCounted

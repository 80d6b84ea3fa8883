\* Two requests race with two intents for two hours, with a closure and an admin.
SPECIFICATION Spec
CONSTANTS
    b1 = b1
    b2 = b2
    i1 = i1
    i2 = i2
    r1 = r1
    r2 = r2
    c1 = c1
    NoBooking = NoBooking
    NoIntent = NoIntent
    Bookings <- MCTwoBookings
    Intents <- MCTwoIntents
    Requests <- MCTwoRequests
    Closures <- MCOneClosure
    Hours <- MCHours
    Wanted <- MCWanted
    PatchTargets <- MCStatuses
SYMMETRY Symmetry
INVARIANTS
    TypeOK
    NoOverlap
    AnswersAgree
    DetachedCardsWereWithdrawn
PROPERTIES
    ClosedPeriodsStayFree
    ImplementsCalendar

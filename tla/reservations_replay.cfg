\* Two creates with one setup intent: the later one is not always answered with its booking.
SPECIFICATION Spec
CONSTANTS
    b1 = b1
    b2 = b2
    i1 = i1
    i2 = i2
    r1 = r1
    r2 = r2
    c1 = c1
    NoBooking = NoBooking
    NoIntent = NoIntent
    Bookings <- MCTwoBookings
    Intents <- MCOneIntent
    Requests <- MCTwoRequests
    Closures <- MCNoClosure
    Hours <- MCHours
    Wanted <- MCWanted
    PatchTargets <- MCStatuses
INVARIANT
    ReplaysAreAnswered

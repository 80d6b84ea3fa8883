\* Two bookings, one admin and the scheduler, no crash and no PATCH: what must happen.
SPECIFICATION FairSpec
CONSTANTS
    a1 = a1
    a2 = a2
    s1 = s1
    b1 = b1
    b2 = b2
    NoBooking = NoBooking
    Bookings <- MCTwoBookings
    CardOnFile <- MCTwoBookings
    Admins <- MCOneAdmin
    Schedulers <- MCScheduler
    Amounts <- MCOneAmount
    ManualAttempts = 3
    WorkersMayStop = FALSE
    PatchTargets <- MCNoPatch
    PatchesInFlight = FALSE
    RetryRejected = FALSE
PROPERTIES
    CompletedBookingsSettle
    ChargingEnds
\* When every booking is settled nothing is left to do.
CHECK_DEADLOCK FALSE

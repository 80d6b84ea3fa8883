\* The amount of a retry may differ from that of the request it repeats.
SPECIFICATION Spec
CONSTANTS
    a1 = a1
    a2 = a2
    s1 = s1
    b1 = b1
    b2 = b2
    NoBooking = NoBooking
    Bookings <- MCOneBooking
    CardOnFile <- MCOneBooking
    Admins <- MCOneAdmin
    Schedulers <- MCScheduler
    Amounts <- MCTwoAmounts
    ManualAttempts = 3
    WorkersMayStop = FALSE
    PatchTargets <- MCNoPatch
    PatchesInFlight = FALSE
    RetryRejected = FALSE
INVARIANT
    RetriesSendSameParameters
\* When every booking is settled nothing is left to do.
CHECK_DEADLOCK FALSE

\* The admin's PATCH reaches a row that is being charged.
SPECIFICATION Spec
CONSTANTS
    a1 = a1
    a2 = a2
    s1 = s1
    b1 = b1
    b2 = b2
    NoBooking = NoBooking
    Bookings <- MCOneBooking
    CardOnFile <- MCOneBooking
    Admins <- MCTwoAdmins
    Schedulers <- MCScheduler
    Amounts <- MCOneAmount
    ManualAttempts = 3
    WorkersMayStop = FALSE
    PatchTargets <- MCButtons
    PatchesInFlight = TRUE
    RetryRejected = FALSE
INVARIANT
    NoDoubleCharge

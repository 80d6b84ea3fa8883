\* Stripe may reject a retry, at the card lookup or at the PaymentIntent (card detached,
\* API key rolled, an amount below the currency's minimum).
SPECIFICATION Spec
CONSTANTS
    a1 = a1
    a2 = a2
    s1 = s1
    b1 = b1
    b2 = b2
    NoBooking = NoBooking
    Bookings <- MCOneBooking
    CardOnFile <- MCOneBooking
    Admins <- MCOneAdmin
    Schedulers <- MCScheduler
    Amounts <- MCOneAmount
    ManualAttempts = 3
    WorkersMayStop = FALSE
    PatchTargets <- MCNoPatch
    PatchesInFlight = FALSE
    RetryRejected = TRUE
INVARIANT
    NoDoubleCharge
\* When every booking is settled nothing is left to do.
CHECK_DEADLOCK FALSE

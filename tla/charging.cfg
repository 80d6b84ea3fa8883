\* One booking, two admins and the scheduler, everything that can go wrong except what
\* the two environment constants rule out.
SPECIFICATION Spec
CONSTANTS
    a1 = a1
    a2 = a2
    s1 = s1
    b1 = b1
    b2 = b2
    NoBooking = NoBooking
    Bookings <- MCOneBooking
    CardOnFile <- MCOneBooking
    Admins <- MCTwoAdmins
    Schedulers <- MCScheduler
    Amounts <- MCTwoAmounts
    ManualAttempts = 3
    WorkersMayStop = TRUE
    PatchTargets <- MCAllStatuses
    PatchesInFlight = FALSE
    RetryRejected = FALSE
INVARIANTS
    TypeOK
    SoleOwner
    NoDoubleCharge
    PaymentKeepsItsKey
    RecordedPaymentIsReal
PROPERTIES
    KeysAreFresh
    ImplementsPaymentOnce

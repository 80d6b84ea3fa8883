\* What the cancel page promises, with admins who PATCH from old lists.
SPECIFICATION Spec
CONSTANTS
    Bookings = {b1}
    StartOf <- MCStartOf
    EndOf <- MCEndOf
    ReminderHours = 1
    LastHour = 4
    MaxSlips = 1
    NoBooking = NoBooking
CHECK_DEADLOCK FALSE
INVARIANT
    ToldIsNeverCharged

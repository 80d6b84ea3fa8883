SPECIFICATION LiveSpec
CONSTANTS
    Bookings = {b1}
    StartOf <- MCStartOf
    EndOf <- MCEndOf
    ReminderHours = 1
    LastHour = 4
    MaxSlips = 1
    NoBooking = NoBooking
CHECK_DEADLOCK FALSE
INVARIANTS
    TypeOK
    SessionsAreClosed
    NoChargeAfterCancel
    PanicsAreOfRevivedBookings
    RemindersAreNotRepeated
    RemindersAreSent
PROPERTIES
    SessionsClose

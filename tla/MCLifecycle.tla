------------------------------ MODULE MCLifecycle ------------------------------
(***************************************************************************)
(* A session that starts exactly the reminder's notice after it was booked.*)
(***************************************************************************)
EXTENDS Lifecycle

MCStartOf == [b \in Bookings |-> 1]
MCEndOf == [b \in Bookings |-> 2]
=============================================================================

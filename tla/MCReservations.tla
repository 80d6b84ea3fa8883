--------------------------- MODULE MCReservations ---------------------------
\* Constants for checking Reservations.
EXTENDS Reservations, TLC

CONSTANTS b1, b2, i1, i2, r1, r2, c1

MCTwoBookings == {b1, b2}
MCTwoIntents == {i1, i2}
MCOneIntent == {i1}
MCTwoRequests == {r1, r2}
MCOneClosure == {c1}
MCNoClosure == {}
MCHours == 0..2
MCWanted == {[from |-> 0, to |-> 2], [from |-> 1, to |-> 2]}
MCStatuses == Status

Symmetry == Permutations(MCTwoIntents) \cup Permutations(MCTwoBookings)
            \cup Permutations(MCTwoRequests)
==============================================================================

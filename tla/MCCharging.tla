----------------------------- MODULE MCCharging -----------------------------
\* Constants for checking Charging: small sets, and the three environments the runs use.
EXTENDS Charging, TLC

CONSTANTS a1, a2, s1, b1, b2

MCOneAdmin == {a1}
MCTwoAdmins == {a1, a2}
MCScheduler == {s1}
MCOneBooking == {b1}
MCTwoBookings == {b1, b2}
MCOneAmount == {1}
MCTwoAmounts == {1, 2}
MCAllStatuses == Status

\* What the booking list's buttons ask for.
MCButtons == {"cancelled", "completed"}
MCNoPatch == {}

Symmetry == Permutations({a1, a2})
==============================================================================

--------------------------- MODULE MCAppointments ---------------------------
EXTENDS Appointments, TLC

CONSTANTS first, hook, dash

OneBooking == {first}
TwoRequests == {hook, dash}
Symmetry == Permutations(TwoRequests)
\* Both times are in the window of the first round, the later one also in
\* that of the second.
EarlyAndLate == {2, 3}

\* Bound: at most three changes and failures of the booking together.
FewEvents == calendar[first].change + failures <= 3
=============================================================================

SPECIFICATION Spec
CONSTANTS
    first = first
    hook = hook
    dash = dash
    Bookings <- OneBooking
    Requests <- TwoRequests
    Slots <- EarlyAndLate
    WindowStart = 1
    WindowEnd = 2
    Interval = 1
    Horizon = 3
    MaxChanges = 2
    MaxFailures = 0
SYMMETRY Symmetry
INVARIANT RemindedInTime
CHECK_DEADLOCK FALSE

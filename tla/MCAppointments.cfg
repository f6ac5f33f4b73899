SPECIFICATION Spec
CONSTANTS
    first = first
    hook = hook
    dash = dash
    Bookings <- OneBooking
    Requests <- TwoRequests
    Slots <- EarlyAndLate
    WindowStart = 1
    WindowEnd = 2
    Interval = 1
    Horizon = 3
    MaxChanges = 3
    MaxFailures = 1
SYMMETRY Symmetry
INVARIANTS InStep RemindedUnlessCrossed
PROPERTY RepeatedOnlyIfReopened
CONSTRAINT FewEvents
CHECK_DEADLOCK FALSE

SPECIFICATION Spec
CONSTANTS
    older = older
    one = one
    two = two
    Calls <- OneCall
    Requests <- TwoRequests
    Periods <- ShortAndLong
    Interval = 1
    Horizon = 3
    MaxEdits = 1
    MaxFailures = 1
SYMMETRY Symmetry
INVARIANT SummariesExpire
CHECK_DEADLOCK FALSE

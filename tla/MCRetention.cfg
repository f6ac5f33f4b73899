SPECIFICATION Spec
CONSTANTS
    older = older
    one = one
    two = two
    Calls <- OneCall
    Requests <- TwoRequests
    Periods <- ShortAndLong
    Interval = 1
    Horizon = 3
    MaxEdits = 1
    MaxFailures = 1
SYMMETRY Symmetry
INVARIANTS MediaNotOverdue ErasureHolds
PROPERTIES RecordingKept
CHECK_DEADLOCK FALSE

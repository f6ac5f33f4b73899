SPECIFICATION Spec

CONSTANTS
    Slot = {1, 2, 3}
    Utterance <- MCUtterance
    MaxClarifying = 2
    Back = 1
    Ahead = 2
    MaxTurns = 5
    MaxFailures = 1
    None = None

INVARIANT NothingPromisedUnbooked
INVARIANT NoSecondConfirmation
INVARIANT BookedHasRow
INVARIANT RowsInStep
INVARIANT TalkBudget
INVARIANT BookedWasOffered

\* The model stops after the last turn.
CHECK_DEADLOCK FALSE

SPECIFICATION FairSpec

CONSTANTS
    Turn = {t1}
    Greeting = Greeting
    Loop = Loop
    None = None

INVARIANT DeafOnlyWhilePlaying
INVARIANT HangupExact
PROPERTY ReportHoldsAnswered
PROPERTY TurnsEnd
PROPERTY CallCloses

\* The model stops when the call is closed and its tasks have ended.
CHECK_DEADLOCK FALSE

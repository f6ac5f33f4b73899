SPECIFICATION Spec

CONSTANTS
    Turn = {t1}
    Greeting = Greeting
    Loop = Loop
    None = None

INVARIANT ClosingLineFinishes

\* The model stops when the call is closed and its tasks have ended.
CHECK_DEADLOCK FALSE

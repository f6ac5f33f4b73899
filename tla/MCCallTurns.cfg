SPECIFICATION Spec

CONSTANTS
    Voice = {v1}
    Turn = {t1, t2}
    Hangup = {h1}
    Status = {s1}
    None = None
    Verdict <- MCVerdict
    HangupSeconds <- MCHangupSeconds
    StatusSeconds <- MCStatusSeconds

INVARIANT EscalationExplained
INVARIANT ChargesBacked
PROPERTY FactsKept
PROPERTY SeenEscalationStands

\* The model stops when every request has ended.
CHECK_DEADLOCK FALSE

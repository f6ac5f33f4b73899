SPECIFICATION FairSpec

CONSTANTS
    Voice = {v1, v2}
    Turn = {t1}
    Hangup = {h1}
    Status = {s1}
    None = None
    Verdict = {"booked"}
    HangupSeconds = {40}
    StatusSeconds <- MCStatusSeconds

INVARIANT TypeOK
INVARIANT OneRowPerCall
INVARIANT SettlersCharged
PROPERTY SettledInFull
PROPERTY RequestsEnd
PROPERTY ConversationForgotten

\* The model stops when every request has ended.
CHECK_DEADLOCK FALSE

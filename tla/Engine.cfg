\* Two calls, both with a notification, against a queue of one, so that a
\* notification is dropped; two workers that share the token cache, and two tokens,
\* so that both refresh at once.  The clock passes the point at which a token is
\* no longer fresh, and the margin is no wider than TokenAssumption asks for.
CONSTANTS
    Callers = {v1, v2}
    Margin = 2
    OpTimeout = 1
    DefaultLife = 4
    Life = 4
    Skew = 1
    MaxTokens = 2
    MaxTime = 4
    Calls = {d1, d2}
    Notifies = {d1, d2}
    NoCall = NoCall
    QueueSize = 1
SPECIFICATION FairSpec
INVARIANTS TypeOK TokenInTime HonestResult NotifiedOnce
PROPERTIES RefreshCures CallsReturn QueuedIsTried WorkersEnd
\* Every call is made once, and the clock is bounded.
CHECK_DEADLOCK FALSE

\* Two flushes to one comet; the clock passes a window and an open period.
CONSTANTS
    Keys = {a1}
    Callers = {f1, f2}
    NoKey = NoKey
    Threshold = 3
    Window = 3
    OpenFor = 2
    MaxTime = 9
    MaxFails = 6
SPECIFICATION Spec
INVARIANTS TrippedByFailures RefusalBounded BurstTrips
\* The bounds on clock and failures end every behaviour.
CHECK_DEADLOCK FALSE

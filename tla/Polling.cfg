\* Two messages in the outbox, batches of one, so that a failing row may stand
\* before the other; two workers, a handler that may die at any step, and a
\* client that polls with a limit that is negative, zero, or above one cap or both:
\* of one row at a time, and of two.
CONSTANTS
    Handlers = {h1}
    Workers = {w1, w2}
    Conns = {k1}
    Convs = {c1}
    Users = {u1}
    Cids = {}
    NoCid = NoCid
    NoConn = NoConn
    NoTx = NoTx
    Batch = 1
    MaxMsg = 2
    DefaultLimit = 1
    MaxLimit = 3
    RepoLimit = 2
    Limits <- AnyLimits
SPECIFICATION FairReaderSpec
INVARIANTS EventIsStored NothingForgotten
PROPERTIES NothingStarves CatchesUp
\* When every row is sent and read, nothing is left to do.
CHECK_DEADLOCK FALSE

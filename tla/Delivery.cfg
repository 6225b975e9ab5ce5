\* Two messages with three items, batches of two, two callbacks, a ticker and
\* a stop; one Redis error, stop or crash.
CONSTANTS
    m1 = m1
    m2 = m2
    u1 = u1
    u2 = u2
    k1 = k1
    k2 = k2
    Msgs <- TwoMsgs
    Copies = {k1, k2}
    MsgOf <- OneCopyEach
    ToUIDs <- Listed
    Users <- Both
    Addrs = {a1}
    NoAddr = NoAddr
    MaxBatch = 2
    RedisFails = TRUE
    MaxMishaps = 1
SPECIFICATION FairSpec
INVARIANTS TypeOK NothingDropped HeldOnce
PROPERTIES FlushEnds ImplementsLedger Settles
\* Every copy consumed and nothing held: nothing is left to do.
CHECK_DEADLOCK FALSE

\* main.go:127: the process ends between the dedupe key and the flush.
CONSTANTS
    m1 = m1
    m2 = m2
    u1 = u1
    u2 = u2
    k1 = k1
    k2 = k2
    Msgs <- TwoMsgs
    Copies = {k1, k2}
    MsgOf <- OneCopyEach
    ToUIDs <- Listed
    Users <- Both
    Addrs = {a1}
    NoAddr = NoAddr
    MaxBatch = 2
    RedisFails = FALSE
    MaxMishaps = 1
SPECIFICATION Spec
INVARIANTS AtLeastOnce
\* Every copy consumed and nothing held: nothing is left to do.
CHECK_DEADLOCK FALSE

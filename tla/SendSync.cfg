\* Two requests on two pooled connections, to two conversations, with a client
\* id that may be sent again, and a client that reads while they commit or
\* abort.  The worker is the subject of Polling.
CONSTANTS
    Handlers = {h1, h2}
    Workers = {}
    Conns = {k1, k2}
    Convs = {c1, c2}
    Users = {u1}
    Cids = {d1}
    NoCid = NoCid
    NoConn = NoConn
    NoTx = NoTx
    Batch = 2
    MaxMsg = 2
    DefaultLimit = 2
    MaxLimit = 2
    RepoLimit = 5
    Limits = {0, 1}
SYMMETRY Interchangeable
SPECIFICATION ReaderSpec
INVARIANTS TypeOK AckAgreement NoGaps NothingSkipped
PROPERTIES ImplementsLog SyncFollowsCommit StaysWellNumbered
\* Every request served: nothing is left to do.
CHECK_DEADLOCK FALSE

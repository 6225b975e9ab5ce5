\* A batch of three items and a single push, side by side, against two
\* connections of one user or of two, with a queue of one, so that every answer
\* occurs and the batch is cut at every item.
CONSTANTS
    u1 = u1
    u2 = u2
    r1 = r1
    r2 = r2
    Uids <- Two
    Requests <- TwoPushes
    Items <- BatchAndSingle
    Conns = {k1, k2}
    NoConn = NoConn
    Cap = 1
SPECIFICATION FairSpec
INVARIANTS TypeOK NoZombie BatchPrefix WrittenInOrder
PROPERTIES Drains
\* Every connection connects once and every request is sent once.
CHECK_DEADLOCK FALSE

\* IM-Platform-Architecture.md:91: a user who reconnects.
CONSTANTS
    u1 = u1
    u2 = u2
    r1 = r1
    r2 = r2
    Uids <- One
    Requests <- OnePush
    Items <- Single
    Conns = {k1, k2}
    NoConn = NoConn
    Cap = 1
SPECIFICATION Spec
PROPERTIES UpIsRegistered
\* Every connection connects once and every request is sent once.
CHECK_DEADLOCK FALSE

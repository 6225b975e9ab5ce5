\* schema.sql: client_msg_id is the client's idempotency id.
CONSTANTS
    Handlers = {h1}
    Workers = {}
    Conns = {k1}
    Convs = {c1}
    Users = {u1}
    Cids = {d1}
    NoCid = NoCid
    NoConn = NoConn
    NoTx = NoTx
    Batch = 1
    MaxMsg = 2
SPECIFICATION Spec
INVARIANTS RetryAnswered
CHECK_DEADLOCK FALSE

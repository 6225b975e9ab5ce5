\* schema.sql: sync_id increases within the conversation.
CONSTANTS
    Handlers = {h1}
    Workers = {}
    Conns = {k1}
    Convs = {c1, c2}
    Users = {u1}
    Cids = {}
    NoCid = NoCid
    NoConn = NoConn
    NoTx = NoTx
    Batch = 1
    MaxMsg = 5
SPECIFICATION Spec
PROPERTIES SyncIncreasing
CHECK_DEADLOCK FALSE

\* After the server closes a connection with responses due, the worker spins on
\* recv returning 0 and the deadline does not end the client.
SPECIFICATION TimedSpec
CONSTANTS
    Workers = {t1}
    Conns = {k1, k2}
    OwnerOf <- BothOnOne
    Requests = 1
    ReqLen = 1
    RespLen = 1
    SockBuf = 2
    MAX_EVENTS = 10
    ServerCloses = TRUE
    Faults = {}
    t1 = t1
    t2 = t2
    k1 = k1
    k2 = k2
    NULL = NULL
PROPERTIES
    DeadlineEnds

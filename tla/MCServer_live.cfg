\* Every request is answered, and every object returns to its pool, although
\* two clients share one buffer and a response fills the socket; and whenever
\* the server is told to stop its threads return.
SPECIFICATION FairSpec
CONSTANTS
    Conns = {c1, c2}
    Buffers = {b1}
    IOs = {w1}
    Submitters = {s1}
    Computes = {x1}
    Acceptors = {a1, a2}
    Clients = {k1, k2}
    ReqLen = 1
    RespLen = 1
    MaxIo = 1
    Readahead = 1
    MAX_EVENTS = 10
    SockBuf = 1
    FdLimit = 10
    MaxRequests = 1
    Closing = {}
    CtlFails = FALSE
    MayStop = TRUE
    NULL = NULL
PROPERTIES
    RequestsAnswered
    AllReturned
    ThreadsStop

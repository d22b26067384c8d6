\* finish_connection cleans up a session a second time when the event that made
\* handle_response finish it also had EPOLLIN.
SPECIFICATION Spec
CONSTANTS
    Conns = {c1}
    Buffers = {b1, b2}
    IOs = {w1}
    Submitters = {s1}
    Computes = {x1}
    Acceptors = {a1}
    Clients = {k1}
    ReqLen = 1
    RespLen = 1
    MaxIo = 1
    Readahead = 1
    MAX_EVENTS = 10
    SockBuf = 4
    FdLimit = 10
    MaxRequests = 2
    Closing = {"abort"}
    CtlFails = FALSE
    MayStop = FALSE
    NULL = NULL
SYMMETRY Symmetry
INVARIANTS
    FinishedOnce

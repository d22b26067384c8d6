\* Clients that run ahead of short writes, on session objects that are reused,
\* with two accept threads racing at the descriptor limit, where accept4 fails,
\* and epoll_ctl failing at any time: the limit holds, pipelined responses stay
\* whole, no session is handed out twice, and the sockets keep the contract of
\* Service.
SPECIFICATION Spec
CONSTANTS
    Conns = {c1, c2}
    Buffers = {b1, b2, b3}
    IOs = {w1}
    Submitters = {s1}
    Computes = {x1}
    Acceptors = {a1, a2}
    Clients = {k1, k2}
    ReqLen = 1
    RespLen = 2
    MaxIo = 2
    Readahead = 1
    MAX_EVENTS = 10
    SockBuf = 2
    FdLimit = 1
    MaxRequests = 3
    Closing = {}
    CtlFails = TRUE
    MayStop = FALSE
    NULL = NULL
SYMMETRY Symmetry
INVARIANTS
    ReadaheadBounded
    ResponsesFramed
    ReleasedForgotten
PROPERTIES
    ImplementsService

\* Two well-behaved clients on two IO threads that compete for the buffers and
\* share one submitter: buffers, session locks and EPOLLOUT stay consistent
\* with short reads.
SPECIFICATION Spec
CONSTANTS
    Conns = {c1, c2}
    Buffers = {b1, b2}
    IOs = {w1, w2}
    Submitters = {s1}
    Computes = {x1}
    Acceptors = {a1}
    Clients = {k1, k2}
    ReqLen = 2
    RespLen = 1
    MaxIo = 2
    Readahead = 1
    MAX_EVENTS = 10
    SockBuf = 2
    FdLimit = 10
    MaxRequests = 2
    Closing = {}
    CtlFails = FALSE
    MayStop = FALSE
    NULL = NULL
SYMMETRY Symmetry
INVARIANTS
    TypeOK
    BufferConserved
    ConnLock
    OutArmed
    PoolCirculates

\* Clients that close at any time, with a readahead of 0: resets, EPIPE and
\* half-received requests leave buffers and sessions consistent.
SPECIFICATION Spec
CONSTANTS
    Conns = {c1, c2}
    Buffers = {b1, b2}
    IOs = {w1}
    Submitters = {s1}
    Computes = {x1}
    Acceptors = {a1}
    Clients = {k1, k2}
    ReqLen = 2
    RespLen = 2
    MaxIo = 2
    Readahead = 0
    MAX_EVENTS = 10
    SockBuf = 1
    FdLimit = 10
    MaxRequests = 2
    Closing = {"abort"}
    CtlFails = FALSE
    MayStop = FALSE
    NULL = NULL
SYMMETRY Symmetry
INVARIANTS
    BufferConserved
    ConnLock
    ReleasedForgotten
    FinishedOnce

\* Clients that shut down early, so that finish_connection races the submitter
\* for the release of the session, which is then reused: as long as the sockets
\* never fill nothing is lost.
SPECIFICATION Spec
CONSTANTS
    Conns = {c1}
    Buffers = {b1, b2, b3}
    IOs = {w1}
    Submitters = {s1}
    Computes = {x1}
    Acceptors = {a1}
    Clients = {k1, k2}
    ReqLen = 1
    RespLen = 1
    MaxIo = 1
    Readahead = 2
    MAX_EVENTS = 10
    SockBuf = 4
    FdLimit = 10
    MaxRequests = 2
    Closing = {"half"}
    CtlFails = FALSE
    MayStop = FALSE
    NULL = NULL
SYMMETRY Symmetry
INVARIANTS
    CountersAccount
    ReleasedForgotten
    DelegatedInFlight

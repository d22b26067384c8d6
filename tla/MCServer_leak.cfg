\* A session finished with a half-sent response is delegated to the submitter
\* although nothing is in flight, and is never released.
SPECIFICATION Spec
CONSTANTS
    Conns = {c1}
    Buffers = {b1, b2}
    IOs = {w1}
    Submitters = {s1}
    Computes = {x1}
    Acceptors = {a1}
    Clients = {k1}
    ReqLen = 1
    RespLen = 1
    MaxIo = 1
    Readahead = 1
    MAX_EVENTS = 10
    SockBuf = 1
    FdLimit = 10
    MaxRequests = 2
    Closing = {"half"}
    CtlFails = FALSE
    MayStop = FALSE
    NULL = NULL
SYMMETRY Symmetry
INVARIANTS
    DelegatedInFlight

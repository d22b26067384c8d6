\* A client stopped by its deadline before it sent a request finds that all
\* threads finished successfully and has nothing to report: it divides by zero.
SPECIFICATION Spec
CONSTANTS
    Workers = {t1}
    Conns = {k1, k2}
    OwnerOf <- BothOnOne
    Requests = 1
    ReqLen = 2
    RespLen = 1
    SockBuf = 2
    MAX_EVENTS = 10
    ServerCloses = FALSE
    Faults = {}
    t1 = t1
    t2 = t2
    k1 = k1
    k2 = k2
    NULL = NULL
INVARIANTS
    StatsMeasured

\* Two workers behind a server that may close, every call of the start failing
\* or not, stopped by the deadline at any moment, in the middle of a request
\* too, or never: the workers find what the barrier publishes, the counts are
\* those of the wire, the epoll interest fits them, what was sent is answered
\* before a connection closes, and the client ends.
SPECIFICATION FairSpec
CONSTANTS
    Workers = {t1, t2}
    Conns = {k1, k2}
    OwnerOf <- OneEach
    Requests = 2
    ReqLen = 2
    RespLen = 2
    SockBuf = 2
    MAX_EVENTS = 10
    ServerCloses = TRUE
    Faults = {"connect", "thread", "epoll"}
    t1 = t1
    t2 = t2
    k1 = k1
    k2 = k2
    NULL = NULL
INVARIANTS
    TypeOK
    CountsMatchWire
    BarrierPublishes
    Armed
    StatsComplete
PROPERTIES
    Ends
    ImplementsService

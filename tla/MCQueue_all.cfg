\* A producer, two consumers and a thread that puts back what it got: the list
\* is well formed at every instant and a node has one owner, the queue
\* implements the abstract FIFO, and no node stays in it although a queue_get
\* may return NULL while it is there.
SPECIFICATION FairSpec
CONSTANTS
    Nodes   = {n1, n2, n3}
    Putters = {p1, a}
    Getters = {a, g1, g2}
    Divider = Divider
    NULL    = NULL
    POISON  = POISON
INVARIANTS
    TypeOK
    MutualExclusion
    ListIntact
    SingleOwner
    LocalsCurrent
PROPERTIES
    ImplementsFifo
    NodeDelivered

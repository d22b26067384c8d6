\* Server processes from the command line to the end, each stage of the set-up
\* failing or not, up to two SIGINTs at any moment and threads that log, fail,
\* block and return: threads run only on what exists, one signal stops the
\* server and a repeated one ends it.
SPECIFICATION FairSpec
CONSTANTS
    ArgLists <- Commands
    IntLimit = 134217728
    THREAD_GROUP_MAX = 2
    MaxSignals = 2
    MaxLogs = 1
    Faults = {"alloc", "bind", "epoll", "queues", "objects", "thread", "worker"}
    NULL = NULL
INVARIANTS
    TypeOK
    ParsedAsGiven
    UsesLive
    FirstSignalSafe
    FailureVisible
PROPERTIES
    SignalStops
    RepeatExits

----------------------------- MODULE Lifecycle ------------------------------
(***************************************************************************)
(* The life of a server process: main parses the command line, sets the    *)
(* server up stage by stage, waits for SIGINT, joins the threads in their  *)
(* groups and takes the server down.  Each stage of the set-up may fail,   *)
(* and the signal may arrive at any moment, also while a thread holds the  *)
(* spinlock of debug(), which the handler takes too.                       *)
(*                                                                         *)
(* What the threads do between start and return is in module Server: here  *)
(* they run, log, return when stopping is set or on an error, and accept   *)
(* threads may block in accept4.                                           *)
(*                                                                         *)
(* JoinOrderNoAccept, WantedOneMore, NullReturned, LogPointsLoop, FlagKept *)
(* and HandlerRepeatReturns are faulty variants of the definition after    *)
(* each, which no specification uses; each breaks a property below.        *)
(***************************************************************************)
EXTENDS Command

CONSTANTS
    THREAD_GROUP_MAX,  \* threads a thread_group_t holds
    MaxSignals,        \* bound: SIGINTs the process receives
    MaxLogs,           \* bound: messages logged by threads before they finish
    Faults             \* what may fail: a stage of the set-up, "thread", "worker"

ASSUME LifecycleAssumption ==
    /\ {THREAD_GROUP_MAX, MaxSignals, MaxLogs} \subseteq Nat
    /\ Faults \subseteq {"alloc", "bind", "epoll", "queues", "objects", "thread", "worker"}

VARIABLES
    main,      \* main's place in run_server, or how the process ended
    created,   \* create_server returned a server, not NULL
    ctx,       \* the server_context_t: "none", "live", "freed"
    stopping,  \* ctx->stopping
    held,      \* what the context holds: descriptors, queues, objects
    groups,    \* the thread groups stored in ctx->threads
    thread,    \* where each thread is
    joined,    \* threads that were joined, their thread_info_t freed
    installed, \* whether sigint_handler is the handler of SIGINT
    handler,   \* where each thread is in sigint_handler
    mutex,     \* who holds debug_mutex
    signals,   \* SIGINTs handled
    logs       \* messages logged by threads before they finish

process == <<main, created, ctx, stopping, held, groups, thread, joined,
             installed, handler, mutex, signals, logs>>
vars == <<parser, process>>

SpawnOrder == <<"compute", "submit", "io", "accept">>

JoinOrderNoAccept == <<"submit", "io", "compute">>
JoinOrder == <<"submit", "io", "accept", "compute">>

Threads == {SpawnOrder[i] : i \in 1 .. 4} \X (0 .. THREAD_GROUP_MAX - 1)
Main == <<"main", 0>>
Processes == {Main} \cup Threads

\* No thread is the owner of a free mutex.
ASSUME NullAssumption == NULL \notin Processes

Count(g) == CASE g = "compute" -> cfg["threads.compute"]
              [] g = "submit"  -> cfg["threads.submit"]
              [] g = "io"      -> cfg["threads.io"]
              [] g = "accept"  -> cfg["threads.accept"]

Started == {t \in Threads : thread[t] # "none"}
Running == {t \in Threads : thread[t] \in {"run", "blocked"}}

Ended == main \in {"usage", "client", "exited", "exited1", "crashed", "killed", "undefined"}

\* The process ends, and its threads with it.
Dies(how) ==
    /\ main' = how
    /\ thread' = [t \in Threads |-> "none"] /\ handler' = [p \in Processes |-> "none"]
    /\ mutex' = NULL
    /\ UNCHANGED <<created, ctx, stopping, held, groups, joined, installed, signals, logs>>

----------------------------------------------------------------------------
LifeInit ==
    /\ Init
    /\ main = "parse" /\ created = FALSE /\ ctx = "none" /\ stopping = FALSE
    /\ held = {} /\ groups = {} /\ joined = {}
    /\ thread = [t \in Threads |-> "none"]
    /\ installed = FALSE /\ handler = [p \in Processes |-> "none"]
    /\ mutex = NULL /\ signals = 0 /\ logs = 0

Goto(label) == main' = label

\* main: after the command line the client goes on as in module Client.
Parsed ==
    /\ main = "parse" /\ parsed # "parsing"
    /\ Goto(IF parsed = "invalid" THEN "usage"
            ELSE IF program = "client" THEN "client" ELSE "alloc")
    /\ UNCHANGED <<created, ctx, stopping, held, groups, thread, joined,
                   installed, handler, mutex, signals, logs>>

----------------------------------------------------------------------------
\* create_server

AllocCtx ==
    /\ main = "alloc"
    /\ \/ ctx' = "live" /\ Goto("bind")
       \/ "alloc" \in Faults /\ ctx' = ctx /\ Goto("install")
    /\ UNCHANGED <<created, stopping, held, groups, thread, joined,
                   installed, handler, mutex, signals, logs>>

\* bind_server_socket, setup_server_epoll, alloc_server_queues and
\* setup_server_prealloc: what each acquires, and the stage after it.
Stages == {"bind", "epoll", "queues", "objects"}
Acquired(stage) == IF stage = "queues" THEN {"pools", "inboxes"} ELSE {stage}
AfterStage == [bind |-> "epoll", epoll |-> "queues", queues |-> "objects", objects |-> "spawn"]

SetUp ==
    /\ main \in Stages
    /\ held' = held \cup Acquired(main)
    /\ Goto(AfterStage[main])
    /\ UNCHANGED <<created, ctx, stopping, groups, thread, joined,
                   installed, handler, mutex, signals, logs>>

\* destroy_server begins.
Destroy == stopping' = TRUE /\ Goto("join")

SetUpFail ==
    /\ main \in (Stages \ {"queues"}) \cap Faults
    /\ Destroy
    /\ UNCHANGED <<created, ctx, held, groups, thread, joined,
                   installed, handler, mutex, signals, logs>>

\* alloc_queue_root initialises what malloc gave it before anyone tests for NULL.
AllocQueueFail == main = "queues" /\ "queues" \in Faults /\ Dies("crashed")

\* spawn_server_threads: the group under way, and its threads so far and in all.
Spawning == SpawnOrder[Cardinality(groups) + 1]
Spawned  == Cardinality({t \in Started : t[1] = Spawning})
WantedOneMore == Count(Spawning) + 1
Wanted   == Count(Spawning)

SpawnThread ==
    /\ main = "spawn" /\ Spawned < Wanted /\ Spawned < THREAD_GROUP_MAX
    /\ thread' = [thread EXCEPT ![<<Spawning, Spawned>>] = "run"]
    /\ UNCHANGED <<main, created, ctx, stopping, held, groups, joined,
                   installed, handler, mutex, signals, logs>>

\* The next thread is stored beyond the end of thread_group_t.
SpawnOverrun ==
    /\ main = "spawn" /\ Spawned < Wanted /\ Spawned = THREAD_GROUP_MAX
    /\ Dies("undefined")

GroupMade ==
    /\ main = "spawn" /\ Spawned = Wanted
    /\ groups' = groups \cup {Spawning}
    /\ IF Spawning = "accept" THEN created' = TRUE /\ Goto("install")
                              ELSE UNCHANGED <<created, main>>
    /\ UNCHANGED <<ctx, stopping, held, thread, joined, installed, handler, mutex, signals, logs>>

\* thread_group_create fails: it frees the group, and its threads run on.
SpawnFail ==
    /\ "thread" \in Faults /\ main = "spawn" /\ Spawned < Wanted
    /\ Destroy
    /\ UNCHANGED <<created, ctx, held, groups, thread, joined,
                   installed, handler, mutex, signals, logs>>

----------------------------------------------------------------------------
\* run_server

Install ==
    /\ main = "install"
    /\ installed' = TRUE /\ Goto("loop")
    /\ UNCHANGED <<created, ctx, stopping, held, groups, thread, joined,
                   handler, mutex, signals, logs>>

\* while (!ctx->stopping) sleep(1): without a server ctx is NULL.
NullReturned == "exited"
NullRead == "crashed"

Loop ==
    /\ main = "loop" /\ mutex # Main
    /\ \/ ~created /\ Dies(NullRead)
       \/ /\ created /\ stopping /\ Destroy
          /\ UNCHANGED <<created, ctx, held, groups, thread, joined,
                         installed, handler, mutex, signals, logs>>

----------------------------------------------------------------------------
\* destroy_server

\* cleanup_server_threads joins group after group, thread after thread.
Place(t) == CHOOSE i \in DOMAIN JoinOrder : JoinOrder[i] = t[1]
ToJoin == {t \in Started \ joined : \E i \in DOMAIN JoinOrder : JoinOrder[i] = t[1]
                                                               /\ t[1] \in groups}
Before(t, u) == Place(t) < Place(u) \/ (Place(t) = Place(u) /\ t[2] < u[2])

Join ==
    /\ main = "join"
    /\ \E t \in ToJoin :
         /\ \A u \in ToJoin \ {t} : Before(t, u)
         /\ thread[t] = "returned"
         /\ joined' = joined \cup {t}
    /\ Goto("log")
    /\ UNCHANGED <<created, ctx, stopping, held, groups, thread,
                   installed, handler, mutex, signals, logs>>

\* debug() of main, at the end of thread_join.
LogPointsLoop == {"log", "loop"}
LogPoints == {"log"}

MainLog ==
    /\ main \in LogPoints /\ mutex = NULL
    /\ mutex' = Main
    /\ UNCHANGED <<main, created, ctx, stopping, held, groups, thread, joined,
                   installed, handler, signals, logs>>

MainLogged ==
    /\ mutex = Main
    /\ mutex' = NULL
    /\ Goto(IF main = "log" THEN "join" ELSE main)
    /\ UNCHANGED <<created, ctx, stopping, held, groups, thread, joined,
                   installed, handler, signals, logs>>

Joined ==
    /\ main = "join" /\ ToJoin = {}
    /\ Goto("free_objects")
    /\ UNCHANGED <<created, ctx, stopping, held, groups, thread, joined,
                   installed, handler, mutex, signals, logs>>

\* free_server_prealloc takes the objects from queues that may not exist.
FreeObjects ==
    /\ main = "free_objects"
    /\ \/ /\ "pools" \notin held /\ Dies("crashed")
       \/ /\ "pools" \in held
          /\ held' = held \ {"objects"} /\ Goto("free_queues")
          /\ UNCHANGED <<created, ctx, stopping, groups, thread, joined,
                         installed, handler, mutex, signals, logs>>

FreeQueues ==
    /\ main = "free_queues"
    /\ held' = held \ {"pools", "inboxes"} /\ Goto("close")
    /\ UNCHANGED <<created, ctx, stopping, groups, thread, joined,
                   installed, handler, mutex, signals, logs>>

\* cleanup_server_io closes epoll_fds[0] as often as there are IO threads, and
\* the listen socket: the other epolls stay open.
CloseIO ==
    /\ main = "close"
    /\ held' = held \ ({"bind"} \cup IF Count("io") > 1 THEN {} ELSE {"epoll"})
    /\ Goto("free_ctx")
    /\ UNCHANGED <<created, ctx, stopping, groups, thread, joined,
                   installed, handler, mutex, signals, logs>>

\* create_server returns NULL to run_server after it.
FreeCtx ==
    /\ main = "free_ctx"
    /\ ctx' = "freed" /\ Goto(IF created THEN "return" ELSE "install")
    /\ UNCHANGED <<created, stopping, held, groups, thread, joined,
                   installed, handler, mutex, signals, logs>>

Return == main = "return" /\ Dies("exited")

----------------------------------------------------------------------------
\* SIGINT

\* The kernel gives the signal to main unless main is in the handler, which
\* masks it; before the handler is installed the signal ends the process.
Taker(p) ==
    /\ handler[p] = "none"
    /\ \/ p = Main
       \/ p \in Threads /\ handler[Main] # "none" /\ thread[p] \notin {"none", "returned"}

Signal ==
    /\ ~Ended
    /\ \/ ~installed /\ Dies("killed")
       \/ /\ installed /\ signals < MaxSignals
          /\ \E p \in Processes : Taker(p) /\ handler' = [handler EXCEPT ![p] = "test"]
          /\ signals' = signals + 1
          /\ UNCHANGED <<main, created, ctx, stopping, held, groups, thread,
                         joined, installed, mutex, logs>>

\* if (!*stop).  A freed context may read as anything, and NULL faults.
HandlerTest(p) ==
    /\ handler[p] = "test"
    /\ \/ ~created /\ Dies("crashed")
       \/ /\ created
          /\ \E repeat \in IF ctx = "live" THEN {stopping} ELSE BOOLEAN :
               handler' = [handler EXCEPT ![p] = IF repeat THEN "repeat" ELSE "first"]
          /\ UNCHANGED <<main, created, ctx, stopping, held, groups, thread,
                         joined, installed, mutex, signals, logs>>

\* debug() in the handler is one step: nothing else of this thread can happen.
HandlerFirst(p) ==
    /\ handler[p] = "first" /\ mutex = NULL
    /\ handler' = [handler EXCEPT ![p] = "set"]
    /\ UNCHANGED <<main, created, ctx, stopping, held, groups, thread,
                   joined, installed, mutex, signals, logs>>

FlagKept == stopping
FlagSet == TRUE

HandlerSet(p) ==
    /\ handler[p] = "set"
    /\ stopping' = FlagSet
    /\ handler' = [handler EXCEPT ![p] = "none"]
    /\ UNCHANGED <<main, created, ctx, held, groups, thread, joined,
                   installed, mutex, signals, logs>>

HandlerRepeatReturns(p) ==
    /\ handler[p] = "repeat" /\ mutex = NULL
    /\ handler' = [handler EXCEPT ![p] = "none"]
    /\ UNCHANGED <<main, created, ctx, stopping, held, groups, thread, joined,
                   installed, mutex, signals, logs>>
HandlerRepeat(p) == handler[p] = "repeat" /\ mutex = NULL /\ Dies("exited1")

HandlerStep(p) == HandlerTest(p) \/ HandlerFirst(p) \/ HandlerSet(p) \/ HandlerRepeat(p)

----------------------------------------------------------------------------
\* thread_wrapper and the thread functions

ThreadGoto(t, label) ==
    /\ thread' = [thread EXCEPT ![t] = label]
    /\ UNCHANGED <<main, created, ctx, stopping, held, groups, joined,
                   installed, handler, signals>>

\* debug() of a thread that starts or runs, and the one when it has finished.
Log(t) ==
    /\ mutex = NULL /\ mutex' = t
    /\ \/ thread[t] = "done" /\ UNCHANGED logs
       \/ thread[t] = "run" /\ logs < MaxLogs /\ logs' = logs + 1
    /\ ThreadGoto(t, thread[t])

Logged(t) ==
    /\ mutex = t /\ mutex' = NULL
    /\ ThreadGoto(t, IF thread[t] = "done" THEN "returned" ELSE "run")
    /\ UNCHANGED logs

\* The loop of the thread function ends; a thread whose context is freed may
\* read anything there.
Stops(t) ==
    /\ thread[t] = "run" /\ mutex # t /\ (stopping \/ ctx = "freed")
    /\ ThreadGoto(t, "done") /\ UNCHANGED <<mutex, logs>>

\* epoll_wait, accept4 or epoll_ctl fails.
WorkerFails(t) ==
    /\ "worker" \in Faults /\ thread[t] = "run" /\ mutex # t /\ t[1] \in {"io", "accept"}
    /\ ThreadGoto(t, "done") /\ UNCHANGED <<mutex, logs>>

\* A thread left running uses queues or a context that destroy_server freed.
TouchesFreed(t) ==
    /\ thread[t] = "run" /\ mutex # t /\ (ctx = "freed" \/ "pools" \notin held)
    /\ Dies("crashed")

\* Two accept threads see one connection: the later one waits in accept4 for
\* another connection.
Blocks(t) ==
    /\ thread[t] = "run" /\ mutex # t /\ t[1] = "accept" /\ Count("accept") > 1
    /\ ThreadGoto(t, "blocked") /\ UNCHANGED <<mutex, logs>>

Unblocks(t) ==
    /\ thread[t] = "blocked"
    /\ ThreadGoto(t, "run") /\ UNCHANGED <<mutex, logs>>

ThreadStep(t) == /\ handler[t] = "none"
                 /\ \/ Log(t) \/ Logged(t) \/ Stops(t) \/ WorkerFails(t)
                    \/ TouchesFreed(t) \/ Blocks(t) \/ Unblocks(t)

----------------------------------------------------------------------------
MainStep ==
    /\ ~Ended /\ handler[Main] = "none"
    /\ \/ Parsed \/ AllocCtx \/ SetUp \/ SetUpFail \/ AllocQueueFail
       \/ SpawnThread \/ SpawnOverrun \/ GroupMade \/ SpawnFail \/ Install \/ Loop
       \/ Join \/ Joined \/ MainLog \/ MainLogged
       \/ FreeObjects \/ FreeQueues \/ CloseIO \/ FreeCtx \/ Return

\* The process has ended, or a thread waits for the lock that it holds itself.
Stuck(p) == handler[p] \in {"first", "repeat"} /\ mutex = p
Over == (Ended \/ \E p \in Processes : Stuck(p)) /\ UNCHANGED vars

Next ==
    \/ main = "parse" /\ Parse /\ UNCHANGED process
    \/ /\ \/ MainStep \/ Signal
          \/ \E t \in Threads : ThreadStep(t)
          \/ \E p \in Processes : HandlerStep(p)
       /\ UNCHANGED parser
    \/ Over

Spec == LifeInit /\ [][Next]_vars

\* Every thread keeps executing, and leaves its loop when it reads stopping.
\* Nothing makes a call fail, a signal or a connection arrive, or a thread log
\* while it runs.
Fairness ==
    /\ WF_vars(main = "parse" /\ Parse /\ UNCHANGED process)
    /\ WF_vars(MainStep /\ UNCHANGED parser)
    /\ \A p \in Processes : WF_vars(HandlerStep(p) /\ UNCHANGED parser)
    /\ \A t \in Threads : WF_vars(/\ handler[t] = "none"
                                 /\ \/ Logged(t) \/ Stops(t)
                                    \/ (thread[t] # "run" /\ Log(t))
                                 /\ UNCHANGED parser)

FairSpec == Spec /\ Fairness

----------------------------------------------------------------------------
\* Properties

(***************************************************************************)
(* The variables hold what the code's types say, a thread is one of those  *)
(* its group was asked for, and none is joined before it has returned.     *)
(***************************************************************************)
TypeOK ==
    /\ created \in BOOLEAN /\ stopping \in BOOLEAN /\ installed \in BOOLEAN
    /\ ctx \in {"none", "live", "freed"}
    /\ held \subseteq {"bind", "epoll", "pools", "inboxes", "objects"}
    /\ groups \subseteq {"compute", "submit", "io", "accept"}
    /\ \A t \in Threads :
         thread[t] \in {"none", "run", "blocked", "done", "returned"}
    /\ \A t \in Started : t[2] < Count(t[1])
    /\ ~Ended => joined \subseteq {t \in Threads : thread[t] = "returned"}
    /\ \A p \in Processes : handler[p] \in {"none", "test", "first", "set", "repeat"}
    /\ mutex \in Processes \cup {NULL}
    /\ signals \in 0 .. MaxSignals /\ logs \in 0 .. MaxLogs

(***************************************************************************)
(* A thread runs only while everything it uses exists: spawn_server_       *)
(* threads comes after every stage of the set-up, and destroy_server joins *)
(* every thread before it frees or closes anything.  (The threads of a     *)
(* group that thread_group_create gave up half way are the exception.)     *)
(***************************************************************************)
UsesLive ==
    \A t \in Running : main = "spawn" \/ t[1] \in groups =>
        /\ ctx = "live"
        /\ held = {"bind", "epoll", "pools", "inboxes", "objects"}

(***************************************************************************)
(* One SIGINT never deadlocks the process on debug_mutex: a handler that   *)
(* waits for the lock its own thread holds came with a repeated signal.    *)
(***************************************************************************)
FirstSignalSafe == \A p \in Processes : Stuck(p) => signals >= 2

(***************************************************************************)
(* A server that could not be set up never ends with status 0, although    *)
(* run_server does not look at what create_server returned: at whatever    *)
(* stage it failed, and whatever destroy_server found to take down.        *)
(***************************************************************************)
FailureVisible == main = "exited" => created

(***************************************************************************)
(* A SIGINT that the handler takes ends the process, unless an accept      *)
(* thread is blocked in accept4 or a repeated signal deadlocks.            *)
(***************************************************************************)
SignalStops ==
    (\E p \in Processes : handler[p] # "none") ~>
        \/ Ended \/ \E p \in Processes : Stuck(p)
        \/ \E t \in Threads : thread[t] = "blocked"

(***************************************************************************)
(* A repeated SIGINT ends the process whatever the threads do, blocked     *)
(* ones included ("got repead signal, exiting!", main.c:347), unless it    *)
(* deadlocks.                                                              *)
(***************************************************************************)
RepeatExits ==
    (\E p \in Processes : handler[p] = "repeat") ~>
        (Ended \/ \E p \in Processes : Stuck(p))
=============================================================================

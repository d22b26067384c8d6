-------------------------- MODULE LifecycleProofs ---------------------------
(***************************************************************************)
(* Proofs about Lifecycle for any command line, any capacity of a thread   *)
(* group and any number of signals and messages.  LifeInv ties where main  *)
(* is in create_server, run_server and destroy_server to what the context  *)
(* holds, to the threads that may still run, to the signals handled so far *)
(* and to the owner of debug_mutex.                                        *)
(***************************************************************************)
EXTENDS Lifecycle, CommandProofs, FiniteSetTheorems

Everything == {"bind", "epoll", "pools", "inboxes", "objects"}
HeldAt == [bind |-> {}, epoll |-> {"bind"}, queues |-> {"bind", "epoll"},
           objects |-> {"bind", "epoll", "pools", "inboxes"}]

Building  == {"parse", "alloc", "bind", "epoll", "queues", "objects"}
Joining   == {"join", "log"}
TakeDown  == {"free_objects", "free_queues", "close", "free_ctx", "return"}
EndStates == {"usage", "client", "exited", "exited1", "crashed", "killed", "undefined"}

GroupsMade == {{}, {"compute"}, {"compute", "submit"}, {"compute", "submit", "io"}}

\* Types, with the domains of the functions.
Typed ==
    /\ TypeOK
    /\ main \in Building \cup {"spawn", "install", "loop"} \cup Joining \cup TakeDown \cup EndStates
    /\ thread \in [Threads -> {"none", "run", "blocked", "done", "returned"}]
    /\ handler \in [Processes -> {"none", "test", "first", "set", "repeat"}]

\* Before create_server has set everything up and after the process has ended
\* no thread exists.
NoThreads ==
    main \in Building \cup EndStates =>
        /\ \A t \in Threads : thread[t] = "none"
        /\ \A p \in Processes : handler[p] = "none"
        /\ mutex = NULL

\* create_server acquires stage after stage, and starts threads last.
SetUpInOrder ==
    /\ main \in Building => groups = {}
    /\ main \in Building \cup {"spawn"} => joined = {} /\ ~created /\ ~stopping
    /\ main \in {"parse", "alloc"} => held = {} /\ ctx = "none"
    /\ main \in Stages => held = HeldAt[main] /\ ctx = "live"
    /\ main = "spawn" => groups \in GroupsMade /\ held = Everything /\ ctx = "live"

\* From then on until every thread is joined, a server with threads is whole.
ServerWhole ==
    main \in Joining \/ (main \in {"install", "loop"} /\ created) =>
        ctx = "live" /\ (groups # {} => held = Everything)

\* destroy_server frees nothing before it has joined the threads it knows.
JoinedFirst ==
    main \in TakeDown \/ (main \in {"install", "loop"} /\ ~created) =>
        \A t \in Started : t[1] \in groups => t \in joined

\* run_server goes on without a server only as far as its loop.
ServerCreated ==
    /\ main \in {"return", "exited"} => created
    /\ installed /\ ~created => main \in {"loop"} \cup EndStates

\* What the handlers that run and the flag they set say about the signals.
SignalsCounted ==
    /\ ~installed => signals = 0 /\ \A p \in Processes : handler[p] = "none"
    /\ handler[Main] # "none" => signals >= 1
    /\ \A t \in Threads : handler[t] # "none" => signals >= 2
    /\ created /\ stopping => signals >= 1
    /\ created /\ stopping /\ handler[Main] # "none" => signals >= 2
    /\ main \in Joining \cup TakeDown => stopping

\* Only a debug() under way owns the mutex.
MutexOwned ==
    /\ mutex = Main => main = "log"
    /\ \A t \in Threads : mutex = t => thread[t] \in {"run", "done"}

LifeInv == /\ Typed /\ NoThreads /\ SetUpInOrder /\ ServerWhole /\ JoinedFirst
           /\ ServerCreated /\ SignalsCounted /\ MutexOwned

----------------------------------------------------------------------------
\* A step that leaves the command line alone leaves the thread counts alone.
LEMMA CountFrame ==
    ASSUME UNCHANGED parser
    PROVE  \A g : Count(g)' = Count(g)
  BY DEF Count, parser

\* main is a thread of the process, and in no thread group.
LEMMA MainIsNoThread == Main \notin Threads
  <1>1. \A t \in Threads : t[1] \in {"compute", "submit", "io", "accept"}
    BY DEF Threads, SpawnOrder
  <1> QED
    BY <1>1 DEF Main

LEMMA InitInvariant == LifeInit => LifeInv
  <1> SUFFICES ASSUME LifeInit PROVE LifeInv
    OBVIOUS
  <1>1. \A t \in Threads : thread[t] = "none"
    BY DEF LifeInit
  <1>2. \A p \in Processes : handler[p] = "none"
    BY DEF LifeInit
  <1>3. Main \in Processes /\ Started = {} /\ MaxSignals \in Nat /\ MaxLogs \in Nat
    BY <1>1, LifecycleAssumption DEF Processes, Started
  <1>4. TypeOK
    <2>1. \A t \in Started : t[2] < Count(t[1])
      BY <1>3
    <2>2. \A t \in Threads : thread[t] \in {"none", "run", "blocked", "done", "returned"}
      BY <1>1
    <2>3. \A p \in Processes : handler[p] \in {"none", "test", "first", "set", "repeat"}
      BY <1>2
    <2>4. signals \in 0 .. MaxSignals /\ logs \in 0 .. MaxLogs /\ joined = {}
      BY <1>3 DEF LifeInit
    <2> QED
      BY <2>1, <2>2, <2>3, <2>4 DEF LifeInit, TypeOK
  <1>5. Typed
    BY <1>4 DEF LifeInit, Typed, Building
  <1> QED
    BY <1>1, <1>2, <1>3, <1>5, NullAssumption
    DEF LifeInit, LifeInv, NoThreads, SetUpInOrder, ServerWhole, JoinedFirst, ServerCreated,
        SignalsCounted, MutexOwned, Building, EndStates, Stages, Joining, TakeDown, Processes

LEMMA DiesInv ==
    ASSUME LifeInv, UNCHANGED parser, NEW how \in EndStates, how = "exited" => created, Dies(how)
    PROVE  LifeInv'
  <1>1. /\ \A t \in Threads : thread'[t] = "none"
        /\ \A p \in Processes : handler'[p] = "none"
        /\ mutex' = NULL /\ main' = how
    BY DEF Dies
  <1>2. Main \in Processes /\ Threads \subseteq Processes /\ Started' = {} /\ Ended'
    BY <1>1 DEF Processes, Started, Ended, EndStates
  <1>3. Typed'
    BY <1>1, <1>2 DEF Dies, LifeInv, Typed, TypeOK
  <1> QED
    BY <1>1, <1>2, <1>3, NullAssumption
    DEF Dies, LifeInv, NoThreads, SetUpInOrder, ServerWhole, JoinedFirst, ServerCreated,
        SignalsCounted, MutexOwned, Building, EndStates, Stages, Joining, TakeDown

----------------------------------------------------------------------------
\* Steps of main that touch neither threads nor signals keep the types.
LEMMA MainTyped ==
    ASSUME LifeInv, ~Ended,
           UNCHANGED <<parser, thread, handler, signals, logs>>,
           main' \in Building \cup {"spawn", "install", "loop"} \cup Joining \cup TakeDown
                     \cup EndStates,
           {created', stopping', installed'} \subseteq BOOLEAN, ctx' \in {"none", "live", "freed"},
           held' \subseteq Everything, groups' \subseteq {"compute", "submit", "io", "accept"},
           joined' \subseteq {t \in Threads : thread[t] = "returned"},
           mutex' \in Processes \cup {NULL}
    PROVE  Typed' /\ Started' = Started
  <1>1. Started' = Started
    BY DEF Started
  <1>2. \A t \in Started' : t[2] < Count(t[1])'
    BY <1>1, CountFrame DEF LifeInv, Typed, TypeOK
  <1>3. TypeOK'
    BY <1>2 DEF LifeInv, Typed, TypeOK, Everything
  <1> QED
    BY <1>1, <1>3 DEF LifeInv, Typed

LEMMA ParsedInv ==
    ASSUME LifeInv, ~Ended, UNCHANGED parser, Parsed
    PROVE  LifeInv'
  <1>1. main = "parse" /\ main' \in {"usage", "client", "alloc"}
    BY DEF Parsed, Goto
  <1>2. Typed' /\ Started' = Started
    BY <1>1, MainTyped DEF Parsed, LifeInv, Typed, TypeOK, Building, EndStates, Everything
  <1> QED
    BY <1>1, <1>2
    DEF Parsed, LifeInv, NoThreads, SetUpInOrder, ServerWhole, JoinedFirst, ServerCreated,
        SignalsCounted, MutexOwned, Building, EndStates, Stages, Joining, TakeDown, Started

LEMMA AllocCtxInv ==
    ASSUME LifeInv, ~Ended, UNCHANGED parser, AllocCtx
    PROVE  LifeInv'
  <1>1. main = "alloc" /\ ((main' = "bind" /\ ctx' = "live") \/ (main' = "install" /\ ctx' = ctx))
    BY DEF AllocCtx, Goto
  <1>2. Typed' /\ Started' = Started
    BY <1>1, MainTyped DEF AllocCtx, LifeInv, Typed, TypeOK, Building, Everything
  <1> QED
    BY <1>1, <1>2
    DEF AllocCtx, LifeInv, NoThreads, SetUpInOrder, ServerWhole, JoinedFirst, ServerCreated,
        SignalsCounted, MutexOwned, Building, EndStates, Stages, HeldAt, Joining, TakeDown, Started

LEMMA SetUpInv ==
    ASSUME LifeInv, ~Ended, UNCHANGED parser, SetUp
    PROVE  LifeInv'
  <1>1. /\ main \in Stages /\ main' = AfterStage[main] /\ held' = held \cup Acquired(main)
        /\ held = HeldAt[main] /\ ctx = "live"
    BY DEF SetUp, Goto, LifeInv, SetUpInOrder
  <1>2. \/ main = "bind" /\ main' = "epoll" /\ held' = HeldAt["epoll"]
        \/ main = "epoll" /\ main' = "queues" /\ held' = HeldAt["queues"]
        \/ main = "queues" /\ main' = "objects" /\ held' = HeldAt["objects"]
        \/ main = "objects" /\ main' = "spawn" /\ held' = Everything
    BY <1>1 DEF Stages, AfterStage, Acquired, HeldAt, Everything
  <1>3. Typed' /\ Started' = Started
    <2>1. held' \subseteq Everything
      BY <1>2 DEF HeldAt, Everything
    <2> QED
      BY <1>2, <2>1, MainTyped DEF SetUp, LifeInv, Typed, TypeOK, Building
  <1> QED
    BY <1>1, <1>2, <1>3
    DEF SetUp, LifeInv, NoThreads, SetUpInOrder, ServerWhole, JoinedFirst, ServerCreated,
        SignalsCounted, MutexOwned, Building, EndStates, Stages, GroupsMade, Joining, TakeDown

LEMMA SetUpFailInv ==
    ASSUME LifeInv, ~Ended, UNCHANGED parser, SetUpFail
    PROVE  LifeInv'
  <1>1. /\ main \in Stages /\ main' = "join" /\ stopping' = TRUE /\ held' \subseteq Everything
    BY DEF SetUpFail, Destroy, Goto, LifeInv, Typed, TypeOK, Everything
  <1>2. Typed' /\ Started' = Started
    BY <1>1, MainTyped DEF SetUpFail, LifeInv, Typed, TypeOK, Joining
  <1> QED
    BY <1>1, <1>2
    DEF SetUpFail, LifeInv, NoThreads, SetUpInOrder, ServerWhole, JoinedFirst, ServerCreated,
        SignalsCounted, MutexOwned, Building, EndStates, Stages, Joining, TakeDown

----------------------------------------------------------------------------
\* spawn_server_threads

LEMMA SpawningIs ==
    ASSUME groups \in GroupsMade
    PROVE  /\ Spawning \in {"compute", "submit", "io", "accept"}
           /\ Spawning # "accept" => groups \cup {Spawning} \in GroupsMade
  <1> DEFINE c == "compute"  s == "submit"  i == "io"
  <1>1. Cardinality({}) = 0 /\ IsFiniteSet({})
    BY FS_EmptySet
  <1>2. Cardinality({c}) = 1 /\ IsFiniteSet({c})
    BY FS_Singleton
  <1>3. Cardinality({c, s}) = 2 /\ IsFiniteSet({c, s})
    <2>1. {c, s} = {c} \cup {s} /\ s \notin {c}
      OBVIOUS
    <2> QED
      BY <1>2, <2>1, FS_AddElement
  <1>4. Cardinality({c, s, i}) = 3
    <2>1. {c, s, i} = {c, s} \cup {i} /\ i \notin {c, s}
      OBVIOUS
    <2> QED
      BY <1>3, <2>1, FS_AddElement
  <1>5. CASE groups = {}
    BY <1>1, <1>5 DEF Spawning, SpawnOrder, GroupsMade
  <1>6. CASE groups = {c}
    BY <1>2, <1>6 DEF Spawning, SpawnOrder, GroupsMade
  <1>7. CASE groups = {c, s}
    BY <1>3, <1>7 DEF Spawning, SpawnOrder, GroupsMade
  <1>8. CASE groups = {c, s, i}
    BY <1>4, <1>8 DEF Spawning, SpawnOrder, GroupsMade
  <1> QED
    BY <1>5, <1>6, <1>7, <1>8 DEF GroupsMade

LEMMA SpawnThreadInv ==
    ASSUME LifeInv, ~Ended, UNCHANGED parser, SpawnThread
    PROVE  LifeInv'
  <1> DEFINE new == <<Spawning, Spawned>>
  <1>1. main = "spawn" /\ Spawned < Count(Spawning) /\ thread' = [thread EXCEPT ![new] = "run"]
    BY DEF SpawnThread, Wanted
  <1>2. \A t \in Threads : thread'[t] = IF t = new THEN "run" ELSE thread[t]
    BY <1>1 DEF LifeInv, Typed
  <1>3. joined' = {} /\ groups' = groups
    BY <1>1 DEF SpawnThread, LifeInv, SetUpInOrder
  <1>4. \A t \in Started' : t[2] < Count(t[1])'
    <2> SUFFICES ASSUME NEW t \in Started' PROVE t[2] < Count(t[1])
      BY CountFrame
    <2>1. CASE t = new
      BY <1>1, <2>1
    <2>2. CASE t # new
      BY <1>2, <2>2 DEF Started, LifeInv, Typed, TypeOK
    <2> QED
      BY <2>1, <2>2
  <1>5. Typed'
    BY <1>1, <1>2, <1>3, <1>4 DEF SpawnThread, LifeInv, Typed, TypeOK
  <1>6. MutexOwned'
    BY <1>2 DEF SpawnThread, LifeInv, MutexOwned
  <1> QED
    BY <1>1, <1>3, <1>5, <1>6
    DEF SpawnThread, LifeInv, NoThreads, SetUpInOrder, ServerWhole, JoinedFirst, ServerCreated,
        SignalsCounted, Building, EndStates, Stages, Joining, TakeDown

LEMMA GroupMadeInv ==
    ASSUME LifeInv, ~Ended, UNCHANGED parser, GroupMade
    PROVE  LifeInv'
  <1>1. /\ main = "spawn" /\ groups' = groups \cup {Spawning} /\ groups \in GroupsMade
        /\ Spawning \in {"compute", "submit", "io", "accept"}
        /\ \/ main' = "install" /\ created' = TRUE
           \/ main' = "spawn" /\ created' = created /\ groups' \in GroupsMade
    BY SpawningIs DEF GroupMade, Goto, LifeInv, SetUpInOrder
  <1>2. Typed' /\ Started' = Started
    BY <1>1, MainTyped DEF GroupMade, LifeInv, Typed, TypeOK, Everything
  <1> QED
    BY <1>1, <1>2
    DEF GroupMade, LifeInv, NoThreads, SetUpInOrder, ServerWhole, JoinedFirst, ServerCreated,
        SignalsCounted, MutexOwned, Building, EndStates, Stages, Joining, TakeDown

LEMMA SpawnFailInv ==
    ASSUME LifeInv, ~Ended, UNCHANGED parser, SpawnFail
    PROVE  LifeInv'
  <1>1. main = "spawn" /\ main' = "join" /\ stopping' = TRUE
    BY DEF SpawnFail, Destroy, Goto
  <1>2. Typed' /\ Started' = Started
    BY <1>1, MainTyped DEF SpawnFail, LifeInv, Typed, TypeOK, Joining, Everything
  <1> QED
    BY <1>1, <1>2
    DEF SpawnFail, LifeInv, NoThreads, SetUpInOrder, ServerWhole, JoinedFirst, ServerCreated,
        SignalsCounted, MutexOwned, Building, EndStates, Stages, Joining, TakeDown

----------------------------------------------------------------------------
\* run_server and destroy_server

LEMMA InstallInv ==
    ASSUME LifeInv, ~Ended, UNCHANGED parser, Install
    PROVE  LifeInv'
  <1>1. main = "install" /\ main' = "loop" /\ installed' = TRUE
    BY DEF Install, Goto
  <1>2. Typed' /\ Started' = Started
    BY <1>1, MainTyped DEF Install, LifeInv, Typed, TypeOK, Everything
  <1> QED
    BY <1>1, <1>2
    DEF Install, LifeInv, NoThreads, SetUpInOrder, ServerWhole, JoinedFirst, ServerCreated,
        SignalsCounted, MutexOwned, Building, EndStates, Stages, Joining, TakeDown

LEMMA LoopInv ==
    ASSUME LifeInv, ~Ended, UNCHANGED parser, Loop
    PROVE  LifeInv'
  <1>1. CASE Dies(NullRead)
    BY <1>1, DiesInv DEF NullRead, EndStates
  <1>2. CASE ~Dies(NullRead)
    <2>1. /\ main = "loop" /\ created /\ stopping /\ main' = "join" /\ stopping' = TRUE
          /\ UNCHANGED <<created, ctx, held, groups, thread, joined, installed, handler, mutex,
                         signals, logs>>
      BY <1>2 DEF Loop, Destroy, Goto
    <2>2. Typed' /\ Started' = Started
      BY <2>1, MainTyped DEF LifeInv, Typed, TypeOK, Joining, Everything
    <2> QED
      BY <2>1, <2>2
      DEF LifeInv, NoThreads, SetUpInOrder, ServerWhole, JoinedFirst, ServerCreated,
          SignalsCounted, MutexOwned, Building, EndStates, Stages, Joining, TakeDown
  <1> QED
    BY <1>1, <1>2

LEMMA JoinInv ==
    ASSUME LifeInv, ~Ended, UNCHANGED parser, Join
    PROVE  LifeInv'
  <1>1. PICK t \in Threads : thread[t] = "returned" /\ joined' = joined \cup {t}
    BY DEF Join, ToJoin, Started
  <1>2. main = "join" /\ main' = "log" /\ joined \subseteq joined'
    BY <1>1 DEF Join, Goto
  <1>3. Typed' /\ Started' = Started
    BY <1>1, <1>2, MainTyped DEF Join, LifeInv, Typed, TypeOK, Joining, Everything
  <1> QED
    BY <1>2, <1>3
    DEF Join, LifeInv, NoThreads, SetUpInOrder, ServerWhole, JoinedFirst, ServerCreated,
        SignalsCounted, MutexOwned, Building, EndStates, Stages, Joining, TakeDown

LEMMA MainLogInv ==
    ASSUME LifeInv, ~Ended, UNCHANGED parser, MainLog \/ MainLogged
    PROVE  LifeInv'
  <1>1. /\ main = "log" /\ main' \in Joining /\ mutex' \in {Main, NULL}
        /\ mutex' = Main => main' = "log"
    BY NullAssumption DEF MainLog, MainLogged, LogPoints, Goto, LifeInv, MutexOwned, Joining, Processes
  <1>2. UNCHANGED <<created, ctx, stopping, held, groups, thread, joined, installed, handler,
                    signals, logs>>
    BY DEF MainLog, MainLogged
  <1>3. Typed' /\ Started' = Started
    BY <1>1, <1>2, MainTyped DEF LifeInv, Typed, TypeOK, Processes, Everything
  <1>4. \A t \in Threads : mutex' # t
    <2>1. Main \notin Threads /\ NULL \notin Threads
      BY MainIsNoThread, NullAssumption DEF Processes
    <2> QED
      BY <1>1, <2>1
  <1> QED
    BY <1>1, <1>2, <1>3, <1>4
    DEF LifeInv, NoThreads, SetUpInOrder, ServerWhole, JoinedFirst, ServerCreated,
        SignalsCounted, MutexOwned, Building, EndStates, Stages, Joining, TakeDown

\* cleanup_server_threads returns when no thread of a stored group is left.
LEMMA JoinedInv ==
    ASSUME LifeInv, ~Ended, UNCHANGED parser, Joined
    PROVE  LifeInv'
  <1>1. main = "join" /\ main' = "free_objects"
    BY DEF Joined, Goto
  <1>2. Typed' /\ Started' = Started
    BY <1>1, MainTyped DEF Joined, LifeInv, Typed, TypeOK, TakeDown, Everything
  <1>3. \A t \in Threads : \E i \in DOMAIN JoinOrder : JoinOrder[i] = t[1]
    <2> SUFFICES ASSUME NEW t \in Threads PROVE \E i \in 1 .. 4 : JoinOrder[i] = t[1]
      BY DEF JoinOrder
    <2>1. t[1] \in {"compute", "submit", "io", "accept"}
      BY DEF Threads, SpawnOrder
    <2> QED
      BY <2>1 DEF JoinOrder
  <1>4. \A t \in Started : t[1] \in groups => t \in joined
    BY <1>3 DEF Joined, ToJoin, Started
  <1> QED
    BY <1>1, <1>2, <1>4
    DEF Joined, LifeInv, NoThreads, SetUpInOrder, ServerWhole, JoinedFirst, ServerCreated,
        SignalsCounted, MutexOwned, Building, EndStates, Stages, Joining, TakeDown

LEMMA FreeObjectsInv ==
    ASSUME LifeInv, ~Ended, UNCHANGED parser, FreeObjects
    PROVE  LifeInv'
  <1>1. CASE Dies("crashed")
    BY <1>1, DiesInv DEF EndStates
  <1>2. CASE ~Dies("crashed")
    <2>1. /\ main = "free_objects" /\ main' = "free_queues" /\ held' \subseteq held
          /\ UNCHANGED <<created, ctx, stopping, groups, thread, joined, installed, handler,
                         mutex, signals, logs>>
      BY <1>2 DEF FreeObjects, Goto
    <2>2. Typed' /\ Started' = Started
      BY <2>1, MainTyped DEF LifeInv, Typed, TypeOK, TakeDown, Everything
    <2> QED
      BY <2>1, <2>2
      DEF LifeInv, NoThreads, SetUpInOrder, ServerWhole, JoinedFirst, ServerCreated,
          SignalsCounted, MutexOwned, Building, EndStates, Stages, Joining, TakeDown
  <1> QED
    BY <1>1, <1>2

LEMMA FreeQueuesInv ==
    ASSUME LifeInv, ~Ended, UNCHANGED parser, FreeQueues \/ CloseIO
    PROVE  LifeInv'
  <1>1. /\ main \in {"free_queues", "close"} /\ main' \in {"close", "free_ctx"}
        /\ held' \subseteq held
        /\ UNCHANGED <<created, ctx, stopping, groups, thread, joined, installed, handler,
                       mutex, signals, logs>>
    BY DEF FreeQueues, CloseIO, Goto
  <1>2. Typed' /\ Started' = Started
    BY <1>1, MainTyped DEF LifeInv, Typed, TypeOK, TakeDown, Everything
  <1> QED
    BY <1>1, <1>2
    DEF LifeInv, NoThreads, SetUpInOrder, ServerWhole, JoinedFirst, ServerCreated,
        SignalsCounted, MutexOwned, Building, EndStates, Stages, Joining, TakeDown

LEMMA FreeCtxInv ==
    ASSUME LifeInv, ~Ended, UNCHANGED parser, FreeCtx
    PROVE  LifeInv'
  <1>1. /\ main = "free_ctx" /\ ctx' = "freed"
        /\ \/ created /\ main' = "return"
           \/ ~created /\ main' = "install"
    BY DEF FreeCtx, Goto
  <1>2. Typed' /\ Started' = Started
    BY <1>1, MainTyped DEF FreeCtx, LifeInv, Typed, TypeOK, TakeDown, Everything
  <1> QED
    BY <1>1, <1>2
    DEF FreeCtx, LifeInv, NoThreads, SetUpInOrder, ServerWhole, JoinedFirst, ServerCreated,
        SignalsCounted, MutexOwned, Building, EndStates, Stages, Joining, TakeDown

LEMMA MainInv ==
    ASSUME LifeInv, UNCHANGED parser, MainStep
    PROVE  LifeInv'
  <1>1. ~Ended
    BY DEF MainStep
  <1>2. CASE SpawnOverrun
    BY <1>2, DiesInv DEF SpawnOverrun, EndStates
  <1>3. CASE Return
    BY <1>3, DiesInv DEF Return, EndStates, LifeInv, ServerCreated
  <1>4. CASE AllocQueueFail
    BY <1>4, DiesInv DEF AllocQueueFail, EndStates
  <1> QED
    BY <1>1, <1>2, <1>3, <1>4, ParsedInv, AllocCtxInv, SetUpInv, SetUpFailInv, SpawnThreadInv,
       GroupMadeInv, SpawnFailInv, InstallInv, LoopInv, JoinInv, MainLogInv, JoinedInv,
       FreeObjectsInv, FreeQueuesInv, FreeCtxInv
    DEF MainStep

----------------------------------------------------------------------------
\* SIGINT

\* Steps of a handler or a thread that leave main where it is keep what main did.
LEMMA ElsewhereInv ==
    ASSUME LifeInv, UNCHANGED <<parser, main, created, ctx, held, groups, joined, installed>>,
           stopping' \in {stopping, TRUE}, main \in Building \cup {"spawn"} => stopping' = stopping,
           \A t \in Threads : thread[t] = "none" => thread'[t] = "none",
           \A t \in Threads : thread[t] = "returned" => thread'[t] = "returned"
    PROVE  SetUpInOrder' /\ ServerWhole' /\ JoinedFirst' /\ ServerCreated'
  <1>1. Started' \subseteq Started
    BY DEF Started
  <1> QED
    BY <1>1 DEF LifeInv, SetUpInOrder, ServerWhole, JoinedFirst, ServerCreated, Building, Stages

LEMMA SignalInv ==
    ASSUME LifeInv, UNCHANGED parser, Signal
    PROVE  LifeInv'
  <1>1. CASE Dies("killed")
    BY <1>1, DiesInv DEF EndStates
  <1>2. CASE ~Dies("killed")
    <2>1. PICK p \in Processes : Taker(p) /\ handler' = [handler EXCEPT ![p] = "test"]
      BY <1>2 DEF Signal
    <2>2. /\ ~Ended /\ installed /\ signals < MaxSignals /\ signals' = signals + 1
          /\ UNCHANGED <<main, created, ctx, stopping, held, groups, thread, joined, installed,
                         mutex, logs>>
      BY <1>2 DEF Signal
    <2>3. Main \in Processes /\ Threads \subseteq Processes /\ Main \notin Threads
      BY MainIsNoThread DEF Processes
    <2>4. /\ \A r \in Processes : handler'[r] = IF r = p THEN "test" ELSE handler[r]
          /\ MaxSignals \in Nat /\ signals \in Nat
      BY <2>1, LifecycleAssumption DEF LifeInv, Typed, TypeOK
    <2>5. Started' = Started /\ Ended' = Ended /\ \A g : Count(g)' = Count(g)
      BY <2>2, CountFrame DEF Started, Ended
    <2>6. TypeOK'
      BY <2>2, <2>4, <2>5 DEF LifeInv, Typed, TypeOK
    <2>7. Typed'
      BY <2>1, <2>2, <2>6 DEF LifeInv, Typed
    <2>8. NoThreads' /\ MutexOwned'
      BY <2>2, <2>4 DEF LifeInv, NoThreads, MutexOwned, ServerCreated, SetUpInOrder, Building,
         EndStates, Ended
    <2>9. SignalsCounted'
      BY <2>1, <2>2, <2>3, <2>4 DEF Taker, LifeInv, SignalsCounted
    <2> QED
      BY <2>2, <2>7, <2>8, <2>9, ElsewhereInv DEF LifeInv
  <1> QED
    BY <1>1, <1>2

\* A step of the handler in p, to the place at.
LEMMA HandlerMoves ==
    ASSUME LifeInv, UNCHANGED parser, NEW p \in Processes, ~Ended,
           NEW at \in {"none", "first", "set", "repeat"},
           handler[p] # "none", handler' = [handler EXCEPT ![p] = at],
           stopping' \in {stopping, TRUE}, stopping' # stopping => at = "none",
           UNCHANGED <<main, created, ctx, held, groups, thread, joined, installed, mutex,
                       signals, logs>>
    PROVE  LifeInv'
  <1>1. \A r \in Processes : handler'[r] = IF r = p THEN at ELSE handler[r]
    BY DEF LifeInv, Typed
  <1>2. Started' = Started /\ Ended' = Ended /\ \A g : Count(g)' = Count(g)
    BY CountFrame DEF Started, Ended
  <1>3. installed /\ main \notin Building \cup {"spawn"} \cup EndStates
    BY DEF LifeInv, SignalsCounted, ServerCreated, SetUpInOrder, Building, EndStates, Ended
  <1>4. Typed'
    <2>1. TypeOK'
      BY <1>1, <1>2 DEF LifeInv, Typed, TypeOK
    <2> QED
      BY <2>1 DEF LifeInv, Typed
  <1>5. NoThreads' /\ MutexOwned'
    BY <1>3 DEF LifeInv, NoThreads, MutexOwned
  <1>6. SignalsCounted'
    <2>1. Main \in Processes /\ Threads \subseteq Processes /\ Main \notin Threads
      BY MainIsNoThread DEF Processes
    <2>2. signals \in Nat
      BY LifecycleAssumption DEF LifeInv, Typed, TypeOK
    <2>3. p = Main => signals >= 1
      BY DEF LifeInv, SignalsCounted
    <2>4. p # Main => signals >= 2
      BY <2>1 DEF LifeInv, SignalsCounted, Processes
    <2>5. CASE p = Main
      BY <1>1, <1>3, <2>1, <2>2, <2>3, <2>5 DEF LifeInv, SignalsCounted
    <2>6. CASE p # Main
      <3>1. signals' >= 1 /\ signals' >= 2 /\ installed'
        BY <1>3, <2>2, <2>4, <2>6
      <3>2. main' \in Joining \cup TakeDown => stopping'
        BY DEF LifeInv, SignalsCounted
      <3> QED
        BY <3>1, <3>2 DEF SignalsCounted
    <2> QED
      BY <2>5, <2>6
  <1> QED
    BY <1>3, <1>4, <1>5, <1>6, ElsewhereInv DEF LifeInv

LEMMA HandlerInv ==
    ASSUME LifeInv, UNCHANGED parser, NEW p \in Processes, HandlerStep(p)
    PROVE  LifeInv'
  <1>1. ~Ended
    <2>1. handler[p] # "none"
      BY DEF HandlerStep, HandlerTest, HandlerFirst, HandlerSet, HandlerRepeat
    <2> QED
      BY <2>1 DEF LifeInv, NoThreads, EndStates, Ended
  <1>2. CASE \E how \in {"crashed", "exited1"} : Dies(how)
    BY <1>2, DiesInv DEF EndStates
  <1>3. CASE HandlerTest(p) /\ ~Dies("crashed")
    <2>1. PICK at \in {"repeat", "first"} : handler' = [handler EXCEPT ![p] = at]
      BY <1>3 DEF HandlerTest
    <2> QED
      BY <1>1, <1>3, <2>1, HandlerMoves DEF HandlerTest
  <1>4. CASE HandlerFirst(p)
    BY <1>1, <1>4, HandlerMoves DEF HandlerFirst
  <1>5. CASE HandlerSet(p)
    BY <1>1, <1>5, HandlerMoves DEF HandlerSet, FlagSet
  <1> QED
    BY <1>2, <1>3, <1>4, <1>5 DEF HandlerStep, HandlerRepeat

----------------------------------------------------------------------------
\* The threads

\* A thread goes to the place at, and takes, keeps or gives back the mutex.
LEMMA ThreadMoves ==
    ASSUME LifeInv, UNCHANGED parser, NEW t \in Threads,
           NEW at \in {"run", "blocked", "done", "returned"}, ThreadGoto(t, at),
           thread[t] \notin {"none", "returned"},
           logs' \in 0 .. MaxLogs,
           \/ mutex' = mutex /\ (mutex = t => at \in {"run", "done"})
           \/ mutex' = NULL
           \/ mutex' = t /\ at \in {"run", "done"}
    PROVE  LifeInv'
  <1>1. \A u \in Threads : thread'[u] = IF u = t THEN at ELSE thread[u]
    BY DEF ThreadGoto, LifeInv, Typed
  <1>2. Started' = Started /\ Ended' = Ended /\ \A g : Count(g)' = Count(g)
    BY <1>1, CountFrame DEF Started, Ended, ThreadGoto
  <1>3. main \notin Building \cup EndStates /\ ~Ended
    BY DEF LifeInv, NoThreads, EndStates, Ended
  <1>4. Typed'
    <2>1. joined' \subseteq {u \in Threads : thread'[u] = "returned"}
      BY <1>1, <1>3 DEF ThreadGoto, LifeInv, Typed, TypeOK
    <2>2. mutex' \in Processes \cup {NULL}
      BY DEF LifeInv, Typed, TypeOK, Processes
    <2>3. \A u \in Threads : thread'[u] \in {"none", "run", "blocked", "done", "returned"}
      BY <1>1 DEF LifeInv, Typed, TypeOK
    <2>4. TypeOK'
      BY <1>2, <2>1, <2>2, <2>3 DEF ThreadGoto, LifeInv, Typed, TypeOK
    <2> QED
      BY <1>3, <2>4 DEF ThreadGoto, LifeInv, Typed
  <1>5. NoThreads' /\ SignalsCounted'
    BY <1>3 DEF ThreadGoto, LifeInv, NoThreads, SignalsCounted
  <1>6. MutexOwned'
    <2>1. mutex' = Main => mutex = Main /\ main' = main
      BY MainIsNoThread, NullAssumption DEF ThreadGoto, Processes
    <2>2. ASSUME NEW u \in Threads, mutex' = u PROVE thread'[u] \in {"run", "done"}
      <3>1. u # NULL
        BY NullAssumption DEF Processes
      <3>2. CASE u = t
        BY <1>1, <2>2, <3>1, <3>2 DEF ThreadGoto
      <3>3. CASE u # t
        BY <1>1, <2>2, <3>1, <3>3 DEF LifeInv, MutexOwned
      <3> QED
        BY <3>2, <3>3
    <2> QED
      BY <2>1, <2>2 DEF LifeInv, MutexOwned
  <1> QED
    BY <1>1, <1>4, <1>5, <1>6, ElsewhereInv DEF LifeInv, ThreadGoto

LEMMA ThreadInv ==
    ASSUME LifeInv, UNCHANGED parser, NEW t \in Threads, ThreadStep(t)
    PROVE  LifeInv'
  <1>1. /\ logs \in 0 .. MaxLogs /\ MaxLogs \in Nat
        /\ mutex = t => thread[t] \in {"run", "done"} /\ mutex # NULL
    BY LifecycleAssumption, NullAssumption DEF LifeInv, Typed, TypeOK, MutexOwned, Processes
  <1>2. CASE Log(t)
    <2>1. thread[t] \in {"run", "done"} /\ mutex' = t /\ logs' \in 0 .. MaxLogs
          /\ ThreadGoto(t, thread[t])
      BY <1>1, <1>2 DEF Log
    <2> QED
      BY <2>1, ThreadMoves
  <1>3. CASE Logged(t)
    BY <1>1, <1>3, ThreadMoves DEF Logged
  <1>4. CASE Stops(t) \/ WorkerFails(t) \/ Blocks(t)
    BY <1>1, <1>4, ThreadMoves DEF Stops, WorkerFails, Blocks
  <1>5. CASE Unblocks(t)
    BY <1>1, <1>5, ThreadMoves DEF Unblocks
  <1>6. CASE TouchesFreed(t)
    BY <1>6, DiesInv DEF TouchesFreed, EndStates
  <1> QED
    BY <1>2, <1>3, <1>4, <1>5, <1>6 DEF ThreadStep

----------------------------------------------------------------------------
\* Parsing the command line happens before anything else.
LEMMA ParseInv ==
    ASSUME LifeInv, main = "parse", UNCHANGED process
    PROVE  LifeInv'
  <1>1. UNCHANGED <<main, created, ctx, stopping, held, groups, thread, joined, installed,
                    handler, mutex, signals, logs>>
    BY DEF process
  <1>2. Started' = {} /\ Started = {} /\ Ended' = Ended
    BY <1>1 DEF LifeInv, NoThreads, Building, Started, Ended
  <1>3. Typed'
    <2>1. TypeOK'
      BY <1>1, <1>2 DEF LifeInv, Typed, TypeOK
    <2> QED
      BY <1>1, <2>1 DEF LifeInv, Typed
  <1> QED
    BY <1>1, <1>2, <1>3
    DEF LifeInv, NoThreads, SetUpInOrder, ServerWhole, JoinedFirst, ServerCreated,
        SignalsCounted, MutexOwned

LEMMA NextInvariant == LifeInv /\ [Next]_vars => LifeInv'
  <1> SUFFICES ASSUME LifeInv, [Next]_vars PROVE LifeInv'
    OBVIOUS
  <1>1. CASE UNCHANGED vars
    <2>1. /\ UNCHANGED <<main, created, ctx, stopping, held, groups, thread, joined, installed,
                         handler, mutex, signals, logs>>
          /\ UNCHANGED parser
      BY <1>1 DEF vars, process
    <2>2. Started' = Started /\ Ended' = Ended /\ \A g : Count(g)' = Count(g)
      BY <2>1, CountFrame DEF Started, Ended
    <2>3. Typed'
      <3>1. TypeOK'
        BY <2>1, <2>2 DEF LifeInv, Typed, TypeOK
      <3> QED
        BY <2>1, <3>1 DEF LifeInv, Typed
    <2> QED
      BY <2>1, <2>2, <2>3
      DEF LifeInv, NoThreads, SetUpInOrder, ServerWhole, JoinedFirst, ServerCreated,
          SignalsCounted, MutexOwned
  <1> QED
    BY <1>1, ParseInv, MainInv, SignalInv, ThreadInv, HandlerInv DEF Next, Over

(***************************************************************************)
(* The inductive invariant of the server process, from the command line to *)
(* its end, whatever fails and whenever SIGINT arrives.                    *)
(***************************************************************************)
THEOREM LifecycleInvariant == Spec => []LifeInv
  BY InitInvariant, NextInvariant, PTL DEF Spec

(***************************************************************************)
(* Types; a group has no thread beyond its parameter, and thread_join      *)
(* returns only for a thread that has.                                     *)
(***************************************************************************)
THEOREM LifecycleTypeOK == Spec => []TypeOK
  BY LifecycleInvariant, PTL DEF LifeInv, Typed

(***************************************************************************)
(* destroy_server frees nothing under a running thread of its groups: what *)
(* run_server built is whole until cleanup_server_threads is through.      *)
(***************************************************************************)
THEOREM LifecycleUsesLive == Spec => []UsesLive
  <1>1. LifeInv => UsesLive
    <2> SUFFICES ASSUME LifeInv, NEW t \in Running, main = "spawn" \/ t[1] \in groups
                 PROVE  ctx = "live" /\ held = Everything
      BY DEF UsesLive, Everything
    <2>1. t \in Threads /\ t \in Started /\ main \notin Building \cup EndStates /\ ~Ended
      BY DEF Running, Started, LifeInv, NoThreads, EndStates, Ended
    <2>2. t \notin joined
      BY <2>1 DEF Running, LifeInv, Typed, TypeOK
    <2>3. CASE main = "spawn"
      BY <2>3 DEF LifeInv, SetUpInOrder
    <2>4. CASE main # "spawn"
      <3>1. main \in {"install", "loop"} \cup Joining \cup TakeDown /\ t[1] \in groups
        BY <2>1, <2>4 DEF LifeInv, Typed
      <3>2. main \notin TakeDown /\ (main \in {"install", "loop"} => created)
        BY <2>1, <2>2, <3>1 DEF LifeInv, JoinedFirst
      <3> QED
        BY <3>1, <3>2 DEF LifeInv, ServerWhole
    <2> QED
      BY <2>3, <2>4
  <1> QED
    BY <1>1, LifecycleInvariant, PTL

(***************************************************************************)
(* sigint_handler waits for a mutex of its own thread only when it handles *)
(* a repeated signal: one SIGINT never deadlocks the server in debug().    *)
(***************************************************************************)
THEOREM LifecycleFirstSignalSafe == Spec => []FirstSignalSafe
  <1>1. LifeInv => FirstSignalSafe
    <2> SUFFICES ASSUME LifeInv, NEW p \in Processes, Stuck(p) PROVE signals >= 2
      BY DEF FirstSignalSafe
    <2>1. handler[p] # "none" /\ mutex = p
      BY DEF Stuck
    <2>2. CASE p \in Threads
      BY <2>1, <2>2 DEF LifeInv, SignalsCounted
    <2>3. CASE p = Main
      <3>1. main = "log" /\ stopping
        BY <2>1, <2>3 DEF LifeInv, MutexOwned, SignalsCounted, Joining
      <3>2. installed /\ created
        BY <2>1, <3>1 DEF LifeInv, SignalsCounted, ServerCreated, EndStates
      <3> QED
        BY <2>1, <2>3, <3>1, <3>2 DEF LifeInv, SignalsCounted
    <2> QED
      BY <2>2, <2>3 DEF Processes
  <1> QED
    BY <1>1, LifecycleInvariant, PTL

(***************************************************************************)
(* The process never exits with status 0 without having had a server,      *)
(* although run_server ignores what create_server returned.                *)
(***************************************************************************)
THEOREM LifecycleFailureVisible == Spec => []FailureVisible
  <1>1. LifeInv => FailureVisible
    BY DEF LifeInv, ServerCreated, FailureVisible
  <1> QED
    BY <1>1, LifecycleInvariant, PTL

(***************************************************************************)
(* The configuration a server runs with is the one its command line gives: *)
(* nothing but the parser writes it while the process lives.               *)
(***************************************************************************)
THEOREM LifecycleParsedAsGiven == Spec => []ParsedAsGiven
  <1>1. LifeInit => Init
    BY DEF LifeInit
  <1>2. [Next]_vars => [Parse]_parser
    BY DEF Next, Over, vars
  <1> QED
    BY <1>1, <1>2, CommandParsedAsGiven, PTL DEF Spec
=============================================================================

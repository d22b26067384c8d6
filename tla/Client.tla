------------------------------- MODULE Client -------------------------------
(***************************************************************************)
(* The benchmark client: a main thread that connects, starts the workers   *)
(* behind a barrier, watches the deadline, joins them and reports, and     *)
(* workers that send requests and count responses on their connections,    *)
(* each worker with an epoll loop of its own.  The server is its sockets:  *)
(* it takes bytes, answers the whole requests among them, and may close.   *)
(*                                                                         *)
(* BarrierSizeWorkers, ActiveBySent, AfterOutputKeep, StopAnyway,          *)
(* AfterSendAll and InputDoneEarly are faulty variants of the definition   *)
(* that follows each, which no specification uses; each breaks a property  *)
(* below.                                                                  *)
(***************************************************************************)
EXTENDS Integers, FiniteSets

CONSTANTS
    Workers,       \* client threads (cfg.nr_threads)
    Conns,         \* connections (cfg.nr_connections for each worker)
    OwnerOf,       \* the worker of each connection
    Requests,      \* cfg.nr_requests
    ReqLen, RespLen,
    SockBuf,       \* bytes a socket holds before send returns EAGAIN
    MAX_EVENTS,
    ServerCloses,  \* whether the server may close a connection
    Faults,        \* the calls of the client that may fail
    NULL

ASSUME ClientAssumption ==
    /\ {ReqLen, RespLen, SockBuf, MAX_EVENTS} \subseteq Nat \ {0} /\ Requests \in Nat
    /\ IsFiniteSet(Workers) /\ OwnerOf \in [Conns -> Workers]
    /\ ServerCloses \in BOOLEAN /\ Faults \subseteq {"connect", "thread", "epoll"}
    /\ NULL \notin Workers \cup Conns

VARIABLES
    main,      \* the main thread's place in run_client, or how the process ended
    stopping,  \* ctx->stopping
    worker,    \* the worker threads
    conn,      \* client_connection_t
    net        \* the sockets, and what the server did with them

vars == <<main, stopping, worker, conn, net>>

min(a, b) == IF a > b THEN b ELSE a

\* One byte counter for each direction and end.
UpRoom(k)   == SockBuf - (net[k].up - net[k].taken)
DownWait(k) == net[k].down - net[k].read

----------------------------------------------------------------------------
Init ==
    /\ main = "init" /\ stopping = FALSE
    /\ worker = [t \in Workers |-> [pc |-> "none", ti |-> FALSE, conn |-> NULL,
                                    in |-> FALSE, events |-> {}, ret |-> 0]]
    /\ conn = [k \in Conns |->
         [state |-> "none", epoll |-> {}, sleft |-> 0, rleft |-> 0, sent |-> 0,
          received |-> 0, total |-> 0, started |-> FALSE, ended |-> FALSE]]
    /\ net = [k \in Conns |->
         [up |-> 0, taken |-> 0, down |-> 0, read |-> 0, closed |-> FALSE, err |-> FALSE]]

Ended == main \in {"reported", "failed", "crashed", "killed"}

----------------------------------------------------------------------------
\* main.c

\* cleanup_client_thread of every worker.
Cleaned == [k \in Conns |-> IF conn[k].state = "open"
                            THEN [conn[k] EXCEPT !.state = "closed"] ELSE conn[k]]

\* init_client_conn
Connect(k) ==
    /\ main = "init" /\ conn[k].state = "none"
    /\ conn' = [conn EXCEPT ![k].state = "open", ![k].total = Requests]
    /\ UNCHANGED <<main, stopping, worker, net>>

\* init_client has connected everything and initialises the barrier.
Prepared ==
    /\ main = "init" /\ \A k \in Conns : conn[k].state = "open"
    /\ main' = "start"
    /\ UNCHANGED <<stopping, worker, conn, net>>

\* A call of init_client fails: what is connected so far is closed.
InitFail ==
    /\ "connect" \in Faults /\ main = "init"
    /\ main' = "failed" /\ conn' = Cleaned
    /\ UNCHANGED <<stopping, worker, net>>

\* start_client_threads creates a thread, and stores what create_thread returns
\* in client_threads[i].ti while that thread already runs.
Storing == {t \in Workers : worker[t].pc # "none" /\ ~worker[t].ti}

CreateThread(t) ==
    /\ main = "start" /\ Storing = {} /\ worker[t].pc = "none"
    /\ worker' = [worker EXCEPT ![t].pc = "created"]
    /\ UNCHANGED <<main, stopping, conn, net>>

StoreTi(t) ==
    /\ main = "start" /\ t \in Storing
    /\ worker' = [worker EXCEPT ![t].ti = TRUE]
    /\ UNCHANGED <<main, stopping, conn, net>>

\* create_thread returns NULL, and run_client goes to its cleanup.
CreateFail ==
    /\ "thread" \in Faults /\ main = "start" /\ Storing = {}
    /\ \E t \in Workers : worker[t].pc = "none"
    /\ main' = "cleanup"
    /\ UNCHANGED <<stopping, worker, conn, net>>

\* cleanup_client after CreateFail.  Destroying a barrier at which threads wait
\* is undefined: main waits for them or goes on, and its exit ends them.
CleanupStarted ==
    /\ main = "cleanup"
    /\ \/ main' = "failed" /\ conn' = Cleaned
       \/ /\ \E t \in Workers : worker[t].pc = "barrier"
          /\ main' = "stuck"
          /\ UNCHANGED conn
    /\ UNCHANGED <<stopping, worker, net>>

\* pthread_barrier_wait of main and of a worker, and the round that is complete.
BarrierSizeWorkers == Cardinality(Workers)
BarrierSize == Cardinality(Workers) + 1

MainArrives ==
    /\ main = "start" /\ \A t \in Workers : worker[t].ti
    /\ main' = "barrier"
    /\ UNCHANGED <<stopping, worker, conn, net>>

Arrives(t) ==
    /\ worker[t].pc = "created"
    /\ worker' = [worker EXCEPT ![t].pc = "barrier"]
    /\ UNCHANGED <<main, stopping, conn, net>>

Barrier ==
    LET arrived == {t \in Workers : worker[t].pc = "barrier"}
    IN  /\ Cardinality(arrived) + (IF main = "barrier" THEN 1 ELSE 0) = BarrierSize
        /\ main' = IF main = "barrier" THEN "watch" ELSE main
        /\ worker' = [t \in Workers |-> IF t \in arrived
                                        THEN [worker[t] EXCEPT !.pc = "epoll"] ELSE worker[t]]
        /\ UNCHANGED <<stopping, conn, net>>

\* run_client finds the deadline passed; with a duration of -1 it never does.
Deadline ==
    /\ main = "watch" /\ ~stopping
    /\ stopping' = TRUE
    /\ UNCHANGED <<main, worker, conn, net>>

\* client_threads_done, the result of join_client_threads, and whether
\* report_client_stats dies dividing by total_requests.
ThreadsDone == \A t \in Workers : worker[t].pc = "returned"
JoinFails   == \E t \in Workers : worker[t].ret # 0
NothingSent == \A k \in Conns : conn[k].sent = 0

\* The cleanup, or the exit, closes the connections left open.
Finish ==
    /\ main = "watch" /\ ThreadsDone
    /\ main' = IF JoinFails THEN "failed" ELSE IF NothingSent THEN "crashed" ELSE "reported"
    /\ conn' = Cleaned
    /\ UNCHANGED <<stopping, worker, net>>

----------------------------------------------------------------------------
\* worker.c

Mine(t) == {k \in Conns : OwnerOf[k] = t}

\* init_client_thread_epoll
InitEpoll(t) ==
    /\ worker[t].pc = "epoll"
    /\ conn' = [k \in Conns |-> IF k \in Mine(t)
                                THEN [conn[k] EXCEPT !.epoll = {"IN", "OUT"}] ELSE conn[k]]
    /\ worker' = [worker EXCEPT ![t].pc = "wait"]
    /\ UNCHANGED <<main, stopping, net>>

\* epoll_create1 or epoll_ctl fails in it.
InitEpollFail(t) ==
    /\ "epoll" \in Faults /\ worker[t].pc = "epoll"
    /\ worker' = [worker EXCEPT ![t].pc = "returned", ![t].ret = -1]
    /\ UNCHANGED <<main, stopping, conn, net>>

\* thread_has_active_connections
ActiveBySent(k) == conn[k].sent < conn[k].total
Active(k) == conn[k].received < conn[k].total

WorkerReturn(t) ==
    /\ worker[t].pc = "wait" /\ \A k \in Mine(t) : ~Active(k)
    /\ worker' = [worker EXCEPT ![t].pc = "returned"]
    /\ UNCHANGED <<main, stopping, conn, net>>

Event(k) ==
    [conn |-> k,
     out |-> "OUT" \in conn[k].epoll /\ (UpRoom(k) > 0 \/ net[k].closed),
     in  |-> "IN" \in conn[k].epoll /\ (DownWait(k) > 0 \/ net[k].closed)]

Ready(t) == {e \in {Event(k) : k \in Mine(t)} : e.out \/ e.in}

EpollWait(t) ==
    /\ worker[t].pc = "wait" /\ \E k \in Mine(t) : Active(k)
    /\ Ready(t) # {}
    /\ \E E \in SUBSET Ready(t) :
         /\ Cardinality(E) = min(MAX_EVENTS, Cardinality(Ready(t)))
         /\ worker' = [worker EXCEPT ![t].pc = "dispatch", ![t].events = E]
    /\ UNCHANGED <<main, stopping, conn, net>>

\* handle_client_epoll_event begins; the first output event starts the clock.
Dispatch(t) ==
    /\ worker[t].pc = "dispatch"
    /\ \/ /\ worker[t].events = {}
          /\ worker' = [worker EXCEPT ![t].pc = "wait", ![t].conn = NULL]
          /\ UNCHANGED conn
       \/ \E e \in worker[t].events :
            /\ worker' = [worker EXCEPT ![t] =
                 [@ EXCEPT !.pc = IF e.out THEN "output" ELSE "input", !.conn = e.conn,
                           !.in = e.out /\ e.in, !.events = worker[t].events \ {e}]]
            /\ conn' = [conn EXCEPT ![e.conn].started =
                          @ \/ (e.out /\ conn[e.conn].sent = 0)]
    /\ UNCHANGED <<main, stopping, net>>

\* client_conn_handle_output returned 0 with the connection in state c: output
\* is disarmed when all is sent, and the input part of the event follows.
AfterOutputKeep(c) == c
AfterOutput(c) == IF c.sent = c.total THEN [c EXCEPT !.epoll = {"IN"}] ELSE c

OutputReturns(t, c) ==
    /\ conn' = [conn EXCEPT ![worker[t].conn] = AfterOutput(c)]
    /\ worker' = [worker EXCEPT ![t].pc = IF worker[t].in THEN "input" ELSE "dispatch",
                                ![t].in = FALSE]

\* Between two requests a stopping client makes what it sent its total.
StopAnyway(c) == stopping
StopOutput(c) == stopping /\ c.sleft = 0

\* The connection after len bytes of the want that are left of a request.
AfterSendAll(c, want, len) ==
    [c EXCEPT !.sleft = 0, !.sent = IF len > 0 THEN @ + 1 ELSE @]
AfterSend(c, want, len) ==
    [c EXCEPT !.sleft = want - len, !.sent = IF len = want THEN @ + 1 ELSE @]

Output(t) ==
    LET k == worker[t].conn
        c == conn[k]
        want == IF c.sleft = 0 THEN ReqLen ELSE c.sleft
        len == min(want, UpRoom(k))
        d == AfterSend(c, want, len)
    IN  /\ worker[t].pc = "output"
        /\ \/ /\ StopOutput(c)
              /\ OutputReturns(t, [c EXCEPT !.total = c.sent])
              /\ UNCHANGED net
           \/ /\ ~StopOutput(c) /\ ~net[k].closed
              /\ net' = [net EXCEPT ![k].up = @ + len]
              /\ IF len = 0 \/ (d.sleft = 0 /\ d.sent = d.total)
                 THEN OutputReturns(t, d)
                 ELSE conn' = [conn EXCEPT ![k] = d] /\ UNCHANGED worker
        /\ UNCHANGED <<main, stopping>>

\* send to a closed peer raises SIGPIPE, which the client does not handle.
Killed(t) ==
    LET k == worker[t].conn
    IN  /\ worker[t].pc = "output" /\ ~StopOutput(conn[k]) /\ net[k].closed
        /\ main' = "killed" /\ conn' = Cleaned
        /\ UNCHANGED <<stopping, worker, net>>

\* client_conn_handle_input returned 0 with the connection in state c.
AfterInput(c) ==
    IF c.received = c.total
    THEN [c EXCEPT !.ended = TRUE, !.epoll = {}, !.state = "closed"] ELSE c

InputReturns(t, c) ==
    /\ conn' = [conn EXCEPT ![worker[t].conn] = AfterInput(c)]
    /\ worker' = [worker EXCEPT ![t].pc = "dispatch"]

InputDoneEarly(c) == c.rleft = 0 /\ c.received + 1 >= c.total
InputDone(c) == c.rleft = 0 /\ c.received = c.total

Input(t) ==
    LET k == worker[t].conn
        c == conn[k]
        want == IF c.rleft = 0 THEN RespLen ELSE c.rleft
        len == min(want, DownWait(k))
        d == [c EXCEPT !.rleft = want - len,
                       !.received = IF len = want THEN @ + 1 ELSE @]
    IN  /\ worker[t].pc = "input"
        /\ \/ /\ InputDone(c)
              /\ InputReturns(t, c)
              /\ UNCHANGED net
           \/ /\ ~InputDone(c) /\ len > 0
              /\ net' = [net EXCEPT ![k].read = @ + len]
              /\ conn' = [conn EXCEPT ![k] = d]
              /\ UNCHANGED worker
           \/ /\ ~InputDone(c) /\ len = 0 /\ ~net[k].closed             \* EAGAIN
              /\ InputReturns(t, d)
              /\ UNCHANGED net
           \/ /\ ~InputDone(c) /\ len = 0 /\ net[k].closed /\ ~net[k].err
              /\ conn' = [conn EXCEPT ![k] = d]      \* recv returned 0: loop again
              /\ UNCHANGED <<worker, net>>
           \/ /\ ~InputDone(c) /\ len = 0 /\ net[k].closed /\ net[k].err
              /\ conn' = [conn EXCEPT ![k] = d]      \* ECONNRESET, reported once:
              /\ net' = [net EXCEPT ![k].err = FALSE]  \* the rest of the batch is dropped
              /\ worker' = [worker EXCEPT ![t].pc = "wait", ![t].conn = NULL,
                                          ![t].events = {}, ![t].ret = -1]
        /\ UNCHANGED <<main, stopping>>

----------------------------------------------------------------------------
\* The server

ServerTake(k) ==
    /\ ~net[k].closed /\ net[k].taken < net[k].up
    /\ net' = [net EXCEPT ![k].taken = @ + 1]
    /\ UNCHANGED <<main, stopping, worker, conn>>

ServerReply(k) ==
    /\ ~net[k].closed /\ DownWait(k) < SockBuf
    /\ net[k].down < (net[k].taken \div ReqLen) * RespLen
    /\ net' = [net EXCEPT ![k].down = @ + 1]
    /\ UNCHANGED <<main, stopping, worker, conn>>

ServerClose(k) ==
    /\ ServerCloses /\ conn[k].state # "none" /\ ~net[k].closed
    /\ net' = [net EXCEPT ![k].closed = TRUE, ![k].err = net[k].taken < net[k].up]
    /\ UNCHANGED <<main, stopping, worker, conn>>

----------------------------------------------------------------------------
WorkerStep(t) == /\ ~Ended
                 /\ \/ Arrives(t) \/ InitEpoll(t) \/ InitEpollFail(t)
                    \/ WorkerReturn(t) \/ EpollWait(t) \/ Dispatch(t)
                    \/ Output(t) \/ Killed(t) \/ Input(t)
ServerStep(k) == ServerTake(k) \/ ServerReply(k)
MainStep == \/ \E k \in Conns : Connect(k)
            \/ Prepared \/ InitFail
            \/ \E t \in Workers : CreateThread(t) \/ StoreTi(t)
            \/ CreateFail \/ CleanupStarted \/ MainArrives \/ Barrier \/ Finish

Over == (Ended \/ main = "stuck") /\ UNCHANGED vars

Next ==
    \/ MainStep \/ Deadline
    \/ \E t \in Workers : WorkerStep(t)
    \/ \E k \in Conns : ServerStep(k) \/ ServerClose(k)
    \/ Over

Spec == Init /\ [][Next]_vars

\* The threads keep executing, and the server keeps serving an open connection
\* (Server, RequestsAnswered).  The deadline may come or not.
Fairness ==
    /\ WF_vars(MainStep)
    /\ \A t \in Workers : WF_vars(WorkerStep(t))
    /\ \A k \in Conns : WF_vars(ServerStep(k))

FairSpec == Spec /\ Fairness

\* With a duration other than -1 the deadline comes.
TimedSpec == FairSpec /\ WF_vars(Deadline)

----------------------------------------------------------------------------
\* Properties

Handling(k) == \E t \in Workers : worker[t].conn = k /\ worker[t].pc \in {"output", "input"}

(***************************************************************************)
(* left stays within a message in both directions and the counts within    *)
(* nr_requests, and the worker neither reads bytes that were not sent nor  *)
(* overfills its socket.                                                   *)
(***************************************************************************)
TypeOK ==
    /\ main \in {"init", "start", "barrier", "watch", "cleanup", "stuck",
                "reported", "failed", "crashed", "killed"}
    /\ \A k \in Conns :
         /\ conn[k].sleft \in 0 .. ReqLen /\ conn[k].rleft \in 0 .. RespLen
         /\ {conn[k].sent, conn[k].received, conn[k].total} \subseteq 0 .. Requests
         /\ conn[k].epoll \in SUBSET {"IN", "OUT"}
         /\ UpRoom(k) \in 0 .. SockBuf /\ DownWait(k) \in 0 .. SockBuf

(***************************************************************************)
(* The counters of a connection are those of the wire: sent requests and   *)
(* received responses are what the socket carried, and total, which        *)
(* stopping lowers to sent, never falls below what is still to come.       *)
(***************************************************************************)
CountsMatchWire ==
    \A k \in Conns :
        /\ net[k].up = conn[k].sent * ReqLen
                         + IF conn[k].sleft = 0 THEN 0 ELSE ReqLen - conn[k].sleft
        /\ net[k].read = conn[k].received * RespLen
                         + IF conn[k].rleft = 0 THEN 0 ELSE RespLen - conn[k].rleft
        /\ conn[k].received <= conn[k].sent /\ conn[k].sent <= conn[k].total

(***************************************************************************)
(* start_client publishes client_threads[i].ti through the barrier: a      *)
(* worker that is past it, and uses ti->wakefd, finds it stored, although  *)
(* it ran before create_thread returned; and main watches only then.       *)
(***************************************************************************)
BarrierPublishes ==
    /\ \A t \in Workers : worker[t].pc \notin {"none", "created", "barrier"} => worker[t].ti
    /\ main = "watch" => \A t \in Workers : worker[t].ti /\ worker[t].pc # "barrier"

(***************************************************************************)
(* No stall: a connection with requests left to send is armed for output   *)
(* unless its event is being handled, and one with responses outstanding   *)
(* is armed for input; one that has sent everything is not armed for       *)
(* output, which would spin (with nr_requests 0 the worker ends instead).  *)
(***************************************************************************)
Armed ==
    \A k \in Conns : worker[OwnerOf[k]].pc \in {"wait", "dispatch", "output", "input"} =>
        /\ conn[k].sent < conn[k].total => "OUT" \in conn[k].epoll
        /\ conn[k].received < conn[k].total => "IN" \in conn[k].epoll
        /\ conn[k].sent = conn[k].total /\ "OUT" \in conn[k].epoll =>
              Handling(k) \/ Requests = 0

(***************************************************************************)
(* Unless the deadline came the statistics are complete: when main         *)
(* reports, every connection has done its requests and has both time       *)
(* stamps.                                                                 *)
(***************************************************************************)
StatsComplete ==
    main = "reported" /\ ~stopping =>
        \A k \in Conns : conn[k].started /\ conn[k].ended /\ conn[k].received = Requests

(***************************************************************************)
(* report_client_stats has something to report when "all threads finished  *)
(* successfully" (main.c:260): a request was sent, and some connection has *)
(* the time of its last response.                                          *)
(***************************************************************************)
StatsMeasured ==
    main \in {"reported", "crashed"} =>
        (\E k \in Conns : conn[k].sent > 0) /\ (\E k \in Conns : conn[k].ended)

(***************************************************************************)
(* The client ends, whether the deadline comes or not and whichever call   *)
(* fails; the exceptions are a server that closes a connection, and        *)
(* workers left at the barrier by a thread that could not be created.      *)
(***************************************************************************)
Ends == <>(Ended \/ main = "stuck" \/ \E k \in Conns : net[k].closed)

(***************************************************************************)
(* duration is the "Total test duration" (main.c:39): once the deadline    *)
(* has stopped the client it ends, whatever the server does.               *)
(***************************************************************************)
DeadlineEnds == stopping ~> Ended

(***************************************************************************)
(* The client keeps the contract with the server: in particular it leaves  *)
(* a connection only when every byte it sent belongs to a request that was *)
(* answered, unless the server has ended one of its connections.           *)
(***************************************************************************)
Wire == [k \in Conns |->
    [up |-> net[k].up, taken |-> net[k].taken, down |-> net[k].down, read |-> net[k].read,
     left |-> conn[k].state = "closed", closed |-> net[k].closed]]

Contract == INSTANCE Service WITH
    Links <- Conns, link <- Wire, Abrupt <- IF ServerCloses THEN {"server"} ELSE {}

ImplementsService == Contract!Spec
=============================================================================

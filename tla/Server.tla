------------------------------- MODULE Server -------------------------------
(***************************************************************************)
(* The data plane of the server: accept threads hand sessions to IO        *)
(* threads, IO threads read requests into buffers and write responses,     *)
(* compute threads turn a request into a response, and submit threads hand *)
(* the response back to the IO thread of its session.                      *)
(*                                                                         *)
(*   empty_connections -> handle_accept -> epoll -> finish_connection      *)
(*   empty_buffers -> handle_request -> compute_inbox -> submitter_inbox   *)
(*                 -> send_queue -> handle_response -> empty_buffers       *)
(*                                                                         *)
(* A queue operation is one step: Queue implements Fifo, whose operations  *)
(* take effect atomically.  Every other access that another thread can see *)
(* is a step of its own; a step may combine accesses to fields only its    *)
(* own thread uses.                                                        *)
(*                                                                         *)
(* Next to some definitions stands a faulty variant of it, with the same   *)
(* parameters, that no specification uses: trylockUnchecked,               *)
(* AcceptGetPeek, HandlersUnfiltered, IoSizeUncapped, LeftAfterReturn,     *)
(* SentSame, OutAlwaysCleared, FullProcessed, OneForgotten,                *)
(* SentUncounted, NoneInFlightUnchecked, LastUnchecked and LoopForever.    *)
(* Each breaks a property below when it takes the definition's place.      *)
(***************************************************************************)
EXTENDS Integers, Sequences, FiniteSets

CONSTANTS
    Conns,        \* server_connection_t objects (cfg.alloc.sessions)
    Buffers,      \* server_buffer_t objects (cfg.alloc.buffers)
    IOs, Submitters, Computes, Acceptors,      \* threads (cfg.threads)
    Clients,      \* peers; each connects at most once, so names its socket too
    ReqLen,       \* sizeof (struct request_t)
    RespLen,      \* sizeof (struct response_t)
    MaxIo,        \* cfg.load.max_io_size
    Readahead,    \* cfg.load.readahead
    MAX_EVENTS,
    SockBuf,      \* bytes a socket holds before send returns EAGAIN
    FdLimit,      \* open sockets at which accept4 fails
    MaxRequests,  \* bound: requests a client sends
    Closing,      \* what clients do besides closing when all is answered
    CtlFails,     \* whether adding a descriptor to an epoll may fail (ENOSPC)
    MayStop,      \* whether the server is told to stop
    NULL

ASSUME ServerAssumption ==
    /\ {ReqLen, RespLen, MaxIo, MAX_EVENTS, SockBuf} \subseteq Nat \ {0}
    /\ {Readahead, FdLimit, MaxRequests} \subseteq Nat
    /\ Closing \subseteq {"half", "abort"}
    /\ {CtlFails, MayStop} \subseteq BOOLEAN
    /\ IsFiniteSet(Conns) /\ IsFiniteSet(Buffers)
    /\ NULL \notin Conns \cup Buffers \cup Clients

VARIABLES
    conn,               \* the session objects
    buf,                \* the buffer objects
    empty_connections, empty_buffers, compute_inbox, submitter_inbox,
    io, sub, cmp, acc,  \* the threads
    stopping,           \* ctx->stopping
    ended,              \* the threads that have returned
    sock,               \* the kernel's view of each client's socket
    backlog             \* connections waiting in the listen socket

queues  == <<empty_connections, empty_buffers, compute_inbox, submitter_inbox>>
threads == <<io, sub, cmp, acc>>
life    == <<stopping, ended>>
vars    == <<conn, buf, queues, threads, life, sock, backlog>>

min(a, b) == IF a > b THEN b ELSE a

trylockUnchecked(c) == TRUE
trylock(c) == conn[c].lock = 0

----------------------------------------------------------------------------
\* The sockets (AF_UNIX stream), as the calls of io.c observe them

Avail(k)  == sock[k].wrote - sock[k].consumed          \* bytes to recv
Unread(k) == Len(sock[k].stream) - sock[k].got         \* bytes sent, not read
Room(k)   == SockBuf - Unread(k)
IsOpen(k) == sock[k].link = "open"

Readable(k) == Avail(k) > 0 \/ sock[k].peer # "open"
Writable(k) == Room(k) > 0 \/ sock[k].peer = "closed"

OpenFds == {k \in Clients : IsOpen(k)}

\* epoll_set_conn_state (io.h) of an open session: the kernel's interest set is
\* epoll_state from now on.
epoll_set_conn_state(cn, new_state) == [cn EXCEPT !.epoll_state = new_state]

----------------------------------------------------------------------------
\* A submitter between two responses.
Polling == [pc |-> "get", buff |-> NULL, conn |-> NULL]

\* setup_server_prealloc and alloc_server_queues.  The fields of a session are
\* uninitialised memory until handle_accept sets them; sendbuf it never sets,
\* and the fresh heap the objects come from is zero.
Init ==
    /\ conn = [c \in Conns |->
         [fd |-> NULL, closed |-> TRUE, lock |-> 0, epoll_state |-> {},
          ioidx |-> NULL, submitidx |-> NULL, computeidx |-> NULL,
          recvbuf |-> NULL, sendbuf |-> NULL, send_queue |-> <<>>,
          received |-> 0, processed |-> 0, sent |-> 0]]
    /\ buf = [b \in Buffers |-> [conn |-> NULL, left |-> 0, msg |-> NULL]]
    /\ empty_connections \in [1 .. Cardinality(Conns) -> Conns]
    /\ \A c \in Conns : \E i \in DOMAIN empty_connections : empty_connections[i] = c
    /\ empty_buffers \in [1 .. Cardinality(Buffers) -> Buffers]
    /\ \A b \in Buffers : \E i \in DOMAIN empty_buffers : empty_buffers[i] = b
    /\ compute_inbox = [x \in Computes |-> <<>>]
    /\ submitter_inbox = [s \in Submitters |-> <<>>]
    /\ io = [w \in IOs |-> [pc |-> "wait", conn |-> NULL, in |-> FALSE, events |-> {}]]
    /\ sub = [s \in Submitters |-> Polling]
    /\ cmp = [x \in Computes |-> NULL]
    /\ acc = [a \in Acceptors |-> [pc |-> "wait", conn |-> NULL, fd |-> NULL]]
    /\ sock = [k \in Clients |->
         [link |-> "none", peer |-> "open", err |-> FALSE, wrote |-> 0,
          consumed |-> 0, stream |-> <<>>, got |-> 0]]
    /\ backlog = <<>>
    /\ stopping = FALSE /\ ended = {}

----------------------------------------------------------------------------
\* Every thread function is a loop while (!stopping).  Loop(t) is its head,
\* which t reaches at the end of a step: the thread goes on or returns.
LoopForever(t) == UNCHANGED life

Loop(t) ==
    /\ ended' = IF stopping THEN ended \cup {t} ELSE ended
    /\ UNCHANGED stopping

\* t found nothing to do, because epoll_wait timed out or queue_get returned
\* NULL, and is at the head of its loop again: without stopping nothing changes.
IdleReturn(t) ==
    /\ stopping /\ Loop(t)
    /\ UNCHANGED <<conn, buf, queues, threads, sock, backlog>>

----------------------------------------------------------------------------
\* accept.c

\* A get from a pool with several getters may miss its last element while
\* another getter is in queue_get (Fifo!MayMiss).
MayMiss(pool, others) == pool = <<>> \/ (Len(pool) = 1 /\ others # {})

\* __accept_worker: epoll_wait reports that a connection waits.
AcceptWait(a) ==
    /\ acc[a].pc = "wait" /\ backlog # <<>>
    /\ acc' = [acc EXCEPT ![a].pc = "get"]
    /\ UNCHANGED <<conn, buf, queues, io, sub, cmp, sock, backlog, life>>

AcceptIdle(a) == acc[a].pc = "wait" /\ backlog = <<>> /\ IdleReturn(a)

AcceptGetPeek(a) ==
    /\ acc[a].pc = "get" /\ empty_connections # <<>>
    /\ acc' = [acc EXCEPT ![a].pc = "accept", ![a].conn = Head(empty_connections)]
    /\ UNCHANGED <<conn, buf, queues, io, sub, cmp, sock, backlog, life>>

\* handle_accept: take a session object.  Another accept thread may have taken
\* the connection since.
AcceptGet(a) ==
    /\ acc[a].pc = "get" /\ empty_connections # <<>>
    /\ acc' = [acc EXCEPT ![a].pc = "accept", ![a].conn = Head(empty_connections)]
    /\ empty_connections' = Tail(empty_connections)
    /\ UNCHANGED <<conn, buf, empty_buffers, compute_inbox, submitter_inbox,
                   io, sub, cmp, sock, backlog, life>>

\* queue_get returns NULL, and handle_accept 0.
AcceptMiss(a) ==
    /\ acc[a].pc = "get"
    /\ MayMiss(empty_connections, {o \in Acceptors \ {a} : acc[o].pc = "get"})
    /\ acc' = [acc EXCEPT ![a].pc = "wait"]
    /\ Loop(a)
    /\ UNCHANGED <<conn, buf, queues, io, sub, cmp, sock, backlog>>

\* accept4 blocks when another accept thread took the connection.
AcceptFd(a) ==
    /\ acc[a].pc = "accept" /\ backlog # <<>>
    /\ Cardinality(OpenFds) < FdLimit
    /\ acc' = [acc EXCEPT ![a].pc = "init", ![a].fd = Head(backlog)]
    /\ sock' = [sock EXCEPT ![Head(backlog)].link = "open"]
    /\ backlog' = Tail(backlog)
    /\ UNCHANGED <<conn, buf, queues, io, sub, cmp, life>>

\* accept4 fails: the thread ends, with the session object it took.
AcceptFail(a) ==
    /\ acc[a].pc = "accept" /\ backlog # <<>>
    /\ Cardinality(OpenFds) >= FdLimit
    /\ acc' = [acc EXCEPT ![a].pc = "failed"] /\ ended' = ended \cup {a}
    /\ UNCHANGED <<conn, buf, queues, io, sub, cmp, sock, backlog, stopping>>

\* The session as the rest of handle_accept sets it; it is shared only by the
\* last call, epoll_set_conn_state.  The accept threads read and increment
\* ctx->io.next without a lock, so any indices in range may result.
Accepted(a, w, s, x) ==
    epoll_set_conn_state(
       [conn[acc[a].conn] EXCEPT
          !.sent = 0, !.received = 0, !.processed = 0, !.fd = acc[a].fd, !.ioidx = w,
          !.submitidx = s, !.computeidx = x, !.send_queue = <<>>, !.recvbuf = NULL,
          !.closed = FALSE, !.lock = 0], {"IN"})

AcceptInit(a) ==
    /\ acc[a].pc = "init"
    /\ \E w \in IOs, s \in Submitters, x \in Computes :
         conn' = [conn EXCEPT ![acc[a].conn] = Accepted(a, w, s, x)]
    /\ acc' = [acc EXCEPT ![a].pc = "wait", ![a].conn = NULL, ![a].fd = NULL]
    /\ Loop(a)
    /\ UNCHANGED <<buf, queues, io, sub, cmp, sock, backlog>>

\* epoll_ctl fails: the thread ends with a session that is open and in no epoll.
AcceptCtlFail(a) ==
    /\ CtlFails /\ acc[a].pc = "init"
    /\ \E w \in IOs, s \in Submitters, x \in Computes :
         conn' = [conn EXCEPT ![acc[a].conn] = Accepted(a, w, s, x)]
    /\ acc' = [acc EXCEPT ![a].pc = "failed"] /\ ended' = ended \cup {a}
    /\ UNCHANGED <<buf, queues, io, sub, cmp, sock, backlog, stopping>>

----------------------------------------------------------------------------
\* io.c, __io_worker

IOGoto(w, label) == io' = [io EXCEPT ![w].pc = label]

\* A handler returns 0: handle_request follows handle_response if the event had
\* EPOLLIN, then the next event.
IOReturn(w) ==
    io' = [io EXCEPT ![w].pc = IF io[w].in THEN "req" ELSE "dispatch",
                     ![w].in = FALSE]

\* What epoll_wait reports for a session; epoll_state is the interest the last
\* epoll_ctl set, and close removes the descriptor.
Event(c) ==
    LET k == conn[c].fd
    IN  [conn |-> c, err |-> sock[k].err,
         out |-> "OUT" \in conn[c].epoll_state /\ Writable(k),
         in  |-> "IN" \in conn[c].epoll_state /\ Readable(k)]

Taken(c) == \E a \in Acceptors : acc[a].conn = c

Registered(c) == ~conn[c].closed /\ IsOpen(conn[c].fd) /\ ~Taken(c)

ReadyEvents(w) ==
    {e \in {Event(c) : c \in {d \in Conns : conn[d].ioidx = w /\ Registered(d)}} :
       e.err \/ e.out \/ e.in}

EpollWait(w) ==
    /\ io[w].pc = "wait" /\ ReadyEvents(w) # {}
    /\ \E E \in SUBSET ReadyEvents(w) :
         /\ Cardinality(E) = min(MAX_EVENTS, Cardinality(ReadyEvents(w)))
         /\ io' = [io EXCEPT ![w].pc = "dispatch", ![w].events = E]
    /\ UNCHANGED <<conn, buf, queues, sub, cmp, acc, sock, backlog, life>>

IOIdle(w) == io[w].pc = "wait" /\ ReadyEvents(w) = {} /\ IdleReturn(w)

\* What to do for an event, in order; EPOLLERR ends the session.
HandlersUnfiltered(e) ==
    IF e.err THEN [first |-> "finish", in |-> FALSE]
    ELSE IF e.out THEN [first |-> "resp", in |-> TRUE]
    ELSE [first |-> "req", in |-> FALSE]

Handlers(e) ==
    IF e.err THEN [first |-> "finish", in |-> FALSE]
    ELSE IF e.out THEN [first |-> "resp", in |-> e.in]
    ELSE [first |-> "req", in |-> FALSE]

Dispatch(w) ==
    /\ io[w].pc = "dispatch"
    /\ \/ /\ io[w].events = {}
          /\ io' = [io EXCEPT ![w].pc = "wait", ![w].conn = NULL]
          /\ Loop(w)
       \/ /\ UNCHANGED life
          /\ \E e \in io[w].events :
               io' = [io EXCEPT ![w] =
                 [pc |-> Handlers(e).first, conn |-> e.conn,
                  in |-> Handlers(e).in, events |-> io[w].events \ {e}]]
    /\ UNCHANGED <<conn, buf, queues, sub, cmp, acc, sock, backlog>>

----------------------------------------------------------------------------
\* io.c, handle_response

RespTake(w) ==
    LET c == io[w].conn
    IN  /\ io[w].pc = "resp"
        /\ \/ /\ conn[c].sendbuf # NULL
              /\ IOGoto(w, "send")
              /\ UNCHANGED <<conn, buf>>
           \/ /\ conn[c].sendbuf = NULL /\ conn[c].send_queue = <<>>
              /\ IOReturn(w)
              /\ UNCHANGED <<conn, buf>>
           \/ /\ conn[c].sendbuf = NULL /\ conn[c].send_queue # <<>>
              /\ LET b == Head(conn[c].send_queue)
                 IN  /\ conn' = [conn EXCEPT ![c].sendbuf = b,
                                             ![c].send_queue = Tail(@)]
                     /\ buf' = [buf EXCEPT ![b].conn = c, ![b].left = RespLen]
              /\ IOGoto(w, "send")
        /\ UNCHANGED <<queues, sub, cmp, acc, sock, backlog, life>>

\* io_size, the bytes asked of one send or recv.
IoSizeUncapped(b) == MaxIo
IoSize(b) == min(buf[b].left, MaxIo)

\* Z_send and the branches on its result; EBADF and EPIPE are its errors.
SendFails(k) == ~IsOpen(k) \/ sock[k].peer = "closed"

\* The rest of the response after len bytes of io_size were taken.
LeftAfterReturn(b, len) ==
    IF len < IoSize(b) THEN buf[b].left ELSE buf[b].left - len
LeftAfter(b, len) == buf[b].left - len

Send(w) ==
    LET c == io[w].conn
        b == conn[c].sendbuf
        k == conn[c].fd
        io_size == IoSize(b)
        len == min(io_size, Room(k))
    IN  /\ io[w].pc = "send"
        /\ \/ /\ SendFails(k)
              /\ IOGoto(w, "finish")
              /\ UNCHANGED <<buf, sock>>
           \/ /\ ~SendFails(k) /\ len = 0     \* EAGAIN
              /\ IOReturn(w)
              /\ UNCHANGED <<buf, sock>>
           \/ /\ ~SendFails(k) /\ len > 0
              /\ buf' = [buf EXCEPT ![b].left = LeftAfter(b, len)]
              /\ sock' = [sock EXCEPT ![k].stream =
                            @ \o [i \in 1 .. len |-> buf[b].msg]]
              /\ IF len < io_size THEN IOReturn(w)
                 ELSE IOGoto(w, IF buf[b].left = len THEN "sent" ELSE "resp")
        /\ UNCHANGED <<conn, queues, sub, cmp, acc, backlog, life>>

\* The response is out: only this thread reads sent and sendbuf.
SentSame(c) == conn[c].sent
SentOneMore(c) == conn[c].sent + 1

RespSent(w) ==
    LET c == io[w].conn
    IN  /\ io[w].pc = "sent"
        /\ conn' = [conn EXCEPT ![c].sent = SentOneMore(c), ![c].sendbuf = NULL]
        /\ empty_buffers' = Append(empty_buffers, conn[c].sendbuf)
        /\ IOGoto(w, "resp_lock")
        /\ UNCHANGED <<buf, empty_connections, compute_inbox, submitter_inbox,
                       sub, cmp, acc, sock, backlog, life>>

RespLock(w) ==
    LET c == io[w].conn
    IN  /\ io[w].pc = "resp_lock" /\ conn[c].lock = 0
        /\ conn' = [conn EXCEPT ![c].lock = 1]
        /\ IOGoto(w, "resp_unlock")
        /\ UNCHANGED <<buf, queues, sub, cmp, acc, sock, backlog, life>>

\* epoll_state after a response: EPOLLOUT goes when nothing is left to send.
OutAlwaysCleared(c) == conn[c].epoll_state \ {"OUT"}
OutCleared(c) == IF conn[c].processed = conn[c].sent
                 THEN conn[c].epoll_state \ {"OUT"} ELSE conn[c].epoll_state

RespUnlock(w) ==
    LET c == io[w].conn
    IN  /\ io[w].pc = "resp_unlock"
        /\ conn' = [conn EXCEPT ![c] =
                      epoll_set_conn_state([@ EXCEPT !.lock = 0], OutCleared(c))]
        /\ IOGoto(w, "resp")
        /\ UNCHANGED <<buf, queues, sub, cmp, acc, sock, backlog, life>>

----------------------------------------------------------------------------
\* io.c, handle_request

OthersReceiving(w) == {v \in IOs \ {w} : io[v].pc = "req"}

FullProcessed(c) == conn[c].received - conn[c].processed > Readahead
Full(c) == conn[c].received - conn[c].sent > Readahead

ReqTake(w) ==
    LET c == io[w].conn
        b == Head(empty_buffers)
    IN  /\ io[w].pc = "req"
        /\ \/ /\ conn[c].recvbuf # NULL
              /\ IOGoto(w, "recv")
              /\ UNCHANGED <<conn, buf, empty_buffers>>
           \/ /\ conn[c].recvbuf = NULL
              /\ Full(c) \/ MayMiss(empty_buffers, OthersReceiving(w))
              /\ IOReturn(w)
              /\ UNCHANGED <<conn, buf, empty_buffers>>
           \/ /\ conn[c].recvbuf = NULL /\ ~Full(c) /\ empty_buffers # <<>>
              /\ empty_buffers' = Tail(empty_buffers)
              /\ buf' = [buf EXCEPT ![b].conn = c, ![b].left = ReqLen]
              /\ conn' = [conn EXCEPT ![c].recvbuf = b]
              /\ IOGoto(w, "recv")
        /\ UNCHANGED <<empty_connections, compute_inbox, submitter_inbox,
                       sub, cmp, acc, sock, backlog, life>>

\* Z_recv and the branches on its result: 0 at end of file, -1 on a closed
\* descriptor.  msg is the request now complete.
RecvEnds(k) == ~IsOpen(k) \/ (Avail(k) = 0 /\ sock[k].peer # "open")

Recv(w) ==
    LET c == io[w].conn
        b == conn[c].recvbuf
        k == conn[c].fd
        len == min(IoSize(b), Avail(k))
        done == buf[b].left = len
    IN  /\ io[w].pc = "recv"
        /\ \/ /\ RecvEnds(k)
              /\ IOGoto(w, "finish")
              /\ UNCHANGED <<buf, sock>>
           \/ /\ ~RecvEnds(k) /\ len = 0     \* EAGAIN
              /\ IOReturn(w)
              /\ UNCHANGED <<buf, sock>>
           \/ /\ ~RecvEnds(k) /\ len > 0
              /\ sock' = [sock EXCEPT ![k].consumed = @ + len]
              /\ buf' = [buf EXCEPT ![b].left = @ - len,
                           ![b].msg = IF done
                                      THEN <<k, (sock[k].consumed + len) \div ReqLen>>
                                      ELSE @]
              /\ IOGoto(w, IF done THEN "req_lock" ELSE "req")
        /\ UNCHANGED <<conn, queues, sub, cmp, acc, backlog, life>>

ReqLock(w) ==
    LET c == io[w].conn
    IN  /\ io[w].pc = "req_lock" /\ conn[c].lock = 0
        /\ conn' = [conn EXCEPT ![c].lock = 1]
        /\ IOGoto(w, "req_put")
        /\ UNCHANGED <<buf, queues, sub, cmp, acc, sock, backlog, life>>

ReqPut(w) ==
    LET c == io[w].conn
    IN  /\ io[w].pc = "req_put"
        /\ conn' = [conn EXCEPT ![c].received = @ + 1, ![c].recvbuf = NULL]
        /\ compute_inbox' = [compute_inbox EXCEPT
                               ![conn[c].computeidx] = Append(@, conn[c].recvbuf)]
        /\ IOGoto(w, "req_unlock")
        /\ UNCHANGED <<buf, empty_connections, empty_buffers, submitter_inbox,
                       sub, cmp, acc, sock, backlog, life>>

ReqUnlock(w) ==
    LET c == io[w].conn
    IN  /\ io[w].pc = "req_unlock"
        /\ conn' = [conn EXCEPT ![c].lock = 0]
        /\ IOGoto(w, "req")
        /\ UNCHANGED <<buf, queues, sub, cmp, acc, sock, backlog, life>>

----------------------------------------------------------------------------
\* io.c, finish_connection

\* trylock; a session the submitter has locked is left for a later event.
FinishTry(w) ==
    LET c == io[w].conn
    IN  /\ io[w].pc = "finish"
        /\ \/ /\ ~trylock(c)
              /\ IOReturn(w)
              /\ UNCHANGED conn
           \/ /\ trylock(c)
              /\ conn' = [conn EXCEPT ![c].lock = 1]
              /\ IOGoto(w, "fin_drain")
        /\ UNCHANGED <<buf, queues, sub, cmp, acc, sock, backlog, life>>

\* Buffers back to the pool, socket closed, send queue drained.  recvbuf and
\* sendbuf keep pointing at the buffers given back.  One step stands for the
\* whole drain: the session is locked, and of what the drain changes the other
\* threads use only the buffers, which this thread does not touch again.
OneForgotten(b) == <<>>
One(b) == IF b = NULL THEN <<>> ELSE <<b>>

\* sent after the drain.
SentUncounted(c) == conn[c].sent
SentDrained(c) == conn[c].sent + Len(conn[c].send_queue)

FinishDrain(w) ==
    LET c == io[w].conn
    IN  /\ io[w].pc = "fin_drain"
        /\ empty_buffers' = empty_buffers \o One(conn[c].sendbuf)
                              \o One(conn[c].recvbuf) \o conn[c].send_queue
        /\ sock' = [sock EXCEPT ![conn[c].fd].link = "shut"]
        /\ conn' = [conn EXCEPT ![c].sent = SentDrained(c),
                                ![c].send_queue = <<>>, ![c].closed = TRUE]
        /\ IOGoto(w, "fin_end")
        /\ UNCHANGED <<buf, empty_connections, compute_inbox, submitter_inbox,
                       sub, cmp, acc, backlog, life>>

\* Release the session, still locked, or leave that to the submitter.
NoneInFlightUnchecked(c) == TRUE
NoneInFlight(c) == conn[c].sent = conn[c].received

FinishEnd(w) ==
    LET c == io[w].conn
    IN  /\ io[w].pc = "fin_end"
        /\ \/ /\ NoneInFlight(c)
              /\ empty_connections' = Append(empty_connections, c)
              /\ UNCHANGED conn
           \/ /\ ~NoneInFlight(c)
              /\ conn' = [conn EXCEPT ![c].lock = 0]
              /\ UNCHANGED empty_connections
        /\ IOReturn(w)
        /\ UNCHANGED <<buf, empty_buffers, compute_inbox, submitter_inbox,
                       sub, cmp, acc, sock, backlog, life>>

----------------------------------------------------------------------------
\* compute.c

ComputeGet(x) ==
    /\ cmp[x] = NULL /\ compute_inbox[x] # <<>>
    /\ cmp' = [cmp EXCEPT ![x] = Head(compute_inbox[x])]
    /\ compute_inbox' = [compute_inbox EXCEPT ![x] = Tail(@)]
    /\ UNCHANGED <<conn, buf, empty_connections, empty_buffers, submitter_inbox,
                   io, sub, acc, sock, backlog, life>>

\* compute_request copies the id of the request to the response: msg stays.
ComputePut(x) ==
    /\ cmp[x] # NULL
    /\ cmp' = [cmp EXCEPT ![x] = NULL]
    /\ submitter_inbox' = [submitter_inbox EXCEPT
                             ![conn[buf[cmp[x]].conn].submitidx] = Append(@, cmp[x])]
    /\ Loop(x)
    /\ UNCHANGED <<conn, buf, empty_connections, empty_buffers, compute_inbox,
                   io, sub, acc, sock, backlog>>

ComputeIdle(x) == cmp[x] = NULL /\ compute_inbox[x] = <<>> /\ IdleReturn(x)

----------------------------------------------------------------------------
\* submit.c

SubmitGet(s) ==
    LET b == Head(submitter_inbox[s])
    IN  /\ sub[s].pc = "get" /\ submitter_inbox[s] # <<>>
        /\ sub' = [sub EXCEPT ![s] = [pc |-> "try", buff |-> b, conn |-> buf[b].conn]]
        /\ submitter_inbox' = [submitter_inbox EXCEPT ![s] = Tail(@)]
        /\ UNCHANGED <<conn, buf, empty_connections, empty_buffers, compute_inbox,
                       io, cmp, acc, sock, backlog, life>>

\* trylock; a response whose session is locked goes back to the end of the inbox.
SubmitTry(s) ==
    LET c == sub[s].conn
    IN  /\ sub[s].pc = "try"
        /\ \/ /\ ~trylock(c)
              /\ submitter_inbox' = [submitter_inbox EXCEPT ![s] = Append(@, sub[s].buff)]
              /\ sub' = [sub EXCEPT ![s] = Polling]
              /\ Loop(s)
              /\ UNCHANGED conn
           \/ /\ trylock(c)
              /\ conn' = [conn EXCEPT ![c].lock = 1]
              /\ sub' = [sub EXCEPT ![s].pc = "put"]
              /\ UNCHANGED <<submitter_inbox, life>>
        /\ UNCHANGED <<buf, empty_connections, empty_buffers, compute_inbox,
                       io, cmp, acc, sock, backlog>>

\* processed++, then the response goes to the session or, closed, to the pool.
SubmitPut(s) ==
    LET c == sub[s].conn
        b == sub[s].buff
    IN  /\ sub[s].pc = "put"
        /\ \/ /\ conn[c].closed
              /\ conn' = [conn EXCEPT ![c].processed = @ + 1]
              /\ empty_buffers' = Append(empty_buffers, b)
              /\ sub' = [sub EXCEPT ![s].pc = "dispose"]
           \/ /\ ~conn[c].closed
              /\ conn' = [conn EXCEPT ![c].processed = @ + 1,
                                      ![c].send_queue = Append(@, b)]
              /\ sub' = [sub EXCEPT ![s].pc = "arm"]
              /\ UNCHANGED empty_buffers
        /\ UNCHANGED <<buf, empty_connections, compute_inbox, submitter_inbox,
                       io, cmp, acc, sock, backlog, life>>

\* The session is open and locked, so epoll_ctl has an open descriptor and succeeds.
SubmitArm(s) ==
    /\ sub[s].pc = "arm"
    /\ conn' = [conn EXCEPT ![sub[s].conn] =
                  epoll_set_conn_state(@, @.epoll_state \cup {"OUT"})]
    /\ sub' = [sub EXCEPT ![s].pc = "unlock"]
    /\ UNCHANGED <<buf, queues, io, cmp, acc, sock, backlog, life>>

SubmitUnlock(s) ==
    /\ \/ /\ sub[s].pc = "unlock"
          /\ sub' = [sub EXCEPT ![s] = Polling]
          /\ Loop(s)
       \/ /\ sub[s].pc = "dispose"
          /\ sub' = [sub EXCEPT ![s].pc = "last"]
          /\ UNCHANGED life
    /\ conn' = [conn EXCEPT ![sub[s].conn].lock = 0]
    /\ UNCHANGED <<buf, queues, io, cmp, acc, sock, backlog>>

\* The last in-flight buffer of a closed session releases it.
LastUnchecked(c) == TRUE
LastInFlight(c) == conn[c].processed = conn[c].received

SubmitLast(s) ==
    LET c == sub[s].conn
    IN  /\ sub[s].pc = "last"
        /\ empty_connections' = IF LastInFlight(c)
                                THEN Append(empty_connections, c)
                                ELSE empty_connections
        /\ sub' = [sub EXCEPT ![s] = Polling]
        /\ Loop(s)
        /\ UNCHANGED <<conn, buf, empty_buffers, compute_inbox, submitter_inbox,
                       io, cmp, acc, sock, backlog>>

SubmitIdle(s) == sub[s].pc = "get" /\ submitter_inbox[s] = <<>> /\ IdleReturn(s)

----------------------------------------------------------------------------
\* The clients.  They write requests and read responses as the sockets allow
\* and close when everything they wrote is answered or the server closed; one
\* that closes with responses unread resets the connection (EPOLLERR).
\* Closing adds clients that shut down their sending side early ("half") and
\* that close at any time ("abort").

server == <<conn, buf, queues, threads, life>>

Connect(k) ==
    /\ sock[k].link = "none" /\ sock[k].peer = "open"
    /\ sock' = [sock EXCEPT ![k].link = "backlog"]
    /\ backlog' = Append(backlog, k)
    /\ UNCHANGED server

Connected(k) == sock[k].link # "none" /\ sock[k].peer # "closed"

ClientWrite(k) ==
    /\ Connected(k) /\ sock[k].peer = "open" /\ sock[k].link # "shut"
    /\ sock[k].wrote < MaxRequests * ReqLen
    /\ sock' = [sock EXCEPT ![k].wrote = @ + 1]
    /\ UNCHANGED <<server, backlog>>

ClientRead(k) ==
    /\ Connected(k) /\ Unread(k) > 0
    /\ sock' = [sock EXCEPT ![k].got = @ + 1]
    /\ UNCHANGED <<server, backlog>>

AllAnswered(k) == sock[k].wrote * RespLen = sock[k].got * ReqLen

ClientShutdown(k) ==
    /\ "half" \in Closing /\ Connected(k) /\ sock[k].peer = "open"
    /\ sock' = [sock EXCEPT ![k].peer = "half"]
    /\ UNCHANGED <<server, backlog>>

ClientClose(k) ==
    /\ Connected(k)
    /\ "abort" \in Closing \/ AllAnswered(k) \/ (sock[k].link = "shut" /\ Unread(k) = 0)
    /\ sock' = [sock EXCEPT ![k].peer = "closed", ![k].err = Unread(k) > 0]
    /\ UNCHANGED <<server, backlog>>

----------------------------------------------------------------------------
\* destroy_server or the SIGINT handler (module Lifecycle).
Stop ==
    /\ MayStop /\ ~stopping
    /\ stopping' = TRUE
    /\ UNCHANGED <<conn, buf, queues, threads, ended, sock, backlog>>

AcceptStep(a) == /\ a \notin ended
                 /\ \/ AcceptWait(a) \/ AcceptIdle(a) \/ AcceptGet(a) \/ AcceptMiss(a)
                    \/ AcceptFd(a) \/ AcceptFail(a) \/ AcceptInit(a) \/ AcceptCtlFail(a)
IOStep(w) == /\ w \notin ended
             /\ \/ EpollWait(w) \/ Dispatch(w) \/ IOIdle(w)
                \/ RespTake(w) \/ Send(w) \/ RespSent(w) \/ RespLock(w) \/ RespUnlock(w)
                \/ ReqTake(w) \/ Recv(w) \/ ReqLock(w) \/ ReqPut(w) \/ ReqUnlock(w)
                \/ FinishTry(w) \/ FinishDrain(w) \/ FinishEnd(w)
ComputeStep(x) == x \notin ended /\ (ComputeGet(x) \/ ComputePut(x) \/ ComputeIdle(x))
SubmitStep(s) == /\ s \notin ended
                 /\ \/ SubmitGet(s) \/ SubmitTry(s) \/ SubmitPut(s) \/ SubmitArm(s)
                    \/ SubmitUnlock(s) \/ SubmitLast(s) \/ SubmitIdle(s)
ClientStep(k) == Connect(k) \/ ClientWrite(k) \/ ClientRead(k) \/ ClientClose(k)

\* The server has nothing left to do, and every client is gone or threads that
\* would serve it have returned.
Over ==
    /\ \/ \A k \in Clients : sock[k].peer = "closed" /\ sock[k].link = "shut"
       \/ ended # {}
    /\ \A w \in IOs : io[w].pc = "wait"
    /\ \A s \in Submitters \ ended : sub[s].pc = "get" /\ submitter_inbox[s] = <<>>
    /\ \A x \in Computes \ ended : cmp[x] = NULL /\ compute_inbox[x] = <<>>
    /\ UNCHANGED vars

Next ==
    \/ \E a \in Acceptors : AcceptStep(a)
    \/ \E w \in IOs : IOStep(w)
    \/ \E x \in Computes : ComputeStep(x)
    \/ \E s \in Submitters : SubmitStep(s)
    \/ \E k \in Clients : ClientStep(k) \/ ClientShutdown(k)
    \/ Stop
    \/ Over

Spec == Init /\ [][Next]_vars

\* Every thread of the server polls in a loop and keeps executing; the clients
\* go on until everything they sent is answered, and then close.
Fairness ==
    /\ \A a \in Acceptors : WF_vars(AcceptStep(a))
    /\ \A w \in IOs : WF_vars(IOStep(w))
    /\ \A x \in Computes : WF_vars(ComputeStep(x))
    /\ \A s \in Submitters : WF_vars(SubmitStep(s))
    /\ \A k \in Clients : WF_vars(ClientStep(k))

FairSpec == Spec /\ Fairness
----------------------------------------------------------------------------
\* Helper predicates

Elems(s) == {s[i] : i \in DOMAIN s}
Holds(s, e) == {i \in DOMAIN s : s[i] = e}

\* The buffers of session c between ReqPut and the submitter's processed++.
InFlight(c) ==
    {b \in Buffers : buf[b].conn = c /\
       \/ \E x \in Computes : b \in Elems(compute_inbox[x]) \/ cmp[x] = b
       \/ \E s \in Submitters : \/ b \in Elems(submitter_inbox[s])
                                \/ sub[s].buff = b /\ sub[s].pc \in {"try", "put"}}

\* The places where a buffer is referred to by somebody who will use it.
Places(b) ==
    ({"pool"} \X Holds(empty_buffers, b))
    \cup (UNION {{<<"compute", x>>} \X Holds(compute_inbox[x], b) : x \in Computes})
    \cup (UNION {{<<"submit", s>>} \X Holds(submitter_inbox[s], b) : s \in Submitters})
    \cup (UNION {{<<"queue", c>>} \X Holds(conn[c].send_queue, b) : c \in Conns})
    \cup ({"recvbuf"} \X {c \in Conns : conn[c].recvbuf = b /\ ~conn[c].closed})
    \cup ({"sendbuf"} \X {c \in Conns : conn[c].sendbuf = b /\ ~conn[c].closed})
    \cup ({"computing"} \X {x \in Computes : cmp[x] = b})
    \cup ({"submitting"} \X {s \in Submitters : sub[s].buff = b /\ sub[s].pc \in {"try", "put"}})

IOSection(w)  == io[w].pc \in {"resp_unlock", "req_put", "req_unlock", "fin_drain", "fin_end"}
SubSection(s) == sub[s].pc \in {"put", "arm", "unlock", "dispose"}
Lockers(c) == {w \in IOs : IOSection(w) /\ io[w].conn = c}
              \cup {s \in Submitters : SubSection(s) /\ sub[s].conn = c}

\* A session object no accept, IO or submit thread has.
Pooled(c) == c \in Elems(empty_connections)
Handled(c) == \E w \in IOs : io[w].conn = c /\ io[w].pc # "dispatch"

----------------------------------------------------------------------------
\* Properties

(***************************************************************************)
(* The fields hold what the code's types say, left stays within a message, *)
(* and send and recv never move more bytes than the socket had or had room *)
(* for.                                                                    *)
(***************************************************************************)
TypeOK ==
    /\ \A c \in Conns :
         /\ conn[c].fd \in Clients \cup {NULL}
         /\ conn[c].closed \in BOOLEAN /\ conn[c].lock \in {0, 1}
         /\ conn[c].epoll_state \subseteq {"IN", "OUT"}
         /\ conn[c].recvbuf \in Buffers \cup {NULL}
         /\ conn[c].sendbuf \in Buffers \cup {NULL}
         /\ Elems(conn[c].send_queue) \subseteq Buffers
         /\ {conn[c].received, conn[c].processed, conn[c].sent} \subseteq Nat
    /\ \A b \in Buffers : buf[b].conn \in Conns \cup {NULL}
                          /\ buf[b].left \in 0 .. ReqLen + RespLen
    /\ \A w \in IOs : io[w].conn \in Conns \cup {NULL}
    /\ \A s \in Submitters : sub[s].buff \in Buffers \cup {NULL}
    /\ \A x \in Computes : cmp[x] \in Buffers \cup {NULL}
    /\ \A k \in Clients : Avail(k) \in Nat /\ Room(k) \in Nat /\ Unread(k) \in Nat

(***************************************************************************)
(* Every buffer object is at exactly one place: none is lost and none is   *)
(* given to two users, across handle_request, the compute and submit       *)
(* inboxes, handle_response and the three ways a session can end.          *)
(***************************************************************************)
BufferConserved == \A b \in Buffers : Cardinality(Places(b)) = 1

(***************************************************************************)
(* conn->lock: at most one IO or submit thread is between lock and unlock  *)
(* of a session, and a lock word that is 1 with nobody inside belongs to a *)
(* session finish_connection released locked.  Inside, the socket is open  *)
(* unless the session is closed.                                           *)
(***************************************************************************)
ConnLock ==
    \A c \in Conns :
        /\ Cardinality(Lockers(c)) <= 1
        /\ Lockers(c) # {} => conn[c].lock = 1
        /\ conn[c].lock = 1 /\ Lockers(c) = {} => Pooled(c) \/ Taken(c)
        /\ Lockers(c) # {} /\ ~conn[c].closed => IsOpen(conn[c].fd)

(***************************************************************************)
(* The counters of an open session account for its buffers: received minus *)
(* processed are being computed or submitted, processed minus sent wait    *)
(* for handle_response.  Of a closed one, exactly the former are left,     *)
(* which is what "Last in-flight buffer" (submit.c) relies on.             *)
(***************************************************************************)
CountersAccount ==
    \A c \in Conns : ~Pooled(c) /\ ~Taken(c) =>
        /\ conn[c].received - conn[c].processed = Cardinality(InFlight(c))
        /\ ~conn[c].closed => conn[c].processed - conn[c].sent =
             Len(conn[c].send_queue) + IF conn[c].sendbuf = NULL THEN 0 ELSE 1

(***************************************************************************)
(* A session object in empty_connections is there once and is forgotten:   *)
(* closed, no buffer of it in flight, no thread still working on it.  One  *)
(* that a failing handle_accept took is nowhere else: it is lost and never *)
(* served by two.                                                          *)
(***************************************************************************)
ReleasedForgotten ==
    \A c \in Conns : Pooled(c) \/ Taken(c) =>
        /\ Cardinality(Holds(empty_connections, c))
             + Cardinality({a \in Acceptors : acc[a].conn = c}) = 1
        /\ conn[c].closed \/ (Taken(c) /\ ~Pooled(c))
        /\ InFlight(c) = {} /\ ~Handled(c)
        /\ \A s \in Submitters : sub[s].conn # c

(***************************************************************************)
(* A session out of the pool is open, or about to be given back by the     *)
(* thread inside finish_connection, or waits for a buffer in flight: the   *)
(* submitter's "cleanup" then comes.                                       *)
(***************************************************************************)
DelegatedInFlight ==
    \A c \in Conns : ~Pooled(c) /\ ~Taken(c) /\ conn[c].closed =>
        \/ InFlight(c) # {}
        \/ \E w \in IOs : io[w].pc = "fin_end" /\ io[w].conn = c
        \/ \E s \in Submitters : sub[s].pc \in {"dispose", "last"} /\ sub[s].conn = c

(***************************************************************************)
(* EPOLLOUT is armed exactly while responses wait: whenever the session is *)
(* unlocked, a response submitted and not sent keeps EPOLLOUT set (no lost *)
(* wakeup), and EPOLLOUT without one is about to be cleared by the thread  *)
(* that sent the last response.                                            *)
(***************************************************************************)
OutArmed ==
    \A c \in Conns : ~conn[c].closed /\ conn[c].lock = 0 =>
        /\ conn[c].processed > conn[c].sent => "OUT" \in conn[c].epoll_state
        /\ "OUT" \in conn[c].epoll_state => \/ conn[c].processed > conn[c].sent
                                           \/ \E w \in IOs : io[w].pc = "resp_lock" /\ io[w].conn = c

(***************************************************************************)
(* handle_request stops reading ahead: at most Readahead + 1 requests of a *)
(* session are received and not yet answered (the test is made before the  *)
(* next request is begun, with >).                                         *)
(***************************************************************************)
Outstanding(c) == conn[c].received - conn[c].sent
ReadaheadBounded == \A c \in Conns : ~conn[c].closed => Outstanding(c) <= Readahead + 1

(***************************************************************************)
(* What a client receives is a sequence of whole responses, each to a      *)
(* different request that it sent: partial sends are resumed where they    *)
(* stopped and no buffer is sent twice or to another session.              *)
(***************************************************************************)
ResponsesFramed ==
    \A k \in Clients :
        LET st == sock[k].stream
            Block(i) == (i - 1) \div RespLen
        IN  \A i, j \in DOMAIN st :
              /\ st[i][1] = k /\ st[i][2] \in 1 .. sock[k].consumed \div ReqLen
              /\ (st[i] = st[j]) <=> (Block(i) = Block(j))

(***************************************************************************)
(* Idle sessions keep the buffer handle_request took for their next        *)
(* request, but never all of them: a buffer is left for the other          *)
(* sessions, so the server does not stop for want of buffers.              *)
(***************************************************************************)
Parked(b) == \E c \in Conns :
    ~conn[c].closed /\ conn[c].recvbuf = b /\ buf[b].left = ReqLen /\ ~Readable(conn[c].fd)
PoolCirculates == \E b \in Buffers : ~Parked(b)

(***************************************************************************)
(* finish_connection runs its cleanup once per session: a closed session's *)
(* cleanup "is in submitter" (io.c:51).                                    *)
(***************************************************************************)
FinishedOnce == \A w \in IOs : io[w].pc = "fin_drain" => ~conn[io[w].conn].closed

(***************************************************************************)
(* Every request a client writes completely is answered completely, unless *)
(* the server is stopped.                                                  *)
(***************************************************************************)
RequestsAnswered ==
    \A k \in Clients, n \in 1 .. MaxRequests :
        sock[k].wrote >= n * ReqLen ~> (sock[k].got >= n * RespLen \/ stopping)

\* The accept threads that block: another one took the connection they saw.
InAccept4 == {a \in Acceptors : acc[a].pc = "accept" /\ backlog = <<>>}

(***************************************************************************)
(* Once the clients are gone every session and every buffer is back in its *)
(* pool, but for the session an accept thread in accept4 took beforehand,  *)
(* unless the server is stopped.                                           *)
(***************************************************************************)
AllReturned ==
    <>[](\/ /\ Elems(empty_connections) \cup {acc[a].conn : a \in InAccept4} = Conns
            /\ Elems(empty_buffers) = Buffers
         \/ stopping)

(***************************************************************************)
(* Once stopping is set every thread returns, whatever it was doing and    *)
(* whatever session locks were held: the joins of destroy_server end.  The *)
(* one exception is an accept thread in accept4 on the blocking listen     *)
(* socket, after another one took the connection that both saw.            *)
(***************************************************************************)
AllThreads == IOs \cup Submitters \cup Computes \cup Acceptors
ThreadsStop == stopping ~> AllThreads \subseteq ended \cup InAccept4

(***************************************************************************)
(* The sockets behave as the contract with the clients says.               *)
(***************************************************************************)
Wire == [k \in Clients |->
    [up |-> sock[k].wrote, taken |-> sock[k].consumed, down |-> Len(sock[k].stream),
     read |-> sock[k].got, left |-> sock[k].peer = "closed",
     closed |-> sock[k].link = "shut"]]

Contract == INSTANCE Service WITH
    Links <- Clients, link <- Wire, Abrupt <- IF Closing = {} THEN {} ELSE {"client"}

ImplementsService == Contract!Spec
============================================================================

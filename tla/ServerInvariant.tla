--------------------------- MODULE ServerInvariant ---------------------------
(***************************************************************************)
(* The inductive invariant of Server, in parts: one for each object, and   *)
(* what each says of the others it refers to.  Structure is about sessions *)
(* and the threads that have them, Ownership about the buffers, Counting   *)
(* about the counters of a session and its EPOLLOUT, Bytes about what has  *)
(* gone over the sockets.                                                  *)
(*                                                                         *)
(* It is invariant when Orderly holds.  Without it finish_connection can   *)
(* return a buffer to the pool that the session still refers to when it is *)
(* next accepted (sendbuf, half sent), or return one twice: the runs       *)
(* server_leak and server_twice.                                           *)
(***************************************************************************)
EXTENDS Server

\* The clients either keep the contract, as the repository's client does; or
\* have one request at a time read; or shut down early, but never fill a socket.
Orderly ==
    \/ Closing = {}
    \/ Readahead = 0
    \/ "abort" \notin Closing /\ MaxRequests * RespLen <= SockBuf

\* An IO thread is in a handler.
Busy(w) == io[w].pc \notin {"wait", "dispatch"}

Released(c) == Pooled(c) \/ Taken(c)

Inj(s) == \A i, j \in DOMAIN s : s[i] = s[j] => i = j

Count(b) == IF b = NULL THEN 0 ELSE 1

----------------------------------------------------------------------------
\* Structure

Msg == {NULL} \cup (Clients \X Nat)
ConnType == [fd : Clients \cup {NULL}, closed : BOOLEAN, lock : {0, 1},
             epoll_state : SUBSET {"IN", "OUT"}, ioidx : IOs \cup {NULL},
             submitidx : Submitters \cup {NULL}, computeidx : Computes \cup {NULL},
             recvbuf : Buffers \cup {NULL}, sendbuf : Buffers \cup {NULL},
             send_queue : Seq(Buffers), received : Nat, processed : Nat, sent : Nat]
BufType == [conn : Conns \cup {NULL}, left : 0 .. ReqLen + RespLen, msg : Msg]
EventType == [conn : Conns, err : BOOLEAN, out : BOOLEAN, in : BOOLEAN]
IOPc == {"wait", "dispatch", "resp", "send", "sent", "resp_lock", "resp_unlock", "req",
         "recv", "req_lock", "req_put", "req_unlock", "finish", "fin_drain", "fin_end"}
IOType == [pc : IOPc, conn : Conns \cup {NULL}, in : BOOLEAN, events : SUBSET EventType]
SubType == [pc : {"get", "try", "put", "arm", "unlock", "dispose", "last"},
            buff : Buffers \cup {NULL}, conn : Conns \cup {NULL}]
AccType == [pc : {"wait", "get", "accept", "init", "failed"}, conn : Conns \cup {NULL},
            fd : Clients \cup {NULL}]
SockType == [link : {"none", "backlog", "open", "shut"}, peer : {"open", "half", "closed"},
             err : BOOLEAN, wrote : Nat, consumed : Nat, stream : Seq(Msg), got : Nat]

Types ==
    /\ conn \in [Conns -> ConnType]
    /\ buf \in [Buffers -> BufType]
    /\ empty_connections \in Seq(Conns) /\ empty_buffers \in Seq(Buffers)
    /\ compute_inbox \in [Computes -> Seq(Buffers)]
    /\ submitter_inbox \in [Submitters -> Seq(Buffers)]
    /\ io \in [IOs -> IOType]
    /\ sub \in [Submitters -> SubType]
    /\ cmp \in [Computes -> Buffers \cup {NULL}]
    /\ acc \in [Acceptors -> AccType]
    /\ sock \in [Clients -> SockType]
    /\ backlog \in Seq(Clients)

\* A session and a connection have one accept thread or none.
AcceptInv(a) ==
    LET c == acc[a].conn
        k == acc[a].fd
    IN  /\ acc[a].pc \in {"wait", "get"} <=> c = NULL
        /\ c # NULL => /\ ~Pooled(c)
                       /\ \A a2 \in Acceptors : acc[a2].conn = c => a2 = a
        /\ acc[a].pc \in {"accept", "init"} => conn[c].closed
        /\ acc[a].pc = "init" =>
             /\ k \in Clients /\ IsOpen(k)
             /\ \A d \in Conns : ~conn[d].closed => conn[d].fd # k
             /\ \A a2 \in Acceptors : acc[a2].pc = "init" /\ acc[a2].fd = k => a2 = a

ListenInv ==
    /\ Inj(empty_connections)
    /\ Inj(backlog)
    /\ \A i \in DOMAIN backlog : sock[backlog[i]].link = "backlog"

SessionInv(c) ==
    /\ ~Released(c) => /\ conn[c].fd \in Clients /\ conn[c].ioidx \in IOs
                       /\ conn[c].submitidx \in Submitters /\ conn[c].computeidx \in Computes
    /\ ~conn[c].closed =>
         /\ conn[c].fd \in Clients /\ IsOpen(conn[c].fd)
         /\ \A d \in Conns : ~conn[d].closed /\ conn[d].fd = conn[c].fd => d = c
    /\ conn[c].closed => conn[c].send_queue = <<>>
    /\ Released(c) => conn[c].sendbuf = NULL
    /\ Pooled(c) => conn[c].closed

\* The session an IO thread is busy with.  Of a closed one only the end of
\* finish_connection is left, or a handle_request that reads nothing.
IOInv(w) ==
    LET c == io[w].conn
        pc == io[w].pc
    IN  /\ Busy(w) => c \in Conns /\ conn[c].ioidx = w /\ ~Released(c)
        /\ Busy(w) /\ pc \notin {"req", "fin_end"} => ~conn[c].closed
        /\ pc = "req" => ~conn[c].closed \/ conn[c].sendbuf # NULL
        /\ pc \in {"send", "sent"} => conn[c].sendbuf # NULL
        /\ pc \in {"recv", "req_lock", "req_put"} => conn[c].recvbuf # NULL
        /\ pc \in {"req", "recv", "req_lock", "req_put", "req_unlock"} => ~io[w].in
        /\ pc \in {"finish", "fin_drain", "fin_end"} =>
             /\ io[w].in => conn[c].sendbuf # NULL
             /\ conn[c].sendbuf # NULL => Readahead = 0
        /\ pc = "fin_end" =>
             /\ conn[c].closed
             /\ conn[c].processed = conn[c].sent + Count(conn[c].sendbuf)
             /\ \A s \in Submitters : sub[s].conn = c => sub[s].pc = "try"
        /\ IOSection(w) =>
             /\ conn[c].lock = 1
             /\ \A s \in Submitters : ~(SubSection(s) /\ sub[s].conn = c)

\* The events an IO thread has still to handle are of open sessions of its own.
EventInv(w) ==
    \A e \in io[w].events :
        /\ conn[e.conn].ioidx = w /\ ~Released(e.conn) /\ ~conn[e.conn].closed
        /\ ~(Busy(w) /\ io[w].conn = e.conn)
        /\ \A f \in io[w].events : f.conn = e.conn => f = e
        /\ e.err => Readahead = 0

SubmitInv(s) ==
    LET c == sub[s].conn
        pc == sub[s].pc
    IN  /\ pc = "get" <=> c = NULL
        /\ c # NULL => conn[c].submitidx = s /\ ~Released(c)
        /\ pc \in {"try", "put"} => sub[s].buff \in Buffers
        /\ pc \in {"arm", "unlock"} => ~conn[c].closed
        /\ pc \in {"dispose", "last"} => conn[c].closed /\ conn[c].sendbuf = NULL
        /\ SubSection(s) => conn[c].lock = 1

LockInv(c) ==
    conn[c].lock = 1 /\ ~Released(c) =>
        \/ \E w \in IOs : IOSection(w) /\ io[w].conn = c
        \/ \E s \in Submitters : SubSection(s) /\ sub[s].conn = c

Structure ==
    /\ Types /\ ListenInv
    /\ \A a \in Acceptors : AcceptInv(a)
    /\ \A c \in Conns : SessionInv(c) /\ LockInv(c)
    /\ \A w \in IOs : IOInv(w) /\ EventInv(w)
    /\ \A s \in Submitters : SubmitInv(s)

----------------------------------------------------------------------------
\* Ownership

\* Buffer b is at a place of kind p, of session or thread i.
At(b, p, i) ==
    \/ p = "pool" /\ i = NULL /\ b \in Elems(empty_buffers)
    \/ p = "compute" /\ i \in Computes /\ b \in Elems(compute_inbox[i])
    \/ p = "computing" /\ i \in Computes /\ cmp[i] = b
    \/ p = "submit" /\ i \in Submitters /\ b \in Elems(submitter_inbox[i])
    \/ p = "submitting" /\ i \in Submitters /\ sub[i].buff = b /\ sub[i].pc \in {"try", "put"}
    \/ p = "queue" /\ i \in Conns /\ b \in Elems(conn[i].send_queue)
    \/ p = "sendbuf" /\ i \in Conns /\ conn[i].sendbuf = b /\ ~conn[i].closed
    \/ p = "recvbuf" /\ i \in Conns /\ conn[i].recvbuf = b /\ ~conn[i].closed

PlaceKinds == {"pool", "compute", "computing", "submit", "submitting", "queue",
               "sendbuf", "recvbuf"}
PlaceIds == {NULL} \cup Computes \cup Submitters \cup Conns

Located(b) ==
    \E p \in PlaceKinds, i \in PlaceIds :
        /\ At(b, p, i)
        /\ \A q \in PlaceKinds, j \in PlaceIds : At(b, q, j) => q = p /\ j = i

QueuesInj ==
    /\ Inj(empty_buffers)
    /\ \A x \in Computes : Inj(compute_inbox[x])
    /\ \A s \in Submitters : Inj(submitter_inbox[s])
    /\ \A c \in Conns : Inj(conn[c].send_queue)

AtSubmitter(b, s) ==
    b \in Elems(submitter_inbox[s]) \/ (sub[s].buff = b /\ sub[s].pc \in {"try", "put"})
Pipelined(b) ==
    \/ \E x \in Computes : b \in Elems(compute_inbox[x]) \/ cmp[x] = b
    \/ \E s \in Submitters : AtSubmitter(b, s)

\* The session a buffer names is its own, and exists while the buffer is away.
BufferInv(b) ==
    LET c == buf[b].conn
    IN  /\ Pipelined(b) => c \in Conns /\ ~Released(c)
        /\ \A s \in Submitters :
             /\ AtSubmitter(b, s) => conn[c].submitidx = s
             /\ sub[s].buff = b /\ sub[s].pc \in {"try", "put"} => sub[s].conn = c
        /\ \A d \in Conns : b \in {conn[d].recvbuf, conn[d].sendbuf} /\ ~conn[d].closed => c = d

Ownership ==
    /\ QueuesInj
    /\ \A b \in Buffers : Located(b) /\ BufferInv(b)

----------------------------------------------------------------------------
\* Counting

CountInv(c) ==
    /\ ~Released(c) => conn[c].received = conn[c].processed + Cardinality(InFlight(c))
    /\ ~conn[c].closed =>
         conn[c].processed = conn[c].sent + Len(conn[c].send_queue) + Count(conn[c].sendbuf)
    /\ conn[c].closed /\ conn[c].sendbuf # NULL =>
         /\ conn[c].received = conn[c].processed /\ conn[c].sent < conn[c].received
         /\ Readahead = 0
    /\ conn[c].received <= conn[c].sent + Readahead + 1
    /\ conn[c].recvbuf # NULL => conn[c].received <= conn[c].sent + Readahead

Arming(c) == \E s \in Submitters : sub[s].pc = "arm" /\ sub[s].conn = c
Clearing(c) == \E w \in IOs : io[w].pc \in {"resp_lock", "resp_unlock"} /\ io[w].conn = c

\* EPOLLOUT, and what is about to be done about it, while others hold the lock too.
OutInv(c) ==
    LET out == "OUT" \in conn[c].epoll_state \/ Arming(c)
        due == conn[c].processed > conn[c].sent
    IN  ~conn[c].closed => (due => out) /\ (out => due \/ Clearing(c))

Counting == \A c \in Conns : CountInv(c) /\ OutInv(c)

----------------------------------------------------------------------------
\* Bytes

SocketInv(k) ==
    /\ sock[k].consumed <= sock[k].wrote /\ sock[k].wrote <= MaxRequests * ReqLen
    /\ sock[k].got <= Len(sock[k].stream) /\ Len(sock[k].stream) <= sock[k].got + SockBuf
    /\ Len(sock[k].stream) * ReqLen <= sock[k].consumed * RespLen
    /\ sock[k].link = "none" => sock[k].peer = "open"
    /\ sock[k].link \in {"none", "backlog"} => sock[k].consumed = 0 /\ sock[k].stream = <<>>
    /\ \A a \in Acceptors : acc[a].pc = "init" /\ acc[a].fd = k =>
         sock[k].consumed = 0 /\ sock[k].stream = <<>>
    /\ "half" \notin Closing => sock[k].peer # "half"
    /\ "abort" \notin Closing /\ sock[k].link # "shut" =>
         /\ sock[k].peer = "closed" => AllAnswered(k)
         /\ ~sock[k].err

\* The bytes of a message that are received or sent already.
ReqBytes(b) == IF b = NULL THEN 0 ELSE ReqLen - buf[b].left
RespBytes(b) == IF b = NULL THEN 0 ELSE RespLen - buf[b].left

\* A message of which no byte is left is about to be passed on.
WireInv(c) ==
    LET k == conn[c].fd
        r == conn[c].recvbuf
        s == conn[c].sendbuf
    IN ~conn[c].closed =>
        /\ sock[k].consumed = conn[c].received * ReqLen + ReqBytes(r)
        /\ Len(sock[k].stream) = conn[c].sent * RespLen + RespBytes(s)
        /\ r # NULL => buf[r].left \in 0 .. ReqLen
        /\ r # NULL /\ buf[r].left = 0 =>
             \E w \in IOs : io[w].pc \in {"req_lock", "req_put"} /\ io[w].conn = c
        /\ s # NULL => buf[s].left \in 0 .. RespLen
        /\ s # NULL /\ buf[s].left = 0 => \E w \in IOs : io[w].pc = "sent" /\ io[w].conn = c

IOWireInv(w) ==
    LET c == io[w].conn
    IN  /\ io[w].pc \in {"req_lock", "req_put"} => buf[conn[c].recvbuf].left = 0
        /\ io[w].pc = "sent" => buf[conn[c].sendbuf].left = 0
        /\ io[w].pc \in {"finish", "fin_drain"} /\ "abort" \notin Closing =>
             /\ sock[conn[c].fd].peer # "open"
             /\ conn[c].sendbuf = NULL
        /\ \A e \in io[w].events : e.err => "abort" \in Closing

\* A response that cannot fill the socket leaves in one visit.
FillInv(c) ==
    Closing # {} /\ Readahead # 0 /\ ~conn[c].closed /\ conn[c].sendbuf # NULL =>
        \E w \in IOs : io[w].pc \in {"resp", "send", "sent"} /\ io[w].conn = c

Bytes ==
    /\ \A k \in Clients : SocketInv(k)
    /\ \A c \in Conns : WireInv(c) /\ FillInv(c)
    /\ \A w \in IOs : IOWireInv(w)

ServerInv == Structure /\ Ownership /\ Counting /\ Bytes

----------------------------------------------------------------------------
\* Facts that need ServerInv, and that ServerInv does not need

\* A thread in epoll_wait has no session.
Waiting == \A w \in IOs : io[w].pc = "wait" => io[w].conn = NULL

\* A closed session that is not released will be, if its response was not half
\* sent: by a thread that is about to, or when a buffer in flight arrives.
Ending(c) ==
    \/ \E w \in IOs : io[w].pc = "fin_end" /\ io[w].conn = c
    \/ \E s \in Submitters : sub[s].pc \in {"dispose", "last"} /\ sub[s].conn = c
ClosedInv(c) ==
    conn[c].closed =>
        /\ conn[c].sendbuf = NULL
        /\ Released(c) \/ conn[c].received # conn[c].processed \/ Ending(c)
Delegated == \A c \in Conns : ClosedInv(c)

\* What epoll_wait reported as readable is so until its thread reads it, and a
\* session that takes a buffer for a request has bytes to read, or an answer to
\* give, and so another buffer on its way.
EventReady(w) ==
    \A e \in io[w].events :
        /\ e.err \/ e.out \/ e.in
        /\ e.in /\ ~conn[e.conn].closed => Readable(conn[e.conn].fd)
Answering(c) == conn[c].sent < conn[c].received
HandlerReady(w) ==
    LET c == io[w].conn
    IN  Busy(w) /\ ~conn[c].closed =>
        /\ io[w].in => Readable(conn[c].fd)
        /\ io[w].pc = "req" /\ conn[c].recvbuf = NULL => Readable(conn[c].fd) \/ Answering(c)
        /\ io[w].pc = "req_unlock" => Answering(c)
ReadyInv == \A w \in IOs : EventReady(w) /\ HandlerReady(w)

\* The requests of session c that are received and not in its stream in full:
\* each is another one, and of one that is being sent the stream has the part
\* that its buffer says.
Queued(c) == InFlight(c) \cup Elems(conn[c].send_queue)
Numbered(c) == {conn[c].fd} \X (1 .. conn[c].received)
QueuedMsgs(c) ==
    LET st == sock[conn[c].fd].stream
    IN  /\ Elems(st) \subseteq Numbered(c)
        /\ \A b \in Queued(c) : buf[b].msg \in Numbered(c) \ Elems(st)
        /\ \A b, d \in Queued(c) : buf[b].msg = buf[d].msg => b = d
SendingMsg(c) ==
    LET st == sock[conn[c].fd].stream
        s == conn[c].sendbuf
    IN  s # NULL =>
          /\ buf[s].msg \in Numbered(c)
          /\ \A b \in Queued(c) : buf[b].msg # buf[s].msg
          /\ \A i \in DOMAIN st : st[i] = buf[s].msg <=> i > conn[c].sent * RespLen
ReceivedMsg(c) ==
    LET r == conn[c].recvbuf
    IN  r # NULL /\ buf[r].left = 0 => buf[r].msg = <<conn[c].fd, conn[c].received + 1>>
AnswersInv(c) == ~conn[c].closed => QueuedMsgs(c) /\ SendingMsg(c) /\ ReceivedMsg(c)

\* The stream of client k is a sequence of whole responses, but for the last.
Whole(k) == {n \in Nat \ {0} : n * ReqLen <= sock[k].consumed}
Framed(k) ==
    LET st == sock[k].stream
    IN  /\ Elems(st) \subseteq {k} \X Whole(k)
        /\ \A i, j \in DOMAIN st :
             st[i] = st[j] <=> (i - 1) \div RespLen = (j - 1) \div RespLen

Answers == /\ \A c \in Conns : AnswersInv(c)
           /\ \A k \in Clients : Framed(k)
=============================================================================

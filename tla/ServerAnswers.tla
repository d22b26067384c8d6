---------------------------- MODULE ServerAnswers ----------------------------
(***************************************************************************)
(* Two properties of Server that take more than its invariant: buffers go  *)
(* on moving (PoolCirculates), and what a client reads is one whole answer *)
(* after another (ResponsesFramed).                                        *)
(*                                                                         *)
(* The first needs ReadyInv: what epoll_wait reported as readable still is *)
(* when its thread gets there, so that a session takes the last buffer     *)
(* only for bytes that have come, or while its own are on their way back.  *)
(* The second needs Answers: the messages of the buffers of a session are  *)
(* apart from each other and from what its stream has, but for the one     *)
(* half sent, of which the stream ends with the part that sendbuf says.    *)
(* Both hold in Init and are kept by each step from a state of ServerInv.  *)
(***************************************************************************)
EXTENDS ServerProofs

----------------------------------------------------------------------------
\* What is read and what is answered: ReadyInv

\* Socket k stays readable.
StillReadable(k) ==
    Readable(k) => sock'[k].wrote - sock'[k].consumed > 0 \/ sock'[k].peer # "open"

\* Nothing that others count on is taken from session d, if it stays open.
ReadySame(d) ==
    ~conn'[d].closed =>
        /\ ~conn[d].closed /\ conn'[d].fd = conn[d].fd /\ StillReadable(conn[d].fd)
        /\ conn'[d].recvbuf = NULL => conn[d].recvbuf = NULL
        /\ conn[d].sent < conn[d].received => conn'[d].sent < conn'[d].received

LEMMA EventsReady ==
    ASSUME Structure, NEW v \in IOs, EventReady(v), io'[v].events \subseteq io[v].events,
           \A d \in Conns : conn[d].ioidx = v /\ ~(Busy(v) /\ io[v].conn = d) =>
             Released(d) \/ ReadySame(d)
    PROVE  EventReady(v)'
  <1> SUFFICES ASSUME NEW e, e \in io'[v].events
               PROVE  /\ e.err \/ e.out \/ e.in
                      /\ e.in /\ ~conn'[e.conn].closed =>
                           \/ sock'[conn'[e.conn].fd].wrote - sock'[conn'[e.conn].fd].consumed > 0
                           \/ sock'[conn'[e.conn].fd].peer # "open"
    BY DEF EventReady, Readable, Avail
  <1>1. e \in io[v].events
    OBVIOUS
  <1>2. e.conn \in Conns
    BY <1>1 DEF Structure, Types, IOType, EventType
  <1>3. conn[e.conn].ioidx = v /\ ~Released(e.conn) /\ ~(Busy(v) /\ io[v].conn = e.conn)
    BY <1>1 DEF Structure, EventInv
  <1>4. ReadySame(e.conn)
    BY <1>2, <1>3
  <1>5. /\ e.err \/ e.out \/ e.in
        /\ e.in /\ ~conn[e.conn].closed => Readable(conn[e.conn].fd)
    BY <1>1 DEF EventReady
  <1> QED
    BY <1>4, <1>5 DEF ReadySame, StillReadable

\* A thread that the step is not of.
LEMMA OthersReady ==
    ASSUME Structure, NEW v \in IOs, EventReady(v), HandlerReady(v), io'[v] = io[v],
           \A d \in Conns : conn[d].ioidx = v => Released(d) \/ ReadySame(d)
    PROVE  EventReady(v)' /\ HandlerReady(v)'
  <1>1. EventReady(v)'
    BY EventsReady
  <1>2. HandlerReady(v)'
    <2> PICK c : c = io[v].conn
      OBVIOUS
    <2> SUFFICES ASSUME Busy(v), ~conn'[c].closed
                 PROVE  HandlerReady(v)'
      BY DEF HandlerReady, Busy
    <2>1. c \in Conns /\ conn[c].ioidx = v /\ ~Released(c)
      BY BusyConn
    <2>2. ReadySame(c)
      BY <2>1
    <2>3. /\ ~conn[c].closed /\ conn'[c].fd = conn[c].fd
          /\ Readable(conn[c].fd) => Readable(conn[c].fd)'
          /\ conn'[c].recvbuf = NULL => conn[c].recvbuf = NULL
          /\ Answering(c) => Answering(c)'
      BY <2>2 DEF ReadySame, StillReadable, Answering, Readable, Avail
    <2> QED
      BY <2>3 DEF HandlerReady, Readable, Avail, Answering
  <1> QED
    BY <1>1, <1>2

\* The thread of a step, and the sessions it has nothing to do with.
LEMMA SelfReady ==
    ASSUME Structure, ReadyInv, NEW w \in IOs, Busy(w), NEW c \in Conns, io[w].conn = c,
           \A v \in IOs \ {w} : io'[v] = io[v], io'[w].events = io[w].events, OnlyConn(c),
           \A k \in Clients : StillReadable(k) \/ (~conn[c].closed /\ k = conn[c].fd),
           HandlerReady(w)'
    PROVE  ReadyInv'
  <1>1. ASSUME NEW d \in Conns, d # c PROVE ReadySame(d)
    <2> SUFFICES ASSUME ~conn'[d].closed PROVE ReadySame(d)
      BY DEF ReadySame
    <2>1. conn'[d] = conn[d] /\ conn[d].fd \in Clients
      BY <1>1 DEF OnlyConn, Structure, SessionInv
    <2>2. ~conn[c].closed => conn[c].fd # conn[d].fd
      BY <1>1, <2>1 DEF Structure, SessionInv
    <2>3. StillReadable(conn[d].fd)
      BY <2>1, <2>2
    <2> QED
      BY <2>1, <2>3 DEF ReadySame
  <1>2. conn[c].ioidx = w
    BY BusyConn
  <1>3. ASSUME NEW v \in IOs, v # w PROVE EventReady(v)' /\ HandlerReady(v)'
    BY <1>1, <1>2, <1>3, OthersReady DEF ReadyInv
  <1>4. EventReady(w)'
    BY <1>1, EventsReady DEF ReadyInv
  <1> QED
    BY <1>3, <1>4 DEF ReadyInv

\* A step of a thread that is not an IO thread.
LEMMA QuietReady ==
    ASSUME Structure, ReadyInv, UNCHANGED io, \A d \in Conns : Released(d) \/ ReadySame(d)
    PROVE  ReadyInv'
  BY OthersReady DEF ReadyInv

\* The handlers of a response and finish_connection read nothing, and no peer opens again.
LEMMA RespStill ==
    ASSUME Structure, NEW w \in IOs,
           \/ RespTake(w) \/ Send(w) \/ RespSent(w) \/ RespLock(w) \/ RespUnlock(w)
           \/ FinishTry(w) \/ FinishDrain(w) \/ FinishEnd(w)
    PROVE  \A k \in Clients : StillReadable(k)
  <1>1. ASSUME NEW k \in Clients,
               /\ sock'[k].wrote = sock[k].wrote /\ sock'[k].consumed = sock[k].consumed
               /\ sock'[k].peer = sock[k].peer
        PROVE  StillReadable(k)
    BY <1>1 DEF StillReadable, Readable, Avail
  <1>2. CASE FinishDrain(w)
    BY <1>1, <1>2, FinishDrainDoes, Zenon DEF OnlySock, SamePeer, SameServed
  <1>3. CASE Send(w)
    BY <1>1, <1>3, SendDoes, Zenon DEF OnlySock, SamePeer
  <1>4. CASE ~FinishDrain(w) /\ ~Send(w)
    <2>1. UNCHANGED sock
      BY <1>4, RespTakeDoes, RespSentDoes, RespLockDoes, RespUnlockDoes, FinishTryDoes,
         FinishEndDoes, Zenon
    <2> QED
      BY <1>1, <2>1
  <1> QED
    BY <1>2, <1>3, <1>4

\* Handlers of a response, and the end of a session.
LEMMA RespReady ==
    ASSUME Structure, ReadyInv, NEW w \in IOs,
           \/ RespTake(w) \/ Send(w) \/ RespSent(w) \/ RespLock(w) \/ RespUnlock(w)
           \/ FinishTry(w) \/ FinishDrain(w) \/ FinishEnd(w)
    PROVE  ReadyInv'
  <1>0. Busy(w)
    BY Zenon DEF Busy, RespTake, Send, RespSent, RespLock, RespUnlock, FinishTry, FinishDrain, FinishEnd
  <1> PICK c \in Conns : c = io[w].conn
    BY <1>0, BusyConn
  <1>1. /\ \A v \in IOs \ {w} : io'[v] = io[v]
        /\ io'[w].events = io[w].events /\ io'[w].conn = c
        /\ io'[w].in => io[w].in
        /\ io'[w].pc = "req" => io[w].in
        /\ io'[w].pc # "req_unlock"
    <2>1. (\E l \in {"send", "sent", "resp", "resp_lock", "resp_unlock", "finish", "fin_drain", "fin_end"} :
              Goes(w, l)) \/ Returns(w)
      <3>1. CASE RespTake(w) \/ RespSent(w) \/ RespLock(w) \/ RespUnlock(w)
        BY <3>1, RespTakeDoes, RespSentDoes, RespLockDoes, RespUnlockDoes, Zenon
      <3>2. CASE FinishTry(w) \/ FinishDrain(w) \/ FinishEnd(w)
        BY <3>2, FinishTryDoes, FinishDrainDoes, FinishEndDoes, Zenon
      <3>3. CASE Send(w)
        BY <3>3, SendDoes, Zenon
      <3> QED
        BY <3>1, <3>2, <3>3
    <2> QED
      BY <2>1 DEF Goes, Returns
  <1>2. \A k \in Clients : StillReadable(k)
    BY RespStill
  <1>3. /\ OnlyConn(c)
        /\ conn'[c].fd = conn[c].fd /\ (conn[c].closed => conn'[c].closed)
    <2>1. UNCHANGED conn => OnlyConn(c) /\ conn'[c].fd = conn[c].fd /\ conn'[c].closed = conn[c].closed
      BY DEF OnlyConn
    <2>2. CASE RespTake(w) \/ Send(w)
      BY <2>1, <2>2, RespTakeDoes, SendDoes, Zenon DEF SameOwner
    <2>3. CASE RespSent(w) \/ RespLock(w) \/ RespUnlock(w)
      BY <2>3, RespSentDoes, RespLockDoes, RespUnlockDoes, Zenon DEF SameOwner
    <2>4. CASE FinishTry(w) \/ FinishDrain(w) \/ FinishEnd(w)
      BY <2>1, <2>4, FinishTryDoes, FinishDrainDoes, FinishEndDoes, Zenon DEF SameOwner
    <2> QED
      BY <2>2, <2>3, <2>4
  <1>4. HandlerReady(w)'
    <2>1. HandlerReady(w) /\ (StillReadable(conn[c].fd) \/ conn[c].closed)
      BY <1>2 DEF ReadyInv, Structure, SessionInv
    <2> QED
      BY <1>0, <1>1, <1>3, <2>1 DEF HandlerReady, StillReadable, Readable, Avail
  <1> QED
    BY <1>0, <1>1, <1>2, <1>3, <1>4, SelfReady

\* handle_request: the one that asks epoll_wait's event, or the request before, for
\* a reason to read on.
LEMMA ReqReady ==
    ASSUME Structure, Counting, ReadyInv, NEW w \in IOs,
           ReqTake(w) \/ Recv(w) \/ ReqLock(w) \/ ReqPut(w) \/ ReqUnlock(w)
    PROVE  ReadyInv'
  <1>0. Busy(w) /\ ~io[w].in
    BY Zenon DEF Structure, IOInv, Busy, ReqTake, Recv, ReqLock, ReqPut, ReqUnlock
  <1> PICK c \in Conns : c = io[w].conn
    BY <1>0, BusyConn
  <1>1. /\ \A v \in IOs \ {w} : io'[v] = io[v]
        /\ io'[w].events = io[w].events /\ io'[w].conn = c
        /\ ~io'[w].in
    <2>1. (\E l \in {"recv", "finish", "req_lock", "req", "req_put", "req_unlock"} : Goes(w, l))
          \/ Returns(w)
      <3>1. CASE ReqLock(w) \/ ReqPut(w) \/ ReqUnlock(w)
        BY <3>1, ReqLockDoes, ReqPutDoes, ReqUnlockDoes, Zenon
      <3>2. CASE ReqTake(w)
        BY <3>2, ReqTakeDoes, Zenon
      <3>3. CASE Recv(w)
        BY <3>3, RecvDoes, Zenon
      <3> QED
        BY <3>1, <3>2, <3>3
    <2> QED
      BY <1>0, <2>1 DEF Goes, Returns
  <1>2. ASSUME NEW k \in Clients PROVE StillReadable(k) \/ (~conn[c].closed /\ k = conn[c].fd)
    <2>1. CASE ~Recv(w)
      <3>1. UNCHANGED sock
        BY <2>1, ReqTakeDoes, ReqLockDoes, ReqPutDoes, ReqUnlockDoes, Zenon
      <3> QED
        BY <3>1 DEF StillReadable, Readable, Avail
    <2>2. CASE Recv(w)
      <3>1. OnlySock(conn[c].fd) \/ UNCHANGED sock
        BY <2>2, RecvDoes, Zenon
      <3>2. ~conn[c].closed
        BY <1>0, <2>2, Zenon DEF Structure, IOInv, Recv
      <3> QED
        BY <3>1, <3>2 DEF OnlySock, StillReadable, Readable, Avail
    <2> QED
      BY <2>1, <2>2
  <1>3. OnlyConn(c)
    <2>1. UNCHANGED conn => OnlyConn(c)
      BY DEF OnlyConn
    <2>2. CASE Recv(w) \/ ReqTake(w)
      BY <2>1, <2>2, RecvDoes, ReqTakeDoes, Zenon
    <2>3. CASE ReqLock(w) \/ ReqPut(w) \/ ReqUnlock(w)
      BY <2>3, ReqLockDoes, ReqPutDoes, ReqUnlockDoes, Zenon
    <2> QED
      BY <2>2, <2>3
  <1>4. HandlerReady(w)'
    <2>0. ASSUME /\ io'[w].pc = "req" /\ ~conn'[c].closed /\ conn'[c].recvbuf = NULL
                      => conn'[c].sent < conn'[c].received
                 /\ io'[w].pc = "req_unlock" => conn'[c].sent < conn'[c].received
          PROVE  HandlerReady(w)'
      BY <1>1, <2>0 DEF HandlerReady, Answering
    <2>1. CASE ReqTake(w) \/ ReqLock(w)
      <3>1. io'[w].pc \notin {"req", "req_unlock"}
        <4>1. CASE ReqTake(w)
          BY <1>0, <4>1, ReqTakeDoes DEF Goes, Returns
        <4>2. CASE ReqLock(w)
          BY <4>2, ReqLockDoes DEF Goes
        <4> QED
          BY <2>1, <4>1, <4>2
      <3> QED
        BY <2>0, <3>1
    <2>2. CASE Recv(w)
      <3>1. conn'[c].recvbuf # NULL
        BY <2>2, RecvDoes, Constants, Zenon
      <3>2. io'[w].pc # "req_unlock"
        <4>1. (\E l \in {"recv", "finish", "req_lock", "req"} : Goes(w, l)) \/ Returns(w)
          BY <2>2, RecvDoes, Zenon
        <4> QED
          BY <1>0, <4>1 DEF Goes, Returns
      <3> QED
        BY <2>0, <3>1, <3>2
    <2>3. CASE ReqPut(w)
      <3>1. conn'[c].received = conn[c].received + 1 /\ conn'[c].sent = conn[c].sent
        BY <2>3, ReqPutDoes
      <3>2. ~conn[c].closed /\ ~Released(c)
        BY <1>0, <2>3, BusyConn, Zenon DEF Structure, IOInv, ReqPut
      <3>3. conn[c].sent <= conn[c].received /\ conn[c].received \in Nat /\ conn[c].sent \in Nat
        BY <3>2, SendingAnswers, CountTypes
      <3> QED
        BY <2>0, <3>1, <3>3
    <2>4. CASE ReqUnlock(w)
      <3>1. /\ SameOwner(c) /\ SameCounts(c) /\ io'[w].pc = "req" /\ io[w].pc = "req_unlock"
        BY <2>4, ReqUnlockDoes DEF Goes
      <3>2. ~conn[c].closed
        BY <1>0, <3>1 DEF Structure, IOInv
      <3>3. conn[c].sent < conn[c].received
        BY <1>0, <3>1, <3>2 DEF ReadyInv, HandlerReady, Answering
      <3> QED
        BY <2>0, <3>1, <3>3 DEF SameCounts
    <2> QED
      BY <2>1, <2>2, <2>3, <2>4
  <1> QED
    BY <1>0, <1>1, <1>2, <1>3, <1>4, SelfReady

\* epoll_wait reports what is so.
LEMMA WaitReady ==
    ASSUME Structure, ReadyInv, NEW w \in IOs, EpollWait(w)
    PROVE  ReadyInv'
  <1>1. /\ UNCHANGED <<conn, sock>> /\ \A v \in IOs \ {w} : io'[v] = io[v]
        /\ io'[w].pc = "dispatch"
    BY EpollWaitDoes
  <1>2. \A d \in Conns : ReadySame(d)
    BY <1>1 DEF ReadySame, StillReadable, Readable, Avail
  <1>3. ASSUME NEW v \in IOs, v # w PROVE EventReady(v)' /\ HandlerReady(v)'
    BY <1>1, <1>2, <1>3, OthersReady DEF ReadyInv
  <1>4. HandlerReady(w)'
    BY <1>1 DEF HandlerReady, Busy
  <1>5. EventReady(w)'
    <2> SUFFICES ASSUME NEW e, e \in io'[w].events
                 PROVE  /\ e.err \/ e.out \/ e.in
                        /\ e.in => Readable(conn[e.conn].fd)
      BY <1>1 DEF EventReady, Readable, Avail
    <2>1. e = Event(e.conn)
      BY EpollWaitDoes
    <2>2. PICK E \in SUBSET ReadyEvents(w) :
             io' = [io EXCEPT ![w].pc = "dispatch", ![w].events = E]
      BY DEF EpollWait
    <2>3. e \in E
      BY <2>2 DEF Structure, Types, IOType
    <2>4. e.err \/ e.out \/ e.in
      BY <2>3, Zenon DEF ReadyEvents
    <2>5. e.in = ("IN" \in conn[e.conn].epoll_state /\ Readable(conn[e.conn].fd))
      BY <2>1 DEF Event
    <2> QED
      BY <2>4, <2>5
  <1> QED
    BY <1>3, <1>4, <1>5 DEF ReadyInv

LEMMA DispatchReady ==
    ASSUME Structure, ReadyInv, NEW w \in IOs, Dispatch(w)
    PROVE  ReadyInv'
  <1>1. UNCHANGED <<conn, sock>> /\ \A v \in IOs \ {w} : io'[v] = io[v]
    BY DispatchDoes
  <1>2. \A d \in Conns : ReadySame(d)
    BY <1>1 DEF ReadySame, StillReadable, Readable, Avail
  <1>3. ASSUME NEW v \in IOs, v # w PROVE EventReady(v)' /\ HandlerReady(v)'
    BY <1>1, <1>2, <1>3, OthersReady DEF ReadyInv
  <1>4. io'[w].events \subseteq io[w].events
    BY DispatchDoes
  <1>5. EventReady(w)'
    BY <1>2, <1>4, EventsReady DEF ReadyInv
  <1>6. HandlerReady(w)'
    <2>1. CASE io'[w].pc = "wait"
      BY <2>1 DEF HandlerReady, Busy
    <2>2. CASE io'[w].pc # "wait"
      <3>1. PICK e \in io[w].events :
              /\ io'[w].pc = Handlers(e).first /\ io'[w].in = Handlers(e).in
              /\ io'[w].conn = e.conn
        BY <2>2, DispatchDoes, Zenon
      <3>2. /\ e.err \/ e.out \/ e.in
            /\ e.in /\ ~conn[e.conn].closed => Readable(conn[e.conn].fd)
        BY DEF ReadyInv, EventReady
      <3>3. Handlers(e).first # "req_unlock"
        BY Zenon DEF Handlers
      <3>4. Handlers(e).in => e.in
        BY Zenon DEF Handlers
      <3>5. Handlers(e).first = "req" => e.in
        BY <3>2, Zenon DEF Handlers
      <3> QED
        BY <1>1, <3>1, <3>2, <3>3, <3>4, <3>5 DEF HandlerReady, Readable, Avail
    <2> QED
      BY <2>1, <2>2
  <1> QED
    BY <1>3, <1>5, <1>6 DEF ReadyInv

\* The other threads take nothing of what an IO thread was told of.
LEMMA OtherThreadsReady ==
    ASSUME Structure, Ownership, ReadyInv,
           \/ \E x \in Computes : ComputeGet(x) \/ ComputePut(x)
           \/ \E s \in Submitters : \/ SubmitGet(s) \/ SubmitTry(s) \/ SubmitPut(s)
                                    \/ SubmitArm(s) \/ SubmitUnlock(s) \/ SubmitLast(s)
           \/ \E a \in Acceptors : AcceptWait(a) \/ AcceptGet(a) \/ AcceptMiss(a) \/ AcceptFail(a)
           \/ UNCHANGED <<conn, buf, queues, threads, sock>>
    PROVE  ReadyInv'
  <1>1. ASSUME UNCHANGED <<io, sock>>, UNCHANGED conn \/ \E c \in Conns :
                 /\ OnlyConn(c) /\ SameOwner(c) /\ conn'[c].recvbuf = conn[c].recvbuf
                 /\ conn'[c].received = conn[c].received /\ conn'[c].sent = conn[c].sent
        PROVE  ReadyInv'
    <2>1. \A d \in Conns : ReadySame(d)
      BY <1>1 DEF ReadySame, StillReadable, Readable, Avail, OnlyConn, SameOwner
    <2> QED
      BY <1>1, <2>1, QuietReady
  <1>2. CASE \E x \in Computes : ComputeGet(x) \/ ComputePut(x)
    BY <1>1, <1>2, Zenon DEF ComputeGet, ComputePut
  <1>3. CASE \E s \in Submitters : \/ SubmitGet(s) \/ SubmitTry(s) \/ SubmitPut(s)
                                   \/ SubmitArm(s) \/ SubmitUnlock(s) \/ SubmitLast(s)
    <2> PICK s \in Submitters : \/ SubmitGet(s) \/ SubmitTry(s) \/ SubmitPut(s)
                                \/ SubmitArm(s) \/ SubmitUnlock(s) \/ SubmitLast(s)
      BY <1>3
    <2>1. CASE SubmitGet(s) \/ SubmitTry(s) \/ SubmitLast(s)
      BY <1>1, <2>1, SubmitGetDoes, SubmitTryDoes, SubmitLastDoes, Zenon
         DEF SameBuffers, SameCounts
    <2>2. CASE SubmitPut(s)
      BY <1>1, <2>2, SubmitPutDoes, Zenon
    <2>3. CASE SubmitArm(s) \/ SubmitUnlock(s)
      BY <1>1, <2>3, SubmitArmDoes, SubmitUnlockDoes, Zenon DEF SameBuffers, SameCounts
    <2> QED
      BY <2>1, <2>2, <2>3
  <1>4. CASE \E a \in Acceptors : AcceptWait(a) \/ AcceptGet(a) \/ AcceptMiss(a) \/ AcceptFail(a)
    BY <1>1, <1>4 DEF AcceptWait, AcceptGet, AcceptMiss, AcceptFail
  <1>5. CASE UNCHANGED <<conn, buf, queues, threads, sock>>
    BY <1>1, <1>5 DEF threads
  <1> QED
    BY <1>2, <1>3, <1>4, <1>5

\* A session that begins is one that no event is about.
LEMMA AcceptReady ==
    ASSUME Structure, ReadyInv, NEW a \in Acceptors,
           AcceptFd(a) \/ AcceptInit(a) \/ AcceptCtlFail(a)
    PROVE  ReadyInv'
  <1>1. CASE AcceptFd(a)
    <2>1. /\ UNCHANGED <<conn, io>>
          /\ \E k \in Clients : OnlySock(k) /\ SameServed(k) /\ SamePeer(k)
      BY <1>1, AcceptFdDoes, Zenon
    <2>2. \A j \in Clients : StillReadable(j)
      BY <2>1 DEF StillReadable, Readable, Avail, OnlySock, SameServed, SamePeer
    <2>3. \A d \in Conns : ReadySame(d)
      BY <2>1, <2>2 DEF ReadySame, Structure, SessionInv
    <2> QED
      BY <2>1, <2>3, QuietReady
  <1>2. CASE AcceptInit(a) \/ AcceptCtlFail(a)
    <2> PICK c \in Conns : c = acc[a].conn
      BY <1>2, AcceptInitDoes, AcceptCtlFailDoes, Zenon
    <2>1. UNCHANGED <<io, sock>> /\ OnlyConn(c)
      BY <1>2, AcceptInitDoes, AcceptCtlFailDoes, Zenon
    <2>2. Released(c)
      BY DEF Released, Taken
    <2>3. \A d \in Conns : Released(d) \/ ReadySame(d)
      BY <2>1, <2>2 DEF ReadySame, StillReadable, Readable, Avail, OnlyConn
    <2> QED
      BY <2>1, <2>3, QuietReady
  <1> QED
    BY <1>1, <1>2

\* A client adds to what can be read, or ends what it writes.
LEMMA ClientStill ==
    ASSUME Structure, NEW k \in Clients, ClientStep(k) \/ ClientShutdown(k)
    PROVE  UNCHANGED <<conn, buf, io>> /\ \A j \in Clients : StillReadable(j)
  <1>1. /\ UNCHANGED <<conn, buf, io>> /\ OnlySock(k) /\ SameServed(k)
        /\ sock[k].peer # "open" => sock'[k].peer # "open"
        /\ sock'[k].wrote = sock[k].wrote \/ sock'[k].wrote = sock[k].wrote + 1
    <2>1. CASE Connect(k)
      BY <2>1, ConnectDoes DEF server, threads, SamePeer
    <2>2. CASE ClientWrite(k)
      BY <2>2, ClientWriteDoes DEF server, threads
    <2>3. CASE ClientRead(k)
      BY <2>3, ClientReadDoes DEF server, threads
    <2>4. CASE ClientClose(k)
      BY <2>4, ClientCloseDoes DEF server, threads
    <2>5. CASE ClientShutdown(k)
      BY <2>5, ClientShutdownDoes DEF server, threads
    <2> QED
      BY <2>1, <2>2, <2>3, <2>4, <2>5 DEF ClientStep
  <1>2. sock[k].wrote \in Nat /\ sock[k].consumed \in Nat
    BY DEF Structure, Types, SockType
  <1> QED
    BY <1>1, <1>2 DEF StillReadable, Readable, Avail, OnlySock, SameServed

LEMMA ClientReady ==
    ASSUME Structure, ReadyInv, NEW k \in Clients, ClientStep(k) \/ ClientShutdown(k)
    PROVE  ReadyInv'
  <1>1. UNCHANGED <<conn, io>> /\ \A j \in Clients : StillReadable(j)
    BY ClientStill
  <1>2. \A d \in Conns : ReadySame(d)
    BY <1>1 DEF ReadySame, Structure, SessionInv
  <1> QED
    BY <1>1, <1>2, QuietReady

LEMMA ReadyStep ==
    ASSUME Structure, Ownership, Counting, ReadyInv, [Next]_vars
    PROVE  ReadyInv'
  <1>0. ASSUME UNCHANGED <<conn, buf, queues, threads, sock>> PROVE ReadyInv'
    BY <1>0, OtherThreadsReady
  <1>1. ASSUME NEW a \in Acceptors, AcceptStep(a) PROVE ReadyInv'
    BY <1>0, <1>1, OtherThreadsReady, AcceptReady DEF AcceptStep, AcceptIdle, IdleReturn
  <1>2. ASSUME NEW w \in IOs, IOStep(w) PROVE ReadyInv'
    BY <1>0, <1>2, WaitReady, DispatchReady, RespReady, ReqReady DEF IOStep, IOIdle, IdleReturn
  <1>3. ASSUME NEW x \in Computes, ComputeStep(x) PROVE ReadyInv'
    BY <1>0, <1>3, OtherThreadsReady DEF ComputeStep, ComputeIdle, IdleReturn
  <1>4. ASSUME NEW s \in Submitters, SubmitStep(s) PROVE ReadyInv'
    BY <1>0, <1>4, OtherThreadsReady DEF SubmitStep, SubmitIdle, IdleReturn
  <1>5. ASSUME NEW k \in Clients, ClientStep(k) \/ ClientShutdown(k) PROVE ReadyInv'
    BY <1>5, ClientReady
  <1>6. CASE Stop \/ Over \/ UNCHANGED vars
    BY <1>0, <1>6 DEF Stop, Over, vars
  <1> QED
    BY <1>1, <1>2, <1>3, <1>4, <1>5, <1>6 DEF Next

LEMMA InitReady ==
    ASSUME Init
    PROVE  ReadyInv
  BY DEF Init, ReadyInv, EventReady, HandlerReady, Busy

----------------------------------------------------------------------------
\* A buffer that is not parked

\* If b is parked at session d after the step, it was so before it.
Undisturbed(b, d) ==
    ~conn'[d].closed /\ conn'[d].recvbuf = b /\ buf'[b].left = ReqLen =>
        /\ ~conn[d].closed /\ conn[d].recvbuf = b /\ buf[b].left = ReqLen
        /\ conn'[d].fd = conn[d].fd /\ StillReadable(conn[d].fd)

LEMMA PoolQuiet ==
    ASSUME PoolCirculates, \A b \in Buffers, d \in Conns : Undisturbed(b, d)
    PROVE  PoolCirculates'
  <1> PICK b \in Buffers : ~Parked(b)
    BY DEF PoolCirculates
  <1>1. ASSUME NEW d \in Conns, ~conn'[d].closed, conn'[d].recvbuf = b, buf'[b].left = ReqLen
        PROVE  Readable(conn[d].fd)'
    <2>1. /\ ~conn[d].closed /\ conn[d].recvbuf = b /\ buf[b].left = ReqLen
          /\ conn'[d].fd = conn[d].fd /\ StillReadable(conn[d].fd)
      BY <1>1 DEF Undisturbed
    <2>2. Readable(conn[d].fd)
      BY <2>1 DEF Parked
    <2> QED
      BY <2>1, <2>2 DEF StillReadable, Readable, Avail
  <1> QED
    BY <1>1 DEF PoolCirculates, Parked

\* A buffer that no session reads into is not parked.
LEMMA PoolUnread ==
    ASSUME NEW b \in Buffers,
           \A d \in Conns : ~conn'[d].closed /\ conn'[d].recvbuf = b =>
             Readable(conn[d].fd)' \/ buf'[b].left # ReqLen
    PROVE  PoolCirculates'
  BY DEF PoolCirculates, Parked

\* The step changes no buffer, and no session's recvbuf.
LEMMA PoolSilent ==
    ASSUME Structure, PoolCirculates, UNCHANGED buf,
           \A d \in Conns : ~conn'[d].closed =>
             \/ conn'[d].recvbuf = NULL
             \/ /\ ~conn[d].closed /\ conn'[d].recvbuf = conn[d].recvbuf
                /\ conn'[d].fd = conn[d].fd,
           \A k \in Clients : StillReadable(k)
    PROVE  PoolCirculates'
  <1>1. ASSUME NEW b \in Buffers, NEW d \in Conns PROVE Undisturbed(b, d)
    <2>1. b # NULL /\ (~conn[d].closed => conn[d].fd \in Clients)
      BY Constants DEF Structure, SessionInv
    <2> QED
      BY <2>1 DEF Undisturbed
  <1> QED
    BY <1>1, PoolQuiet

\* Handlers of a response, and the end of a session: what they send is not what
\* a session reads into.
LEMMA RespPool ==
    ASSUME Structure, Ownership, PoolCirculates, NEW w \in IOs,
           \/ RespTake(w) \/ Send(w) \/ RespSent(w) \/ RespLock(w) \/ RespUnlock(w)
           \/ FinishTry(w) \/ FinishDrain(w) \/ FinishEnd(w)
    PROVE  PoolCirculates'
  <1>1. \A k \in Clients : StillReadable(k)
    BY RespStill
  <1>2. ASSUME NEW d \in Conns, ~conn'[d].closed
        PROVE  ~conn[d].closed /\ conn'[d].recvbuf = conn[d].recvbuf /\ conn'[d].fd = conn[d].fd
    <2>1. CASE RespTake(w) \/ Send(w)
      BY <1>2, <2>1, RespTakeDoes, SendDoes, Zenon DEF OnlyConn, SameOwner
    <2>2. CASE RespSent(w)
      BY <1>2, <2>2, RespSentDoes, Zenon DEF OnlyConn, SameOwner
    <2>3. CASE RespLock(w) \/ RespUnlock(w)
      BY <1>2, <2>3, RespLockDoes, RespUnlockDoes, Zenon DEF OnlyConn, SameOwner, SameBuffers
    <2>4. CASE FinishTry(w) \/ FinishEnd(w)
      BY <1>2, <2>4, FinishTryDoes, FinishEndDoes, Zenon DEF OnlyConn, SameOwner, SameBuffers
    <2>5. CASE FinishDrain(w)
      BY <1>2, <2>5, FinishDrainDoes, Zenon DEF OnlyConn
    <2> QED
      BY <2>1, <2>2, <2>3, <2>4, <2>5
  <1>3. CASE UNCHANGED buf
    BY <1>1, <1>2, <1>3, PoolSilent
  <1>4. CASE ~UNCHANGED buf
    <2>1. \E b \in Buffers, p \in {"queue", "sendbuf"}, c \in Conns : At(b, p, c) /\ OnlyBuf(b)
      <3>1. CASE RespTake(w)
        <4> PICK c \in Conns : c = io[w].conn
          BY <3>1, RespTakeDoes
        <4>1. conn[c].send_queue # <<>> /\ OnlyBuf(Head(conn[c].send_queue))
          BY <1>4, <3>1, RespTakeDoes
        <4>2. /\ Head(conn[c].send_queue) \in Buffers
              /\ Head(conn[c].send_queue) \in Elems(conn[c].send_queue)
          <5>1. conn[c].send_queue \in Seq(Buffers)
            BY Zenon DEF Structure, Types, ConnType
          <5>2. /\ Head(conn[c].send_queue) \in Buffers
                /\ Elems(conn[c].send_queue)
                     = Elems(Tail(conn[c].send_queue)) \cup {Head(conn[c].send_queue)}
            BY ONLY <4>1, <5>1, TailElems
          <5> QED
            BY ONLY <5>2
        <4> QED
          BY <4>1, <4>2 DEF At
      <3>2. CASE Send(w)
        <4> PICK c \in Conns : c = io[w].conn
          BY <3>2, SendDoes
        <4>1. conn[c].sendbuf \in Buffers /\ OnlyBuf(conn[c].sendbuf)
          BY <1>4, <3>2, SendDoes, Zenon
        <4>2. ~conn[c].closed
          BY <3>2, Zenon DEF Structure, IOInv, Busy, Send
        <4> QED
          BY <4>1, <4>2 DEF At
      <3> QED
        BY <1>4, <3>1, <3>2, RespSentDoes, RespLockDoes, RespUnlockDoes, FinishTryDoes,
           FinishDrainDoes, FinishEndDoes, Zenon
    <2> PICK b0 \in Buffers, p \in {"queue", "sendbuf"}, c \in Conns : At(b0, p, c) /\ OnlyBuf(b0)
      BY <2>1
    <2>2. ASSUME NEW b \in Buffers, NEW d \in Conns PROVE Undisturbed(b, d)
      <3> SUFFICES ASSUME ~conn'[d].closed, conn'[d].recvbuf = b, buf'[b].left = ReqLen
                   PROVE  buf'[b] = buf[b] /\ ~conn[d].closed /\ conn[d].recvbuf = b
                          /\ conn'[d].fd = conn[d].fd /\ StillReadable(conn[d].fd)
        BY DEF Undisturbed
      <3>1. ~conn[d].closed /\ conn[d].recvbuf = b /\ conn'[d].fd = conn[d].fd
        BY <1>2
      <3>2. conn[d].fd \in Clients
        BY <3>1 DEF Structure, SessionInv
      <3>3. p \in PlaceKinds /\ c \in PlaceIds
        BY DEF PlaceKinds, PlaceIds
      <3>4. b # b0
        BY <3>1, <3>3, OwnBuffer
      <3> QED
        BY <1>1, <3>1, <3>2, <3>4 DEF OnlyBuf
    <2> QED
      BY <2>2, PoolQuiet
  <1> QED
    BY <1>3, <1>4

\* handle_request takes a buffer for bytes that have come, or while an earlier
\* request of the session, which is in another one, is not answered.
LEMMA AnsweredElsewhere ==
    ASSUME Structure, Ownership, Counting, NEW c \in Conns, ~conn[c].closed, ~Released(c),
           Answering(c)
    PROVE  \E b \in Buffers, p \in PlaceKinds \ {"recvbuf", "pool"}, i \in PlaceIds : At(b, p, i)
  <1>1. /\ conn[c].received = conn[c].processed + Cardinality(InFlight(c))
        /\ conn[c].processed = conn[c].sent + Len(conn[c].send_queue) + Count(conn[c].sendbuf)
        /\ conn[c].sent < conn[c].received
    BY DEF Counting, CountInv, Answering
  <1>2. /\ conn[c].received \in Nat /\ conn[c].processed \in Nat /\ conn[c].sent \in Nat
        /\ conn[c].send_queue \in Seq(Buffers) /\ Len(conn[c].send_queue) \in Nat
        /\ conn[c].sendbuf \in Buffers \cup {NULL} /\ Count(conn[c].sendbuf) \in {0, 1}
    BY CountTypes
  <1>3. Cardinality(InFlight(c)) # 0 \/ Len(conn[c].send_queue) # 0 \/ Count(conn[c].sendbuf) # 0
    BY <1>1, <1>2
  <1>4. CASE Cardinality(InFlight(c)) # 0
    <2>1. PICK b \in Buffers : b \in InFlight(c)
      BY <1>4, FS_EmptySet DEF InFlight
    <2>2. \/ \E x \in Computes : At(b, "compute", x) \/ At(b, "computing", x)
          \/ \E s \in Submitters : At(b, "submit", s) \/ At(b, "submitting", s)
      BY <2>1, PipelinedAt
    <2> QED
      BY <2>2 DEF PlaceKinds, PlaceIds
  <1>5. CASE Len(conn[c].send_queue) # 0
    <2>1. conn[c].send_queue # <<>>
      BY <1>5
    <2>2. PICK b \in Buffers : b \in Elems(conn[c].send_queue)
      BY <1>2, <2>1, TailElems
    <2>3. At(b, "queue", c)
      BY <2>2 DEF At
    <2> QED
      BY <2>3 DEF PlaceKinds, PlaceIds
  <1>6. CASE Count(conn[c].sendbuf) # 0
    <2>1. conn[c].sendbuf \in Buffers
      BY <1>2, <1>6 DEF Count
    <2>2. At(conn[c].sendbuf, "sendbuf", c)
      BY DEF At
    <2> QED
      BY <2>1, <2>2 DEF PlaceKinds, PlaceIds
  <1> QED
    BY <1>3, <1>4, <1>5, <1>6

LEMMA ReqTakePool ==
    ASSUME Structure, Ownership, Counting, ReadyInv, PoolCirculates, NEW w \in IOs, ReqTake(w)
    PROVE  PoolCirculates'
  <1> PICK c \in Conns : c = io[w].conn
    BY ReqTakeDoes
  <1>0. UNCHANGED sock /\ \A k \in Clients : StillReadable(k)
    BY ReqTakeDoes DEF StillReadable, Readable, Avail
  <1>1. CASE UNCHANGED <<conn, buf>>
    BY <1>0, <1>1, PoolSilent
  <1>2. CASE ~UNCHANGED <<conn, buf>>
    <2> PICK b0 \in Buffers : b0 = Head(empty_buffers)
      BY <1>2, ReqTakeDoes
    <2>1. /\ conn[c].recvbuf = NULL /\ ~Full(c) /\ empty_buffers # <<>> /\ io[w].pc = "req"
          /\ OnlyConn(c) /\ SameOwner(c) /\ conn'[c].recvbuf = b0 /\ OnlyBuf(b0)
      BY <1>2, ReqTakeDoes
    <2>2. ~conn[c].closed /\ ~Released(c)
      BY <2>1, ReqClosed, BusyConn DEF Busy
    <2>3. Readable(conn[c].fd) \/ Answering(c)
      BY <2>1, <2>2 DEF ReadyInv, HandlerReady, Busy
    <2>4. At(b0, "pool", NULL) /\ "pool" \in PlaceKinds /\ NULL \in PlaceIds
      BY <2>1, TailElems DEF Structure, Types, At, PlaceKinds, PlaceIds
    <2>5. ASSUME NEW d \in Conns \ {c}, ~conn'[d].closed
          PROVE  conn'[d].recvbuf = conn[d].recvbuf /\ ~conn[d].closed
      BY <2>1, <2>5 DEF OnlyConn
    <2>6. CASE Readable(conn[c].fd)
      <3>1. \A d \in Conns : ~conn'[d].closed /\ conn'[d].recvbuf = b0 => d = c
        BY <2>4, <2>5, OwnBuffer
      <3>2. Readable(conn[c].fd)'
        BY <1>0, <2>1, <2>6 DEF SameOwner, Readable, Avail
      <3> QED
        BY <3>1, <3>2, PoolUnread
    <2>7. CASE Answering(c)
      <3> PICK b \in Buffers, p \in PlaceKinds \ {"recvbuf", "pool"}, i \in PlaceIds : At(b, p, i)
        BY <2>2, <2>7, AnsweredElsewhere
      <3>1. b # b0
        BY <2>4, OnePlace DEF Ownership
      <3>2. \A d \in Conns : ~(~conn'[d].closed /\ conn'[d].recvbuf = b)
        BY <2>1, <2>5, <3>1, OwnBuffer
      <3> QED
        BY <3>2, PoolUnread
    <2> QED
      BY <2>3, <2>6, <2>7
  <1> QED
    BY <1>1, <1>2

\* recv either moves a byte, and the buffer is not empty any more, or nothing.
LEMMA RecvPool ==
    ASSUME Structure, Bytes, PoolCirculates, NEW w \in IOs, Recv(w)
    PROVE  PoolCirculates'
  <1> PICK c \in Conns : c = io[w].conn
    BY RecvDoes
  <1>0. UNCHANGED conn
    BY RecvDoes
  <1>1. CASE UNCHANGED <<buf, sock>>
    <2>1. \A k \in Clients : StillReadable(k)
      BY <1>1 DEF StillReadable, Readable, Avail
    <2> QED
      BY <1>0, <1>1, <2>1, PoolSilent
  <1>2. CASE ~UNCHANGED <<buf, sock>>
    <2> PICK len \in Nat \ {0} : Receives(w, c, len)
      BY <1>2, RecvSome
    <2> PICK b \in Buffers : b = conn[c].recvbuf
      BY RecvDoes
    <2>1. ~conn[c].closed
      BY Zenon DEF Structure, IOInv, Busy, Recv
    <2>2. buf[b].left \in 0 .. ReqLen /\ ReqLen \in Nat
      BY <2>1, Constants DEF Bytes, WireInv
    <2>3. buf'[b].left # ReqLen
      BY <2>2 DEF Receives
    <2> QED
      BY <2>3, PoolUnread
  <1> QED
    BY <1>1, <1>2

\* The other threads and the clients.
LEMMA OthersPool ==
    ASSUME Structure, Ownership, PoolCirculates,
           \/ \E w \in IOs : \/ EpollWait(w) \/ Dispatch(w) \/ ReqLock(w) \/ ReqPut(w)
                             \/ ReqUnlock(w)
           \/ \E x \in Computes : ComputeGet(x) \/ ComputePut(x)
           \/ \E s \in Submitters : \/ SubmitGet(s) \/ SubmitTry(s) \/ SubmitPut(s)
                                    \/ SubmitArm(s) \/ SubmitUnlock(s) \/ SubmitLast(s)
           \/ \E a \in Acceptors : AcceptWait(a) \/ AcceptGet(a) \/ AcceptMiss(a) \/ AcceptFail(a)
           \/ UNCHANGED <<conn, buf, queues, threads, sock>>
    PROVE  PoolCirculates'
  <1>1. ASSUME UNCHANGED <<buf, sock>>, UNCHANGED conn \/ \E c \in Conns :
                 /\ OnlyConn(c) /\ SameOwner(c)
                 /\ conn'[c].recvbuf = NULL \/ conn'[c].recvbuf = conn[c].recvbuf
        PROVE  PoolCirculates'
    <2>1. \A k \in Clients : StillReadable(k)
      BY <1>1 DEF StillReadable, Readable, Avail
    <2>2. ASSUME NEW d \in Conns, ~conn'[d].closed
          PROVE  \/ conn'[d].recvbuf = NULL
                 \/ /\ ~conn[d].closed /\ conn'[d].recvbuf = conn[d].recvbuf
                    /\ conn'[d].fd = conn[d].fd
      BY <1>1, <2>2 DEF OnlyConn, SameOwner
    <2> QED
      BY <1>1, <2>1, <2>2, PoolSilent
  <1>2. CASE \E x \in Computes : ComputeGet(x) \/ ComputePut(x)
    BY <1>1, <1>2, Zenon DEF ComputeGet, ComputePut
  <1>3. CASE \E s \in Submitters : \/ SubmitGet(s) \/ SubmitTry(s) \/ SubmitPut(s)
                                   \/ SubmitArm(s) \/ SubmitUnlock(s) \/ SubmitLast(s)
    <2> PICK s \in Submitters : \/ SubmitGet(s) \/ SubmitTry(s) \/ SubmitPut(s)
                                \/ SubmitArm(s) \/ SubmitUnlock(s) \/ SubmitLast(s)
      BY <1>3
    <2>1. CASE SubmitGet(s) \/ SubmitTry(s) \/ SubmitLast(s)
      BY <1>1, <2>1, SubmitGetDoes, SubmitTryDoes, SubmitLastDoes, Zenon DEF SameBuffers
    <2>2. CASE SubmitPut(s)
      BY <1>1, <2>2, SubmitPutDoes, Zenon
    <2>3. CASE SubmitArm(s) \/ SubmitUnlock(s)
      BY <1>1, <2>3, SubmitArmDoes, SubmitUnlockDoes, Zenon DEF SameBuffers
    <2> QED
      BY <2>1, <2>2, <2>3
  <1>4. CASE \E a \in Acceptors : AcceptWait(a) \/ AcceptGet(a) \/ AcceptMiss(a) \/ AcceptFail(a)
    BY <1>1, <1>4 DEF AcceptWait, AcceptGet, AcceptMiss, AcceptFail
  <1>5. CASE \E w \in IOs : \/ EpollWait(w) \/ Dispatch(w) \/ ReqLock(w) \/ ReqPut(w)
                            \/ ReqUnlock(w)
    <2> PICK w \in IOs : EpollWait(w) \/ Dispatch(w) \/ ReqLock(w) \/ ReqPut(w) \/ ReqUnlock(w)
      BY <1>5
    <2>1. CASE EpollWait(w) \/ Dispatch(w)
      BY <1>1, <2>1, EpollWaitDoes, DispatchDoes
    <2>2. CASE ReqLock(w) \/ ReqUnlock(w) \/ ReqPut(w)
      BY <1>1, <2>2, ReqLockDoes, ReqUnlockDoes, ReqPutDoes, Zenon DEF SameBuffers
    <2> QED
      BY <2>1, <2>2
  <1>6. CASE UNCHANGED <<conn, buf, queues, threads, sock>>
    BY <1>1, <1>6
  <1> QED
    BY <1>2, <1>3, <1>4, <1>5, <1>6

\* A session that begins has no recvbuf; its connection has not been read from.
LEMMA AcceptPool ==
    ASSUME Structure, PoolCirculates, NEW a \in Acceptors,
           AcceptFd(a) \/ AcceptInit(a) \/ AcceptCtlFail(a)
    PROVE  PoolCirculates'
  <1>1. UNCHANGED buf
    BY AcceptFdDoes, AcceptInitDoes, AcceptCtlFailDoes, Zenon
  <1>2. CASE AcceptFd(a)
    <2>1. /\ UNCHANGED conn
          /\ \E k \in Clients : OnlySock(k) /\ SameServed(k) /\ SamePeer(k)
      BY <1>2, AcceptFdDoes, Zenon
    <2>2. \A j \in Clients : StillReadable(j)
      BY <2>1 DEF StillReadable, Readable, Avail, OnlySock, SameServed, SamePeer
    <2> QED
      BY <1>1, <2>1, <2>2, PoolSilent
  <1>3. CASE AcceptInit(a) \/ AcceptCtlFail(a)
    <2>1. UNCHANGED sock /\ \E c \in Conns : OnlyConn(c) /\ conn'[c].recvbuf = NULL
      BY <1>3, AcceptInitDoes, AcceptCtlFailDoes, Zenon DEF Fresh
    <2>2. \A j \in Clients : StillReadable(j)
      BY <2>1 DEF StillReadable, Readable, Avail
    <2>3. ASSUME NEW d \in Conns, ~conn'[d].closed
          PROVE  \/ conn'[d].recvbuf = NULL
                 \/ ~conn[d].closed /\ conn'[d].recvbuf = conn[d].recvbuf
                    /\ conn'[d].fd = conn[d].fd
      BY <2>1, <2>3 DEF OnlyConn
    <2> QED
      BY <1>1, <2>2, <2>3, PoolSilent
  <1> QED
    BY <1>2, <1>3

LEMMA PoolStep ==
    ASSUME ServerInv, ReadyInv, PoolCirculates, [Next]_vars
    PROVE  PoolCirculates'
  <1>0. Structure /\ Ownership /\ Counting /\ Bytes
    BY DEF ServerInv
  <1>1. ASSUME UNCHANGED <<conn, buf, queues, threads, sock>> PROVE PoolCirculates'
    BY <1>0, <1>1, OthersPool
  <1>2. ASSUME NEW a \in Acceptors, AcceptStep(a) PROVE PoolCirculates'
    BY <1>0, <1>1, <1>2, OthersPool, AcceptPool DEF AcceptStep, AcceptIdle, IdleReturn
  <1>3. ASSUME NEW w \in IOs, IOStep(w) PROVE PoolCirculates'
    <2>1. CASE EpollWait(w) \/ Dispatch(w) \/ ReqLock(w) \/ ReqPut(w) \/ ReqUnlock(w) \/ IOIdle(w)
      BY <1>0, <1>1, <2>1, OthersPool DEF IOIdle, IdleReturn
    <2>2. CASE ReqTake(w) \/ Recv(w)
      BY <1>0, <2>2, ReqTakePool, RecvPool
    <2> QED
      BY <1>0, <1>3, <2>1, <2>2, RespPool DEF IOStep
  <1>4. ASSUME NEW x \in Computes, ComputeStep(x) PROVE PoolCirculates'
    BY <1>0, <1>1, <1>4, OthersPool DEF ComputeStep, ComputeIdle, IdleReturn
  <1>5. ASSUME NEW s \in Submitters, SubmitStep(s) PROVE PoolCirculates'
    BY <1>0, <1>1, <1>5, OthersPool DEF SubmitStep, SubmitIdle, IdleReturn
  <1>6. ASSUME NEW k \in Clients, ClientStep(k) \/ ClientShutdown(k) PROVE PoolCirculates'
    BY <1>0, <1>6, ClientStill, PoolSilent
  <1>7. CASE Stop \/ Over \/ UNCHANGED vars
    BY <1>1, <1>7 DEF Stop, Over, vars
  <1> QED
    BY <1>2, <1>3, <1>4, <1>5, <1>6, <1>7 DEF Next

LEMMA InitPool ==
    ASSUME Init, Buffers # {}
    PROVE  PoolCirculates
  BY DEF Init, PoolCirculates, Parked

\* handle_request keeps a buffer in recvbuf when recv returns EAGAIN, and never
\* gives it back while the session is open.  Still not all buffers end there: the
\* last of a pool is taken only for bytes that have come, or while another one
\* carries a request of the same session (io.c, handle_request).
THEOREM ServerPoolCirculates ==
    ASSUME Orderly, Buffers # {}
    PROVE  Spec => []PoolCirculates
  <1>1. Spec => []ServerInv
    BY ServerInvariance
  <1>2. Init => ReadyInv /\ PoolCirculates
    BY InitReady, InitPool
  <1>3. ServerInv /\ ReadyInv /\ [Next]_vars => ReadyInv'
    BY ReadyStep DEF ServerInv
  <1>4. ServerInv /\ ReadyInv /\ PoolCirculates /\ [Next]_vars => PoolCirculates'
    BY PoolStep
  <1> QED
    BY <1>1, <1>2, <1>3, <1>4, PTL DEF Spec

----------------------------------------------------------------------------
\* Whole responses

LEMMA SeqDomain ==
    ASSUME NEW T, NEW s \in Seq(T)
    PROVE  DOMAIN s = 1 .. Len(s) /\ Len(s) \in Nat
  OBVIOUS

\* The byte i of a stream of messages of p bytes, in the part up to message s.
LEMMA LastBlock ==
    ASSUME NEW s \in Nat, NEW p \in Nat \ {0}, NEW i \in Nat \ {0}, i <= (s + 1) * p
    PROVE  (i - 1) \div p = s <=> i > s * p
  <1> DEFINE n == i - 1
             d == n \div p
             r == n % p
             x == d * p
             y == s * p
  <1>1. n \in Nat /\ d \in Nat /\ r \in Nat /\ r < p /\ x \in Nat /\ y \in Nat
    BY TimesNext
  <1>2. n = p * d + r
    <2> HIDE DEF n
    <2> QED
      BY <1>1
  <1>3. n = x + r
    BY <1>1, <1>2
  <1>4. (s + 1) * p = y + p /\ (d + 1) * p = x + p
    BY <1>1, TimesNext
  <1>5. i <= y + p /\ n < x + p
    BY <1>1, <1>3, <1>4
  <1>6. d = s => x = y
    OBVIOUS
  <1>7. d < s => x + p <= y
    <2> SUFFICES ASSUME d + 1 <= s PROVE (d + 1) * p <= s * p
      BY <1>1, <1>4
    <2> QED
      BY <1>1, TimesMono
  <1>8. s < d => y + p <= x
    <2> SUFFICES ASSUME s + 1 <= d PROVE (s + 1) * p <= d * p
      BY <1>1, <1>4
    <2> QED
      BY <1>1, TimesMono
  <1>9. n + 1 = i
    OBVIOUS
  <1> HIDE DEF n, d, r, x, y
  <1>10. d = s <=> i > y
    BY <1>1, <1>3, <1>5, <1>6, <1>7, <1>8, <1>9
  <1> QED
    BY <1>10 DEF n, d, y

\* So many bytes, and no more, are m messages.
LEMMA WholeExact ==
    ASSUME NEW m \in Nat, NEW q \in Nat \ {0}
    PROVE  (m * q) \div q = m
  <1> DEFINE i == m * q + 1
             y == m * q
  <1>1. y \in Nat /\ (m + 1) * q = y + q
    BY TimesNext
  <1>2. i \in Nat \ {0} /\ i <= (m + 1) * q /\ i > m * q /\ i - 1 = m * q
    <2> HIDE DEF y
    <2>1. y + 1 \in Nat \ {0} /\ y + 1 <= y + q /\ y + 1 > y /\ (y + 1) - 1 = y
      BY <1>1
    <2> QED
      BY <1>1, <2>1 DEF y
  <1> HIDE DEF i
  <1>3. (i - 1) \div q = m
    BY <1>2, LastBlock
  <1> QED
    BY <1>2, <1>3

\* What the theorem is about, from Framed.
LEMMA FramedMeans ==
    ASSUME Structure, \A k \in Clients : Framed(k)
    PROVE  ResponsesFramed
  <1> SUFFICES ASSUME NEW k \in Clients, NEW i \in DOMAIN sock[k].stream,
                      NEW j \in DOMAIN sock[k].stream
               PROVE  /\ sock[k].stream[i][1] = k
                      /\ sock[k].stream[i][2] \in 1 .. sock[k].consumed \div ReqLen
                      /\ sock[k].stream[i] = sock[k].stream[j]
                           <=> (i - 1) \div RespLen = (j - 1) \div RespLen
    BY DEF ResponsesFramed
  <1>1. /\ sock[k].stream[i] = sock[k].stream[j]
             <=> (i - 1) \div RespLen = (j - 1) \div RespLen
        /\ sock[k].stream[i] \in {k} \X Whole(k)
    BY DEF Framed, Elems
  <1> PICK n \in Whole(k) : sock[k].stream[i] = <<k, n>>
    BY <1>1
  <1>2. n \in Nat \ {0} /\ n * ReqLen <= sock[k].consumed
    BY DEF Whole
  <1>3. sock[k].consumed \in Nat /\ ReqLen \in Nat \ {0}
    BY Constants DEF Structure, Types, SockType
  <1>4. n <= sock[k].consumed \div ReqLen /\ sock[k].consumed \div ReqLen \in Nat
    <2> DEFINE x == n * ReqLen
               a == sock[k].consumed - x
    <2>1. x \in Nat
      BY <1>2, <1>3, TimesNext
    <2>2. a \in Nat /\ sock[k].consumed = x + a
      <3> HIDE DEF x
      <3> QED
        BY <1>2, <1>3, <2>1 DEF x
    <2> HIDE DEF a
    <2> QED
      BY <1>2, <1>3, <2>2, WholeMessages
  <1> QED
    BY <1>1, <1>2, <1>4

\* What has been sent stays sent.
LEMMA FramedKept ==
    ASSUME Structure, NEW k \in Clients, Framed(k), sock'[k].stream = sock[k].stream,
           \/ sock'[k].consumed = sock[k].consumed
           \/ \E len \in Nat : sock'[k].consumed = sock[k].consumed + len
    PROVE  Framed(k)'
  <1>1. sock[k].consumed \in Nat /\ ReqLen \in Nat
    BY Constants DEF Structure, Types, SockType
  <1>2. ASSUME NEW n \in Nat \ {0}, n * ReqLen <= sock[k].consumed
        PROVE  n * ReqLen <= sock'[k].consumed
    <2> DEFINE x == n * ReqLen
    <2>1. x \in Nat /\ x <= sock[k].consumed
      BY <1>1, <1>2, TimesNext
    <2> HIDE DEF x
    <2>2. x <= sock'[k].consumed
      BY <1>1, <2>1
    <2> QED
      BY <2>2 DEF x
  <1>3. Whole(k) \subseteq Whole(k)'
    BY <1>2 DEF Whole
  <1> QED
    BY <1>3 DEF Framed

\* A session of which nothing changes that its answers depend on.
SameAnswers(d) ==
    conn'[d].closed \/ /\ ~conn[d].closed /\ conn'[d].fd = conn[d].fd /\ SameBuffers(d)
                       /\ conn'[d].received = conn[d].received /\ conn'[d].sent = conn[d].sent

LEMMA AnswersKept ==
    ASSUME Structure, NEW d \in Conns, AnswersInv(d), SameAnswers(d),
           InFlight(d)' = InFlight(d),
           ~conn[d].closed =>
             /\ sock'[conn[d].fd].stream = sock[conn[d].fd].stream
             /\ \A b \in Buffers : b \in Queued(d) \/ b = conn[d].sendbuf =>
                  buf'[b].msg = buf[b].msg
             /\ conn[d].recvbuf # NULL => buf'[conn[d].recvbuf] = buf[conn[d].recvbuf]
    PROVE  AnswersInv(d)'
  <1> SUFFICES ASSUME ~conn'[d].closed
               PROVE  AnswersInv(d)'
    BY DEF AnswersInv
  <1>1. /\ ~conn[d].closed /\ conn'[d].fd = conn[d].fd
        /\ conn'[d].recvbuf = conn[d].recvbuf /\ conn'[d].sendbuf = conn[d].sendbuf
        /\ conn'[d].send_queue = conn[d].send_queue
        /\ conn'[d].received = conn[d].received /\ conn'[d].sent = conn[d].sent
    BY DEF SameAnswers, SameBuffers
  <1>2. Queued(d)' = Queued(d) /\ Numbered(d)' = Numbered(d)
    BY <1>1 DEF Queued, Numbered
  <1>3. Queued(d) \subseteq Buffers /\ conn[d].sendbuf \in Buffers \cup {NULL}
    BY DEF Queued, InFlight, Structure, Types, ConnType, Elems
  <1>4. QueuedMsgs(d)'
    BY <1>1, <1>2, <1>3 DEF AnswersInv, QueuedMsgs
  <1>5. SendingMsg(d)'
    BY <1>1, <1>2, <1>3 DEF AnswersInv, SendingMsg
  <1>6. ReceivedMsg(d)'
    BY <1>1 DEF AnswersInv, ReceivedMsg
  <1> QED
    BY <1>4, <1>5, <1>6 DEF AnswersInv

\* A step of one session, whose buffer b0 is, or which takes it from the pool.
LEMMA AnswersOthers ==
    ASSUME Structure, Ownership, NEW c \in Conns, OnlyConn(c), NEW d \in Conns \ {c},
           AnswersInv(d), InFlight(d)' = InFlight(d),
           NEW b0 \in Buffers, OnlyBuf(b0),
           NEW p \in {"pool", "queue", "sendbuf", "recvbuf"}, NEW i \in {c, NULL}, At(b0, p, i),
           \A k \in Clients : k # conn[c].fd => sock'[k].stream = sock[k].stream,
           ~conn[c].closed
    PROVE  AnswersInv(d)'
  <1>1. SameAnswers(d)
    BY DEF SameAnswers, SameBuffers, OnlyConn
  <1>2. CASE conn[d].closed
    BY <1>1, <1>2, AnswersKept
  <1>3. CASE ~conn[d].closed
    <2>1. conn[d].fd \in Clients /\ conn[d].fd # conn[c].fd
      BY <1>3 DEF Structure, SessionInv
    <2>2. p \in PlaceKinds /\ i \in PlaceIds /\ d # i
      BY Constants DEF PlaceKinds, PlaceIds
    <2>3. b0 # conn[d].recvbuf /\ b0 # conn[d].sendbuf
      BY <1>3, <2>2, OwnBuffer
    <2>4. b0 \notin InFlight(d)
      BY <2>2, HeldBefore DEF HeldKinds, Ownership
    <2>5. b0 \notin Elems(conn[d].send_queue)
      <3>1. b0 \in Elems(conn[d].send_queue) => At(b0, "queue", d)
        BY DEF At
      <3> QED
        BY <2>2, <3>1, OnePlace DEF Ownership, PlaceKinds, PlaceIds
    <2>6. conn[d].recvbuf \in Buffers \cup {NULL}
      BY DEF Structure, Types, ConnType
    <2> QED
      BY <1>1, <2>1, <2>3, <2>4, <2>5, <2>6, AnswersKept DEF Queued, OnlyBuf
  <1> QED
    BY <1>2, <1>3

\* The messages of a session after a step, by its queued buffers and its stream then.
LEMMA QueuedNow ==
    ASSUME NEW c \in Conns, NEW st, sock'[conn'[c].fd].stream = st,
           NEW N, Numbered(c)' = N, NEW Q, Queued(c)' = Q,
           Elems(st) \subseteq N, \A b \in Q : buf'[b].msg \in N \ Elems(st),
           \A b, d \in Q : buf'[b].msg = buf'[d].msg => b = d
    PROVE  QueuedMsgs(c)'
  BY Zenon DEF QueuedMsgs

LEMMA SendingNow ==
    ASSUME NEW c \in Conns, NEW st, sock'[conn'[c].fd].stream = st,
           NEW N, Numbered(c)' = N, NEW Q, Queued(c)' = Q,
           NEW s, conn'[c].sendbuf = s, NEW n, conn'[c].sent * RespLen = n,
           s # NULL =>
             /\ buf'[s].msg \in N /\ \A b \in Q : buf'[b].msg # buf'[s].msg
             /\ \A i \in DOMAIN st : st[i] = buf'[s].msg <=> i > n
    PROVE  SendingMsg(c)'
  BY Zenon DEF SendingMsg

\* A step that sends nothing and moves no message.
LEMMA AnswersQuiet ==
    ASSUME Structure, Answers, UNCHANGED buf, \A k \in Clients : SameServed(k),
           \A d \in Conns : SameAnswers(d) /\ InFlight(d)' = InFlight(d)
    PROVE  Answers'
  <1>1. ASSUME NEW d \in Conns PROVE AnswersInv(d)'
    <2>1. ~conn[d].closed => conn[d].fd \in Clients
      BY DEF Structure, SessionInv
    <2> QED
      BY <2>1, AnswersKept DEF Answers, SameServed
  <1>2. ASSUME NEW k \in Clients PROVE Framed(k)'
    BY FramedKept DEF Answers, SameServed
  <1> QED
    BY <1>1, <1>2 DEF Answers

LEMMA LockAnswers ==
    ASSUME Structure, Ownership, Counting, Answers, NEW w \in IOs,
           \/ RespLock(w) \/ RespUnlock(w) \/ ReqLock(w) \/ ReqUnlock(w)
           \/ FinishTry(w) \/ FinishDrain(w) \/ FinishEnd(w)
    PROVE  Answers'
  <1>1. \A d \in Conns : InFlight(d)' = InFlight(d)
    BY HandlerOwns, FinishDrainOwns, FinishEndOwns
  <1>2. \A d \in Conns : SameAnswers(d)
    <2>1. UNCHANGED conn \/ (\E c \in Conns : OnlyConn(c) /\ (conn'[c].closed \/
              /\ SameOwner(c) /\ SameBuffers(c) /\ SameCounts(c)))
      <3>1. CASE RespLock(w) \/ RespUnlock(w)
        BY <3>1, RespLockDoes, RespUnlockDoes, Zenon
      <3>2. CASE ReqLock(w) \/ ReqUnlock(w)
        BY <3>2, ReqLockDoes, ReqUnlockDoes, Zenon
      <3>3. CASE FinishTry(w) \/ FinishEnd(w)
        BY <3>3, FinishTryDoes, FinishEndDoes, Zenon
      <3>4. CASE FinishDrain(w)
        BY <3>4, FinishDrainDoes, Zenon
      <3> QED
        BY <3>1, <3>2, <3>3, <3>4
    <2> QED
      BY <2>1 DEF SameAnswers, OnlyConn, SameOwner, SameBuffers, SameCounts
  <1>3. UNCHANGED buf /\ \A k \in Clients : SameServed(k)
    <2>1. UNCHANGED buf /\ (UNCHANGED sock \/ \E k \in Clients : OnlySock(k) /\ SameServed(k))
      BY RespLockDoes, RespUnlockDoes, ReqLockDoes, ReqUnlockDoes, FinishTryDoes, FinishEndDoes,
         FinishDrainDoes, Zenon
    <2> QED
      BY <2>1 DEF OnlySock, SameServed
  <1> QED
    BY <1>1, <1>2, <1>3, AnswersQuiet

\* Steps that change no session, or no more than its lock and its EPOLLOUT.
LEMMA OthersAnswers ==
    ASSUME Structure, Ownership, Counting, Answers,
           \/ \E w \in IOs : EpollWait(w) \/ Dispatch(w)
           \/ \E x \in Computes : ComputeGet(x) \/ ComputePut(x)
           \/ \E s \in Submitters : \/ SubmitGet(s) \/ SubmitTry(s) \/ SubmitArm(s)
                                    \/ SubmitUnlock(s) \/ SubmitLast(s)
           \/ \E a \in Acceptors : \/ AcceptWait(a) \/ AcceptGet(a) \/ AcceptMiss(a)
                                   \/ AcceptFd(a) \/ AcceptFail(a)
           \/ \E k \in Clients : ClientStep(k) \/ ClientShutdown(k)
           \/ UNCHANGED <<conn, buf, queues, threads, sock>>
    PROVE  Answers'
  <1>0. ASSUME UNCHANGED buf, \A d \in Conns : InFlight(d)' = InFlight(d),
               UNCHANGED sock \/ \E k \in Clients : OnlySock(k) /\ SameServed(k),
               UNCHANGED conn \/ \E c \in Conns :
                 OnlyConn(c) /\ SameOwner(c) /\ SameBuffers(c) /\ SameCounts(c)
        PROVE  Answers'
    <2>1. \A k \in Clients : SameServed(k)
      BY <1>0 DEF OnlySock, SameServed
    <2>2. \A d \in Conns : SameAnswers(d)
      BY <1>0 DEF SameAnswers, OnlyConn, SameOwner, SameBuffers, SameCounts
    <2> QED
      BY <1>0, <2>1, <2>2, AnswersQuiet
  <1>1. CASE \E w \in IOs : EpollWait(w) \/ Dispatch(w)
    <2>1. UNCHANGED <<conn, buf, queues, sub, cmp, acc, sock>>
      BY <1>1, EpollWaitDoes, DispatchDoes
    <2> QED
      BY <1>0, <2>1, IdleOwns
  <1>2. CASE \E x \in Computes : ComputeGet(x) \/ ComputePut(x)
    <2>1. UNCHANGED <<conn, buf, sock>>
      BY <1>2, Zenon DEF ComputeGet, ComputePut
    <2> QED
      BY <1>0, <1>2, <2>1, ComputeGetOwns, ComputePutOwns
  <1>3. CASE \E s \in Submitters : \/ SubmitGet(s) \/ SubmitTry(s) \/ SubmitArm(s)
                                   \/ SubmitUnlock(s) \/ SubmitLast(s)
    <2> PICK s \in Submitters : \/ SubmitGet(s) \/ SubmitTry(s) \/ SubmitArm(s)
                                \/ SubmitUnlock(s) \/ SubmitLast(s)
      BY <1>3
    <2>1. \A d \in Conns : InFlight(d)' = InFlight(d)
      BY SubmitGetOwns, SubmitTryOwns, SubmitterOwns, SubmitLastOwns
    <2>2. /\ UNCHANGED <<buf, sock>>
          /\ UNCHANGED conn \/ \E c \in Conns :
               OnlyConn(c) /\ SameOwner(c) /\ SameBuffers(c) /\ SameCounts(c)
      <3>1. CASE SubmitGet(s) \/ SubmitTry(s) \/ SubmitLast(s)
        BY <3>1, SubmitGetDoes, SubmitTryDoes, SubmitLastDoes, Zenon
      <3>2. CASE SubmitArm(s) \/ SubmitUnlock(s)
        BY <3>2, SubmitArmDoes, SubmitUnlockDoes, Zenon
      <3> QED
        BY <3>1, <3>2
    <2> QED
      BY <1>0, <2>1, <2>2
  <1>4. CASE \E a \in Acceptors : \/ AcceptWait(a) \/ AcceptGet(a) \/ AcceptMiss(a)
                                  \/ AcceptFd(a) \/ AcceptFail(a)
    <2> PICK a \in Acceptors : \/ AcceptWait(a) \/ AcceptGet(a) \/ AcceptMiss(a)
                               \/ AcceptFd(a) \/ AcceptFail(a)
      BY <1>4
    <2>1. /\ UNCHANGED <<conn, buf>>
          /\ UNCHANGED sock \/ \E k \in Clients : OnlySock(k) /\ SameServed(k)
      BY AcceptWaitDoes, AcceptGetDoes, AcceptFdDoes, AcceptFailDoes, Zenon
    <2>2. \A d \in Conns : InFlight(d)' = InFlight(d)
      BY AcceptOwns
    <2> QED
      BY <1>0, <2>1, <2>2
  <1>5. CASE \E k \in Clients : ClientStep(k) \/ ClientShutdown(k)
    <2> PICK k \in Clients : ClientStep(k) \/ ClientShutdown(k)
      BY <1>5
    <2>1. UNCHANGED server /\ OnlySock(k) /\ SameServed(k)
      BY ConnectDoes, ClientWriteDoes, ClientReadDoes, ClientCloseDoes, ClientShutdownDoes, Zenon
         DEF ClientStep
    <2>2. UNCHANGED <<conn, buf, queues, sub, cmp, acc>>
      BY <2>1 DEF server, threads
    <2> QED
      BY <1>0, <2>1, <2>2, IdleOwns
  <1>6. CASE UNCHANGED <<conn, buf, queues, threads, sock>>
    <2>1. UNCHANGED <<conn, buf, queues, sub, cmp, acc, sock>>
      BY <1>6 DEF threads
    <2> QED
      BY <1>0, <2>1, IdleOwns
  <1> QED
    BY <1>1, <1>2, <1>3, <1>4, <1>5, <1>6

\* Buffers of an open session are each in one place.
LEMMA QueuedApart ==
    ASSUME Structure, Ownership, NEW c \in Conns, ~conn[c].closed
    PROVE  /\ Queued(c) \subseteq Buffers
           /\ conn[c].recvbuf \in Buffers \cup {NULL} /\ conn[c].sendbuf \in Buffers \cup {NULL}
           /\ conn[c].recvbuf \notin Queued(c) /\ conn[c].sendbuf \notin Queued(c)
           /\ conn[c].recvbuf # NULL => conn[c].recvbuf # conn[c].sendbuf
           /\ InFlight(c) \cap Elems(conn[c].send_queue) = {}
  <1>1. /\ Queued(c) \subseteq Buffers /\ NULL \notin Buffers
        /\ conn[c].recvbuf \in Buffers \cup {NULL} /\ conn[c].sendbuf \in Buffers \cup {NULL}
    BY Constants DEF Queued, InFlight, Structure, Types, ConnType, Elems
  <1>2. ASSUME NEW b \in Buffers, b \in Elems(conn[c].send_queue)
        PROVE  b # conn[c].recvbuf /\ b # conn[c].sendbuf /\ b \notin InFlight(c)
    <2>1. At(b, "queue", c) /\ "queue" \in PlaceKinds /\ c \in PlaceIds
      BY <1>2 DEF At, PlaceKinds, PlaceIds
    <2> QED
      BY <2>1, OwnBuffer, HeldBefore DEF Ownership, HeldKinds
  <1>3. ASSUME NEW b \in Buffers, b = conn[c].recvbuf \/ b = conn[c].sendbuf
        PROVE  b \notin InFlight(c)
    <2>1. At(b, "recvbuf", c) \/ At(b, "sendbuf", c)
      BY <1>3 DEF At
    <2> QED
      BY <2>1, HeldBefore DEF Ownership, HeldKinds, PlaceIds
  <1>4. ASSUME NEW b \in Buffers, b = conn[c].recvbuf PROVE b # conn[c].sendbuf
    <2>1. At(b, "recvbuf", c) /\ "recvbuf" \in PlaceKinds /\ c \in PlaceIds
      BY <1>4 DEF At, PlaceKinds, PlaceIds
    <2> QED
      BY <2>1, OwnBuffer
  <1> QED
    BY <1>1, <1>2, <1>3, <1>4 DEF Queued

\* The response that waited longest is the next one to be sent: nothing of it
\* has been sent yet, and what has been is whole.
LEMMA RespTakeAnswers ==
    ASSUME Structure, Ownership, Bytes, Answers, NEW w \in IOs, RespTake(w)
    PROVE  Answers'
  <1> PICK c \in Conns : c = io[w].conn
    BY RespTakeDoes
  <1>0. (\A d \in Conns : InFlight(d)' = InFlight(d)) /\ UNCHANGED sock
    BY RespTakeOwns, RespTakeDoes
  <1>1. CASE UNCHANGED <<conn, buf>>
    BY <1>0, <1>1, AnswersQuiet DEF SameAnswers, SameBuffers, SameServed
  <1>2. CASE ~UNCHANGED <<conn, buf>>
    <2> PICK b0 \in Buffers : b0 = Head(conn[c].send_queue)
      BY <1>2, RespTakeDoes
    <2>1. /\ conn[c].sendbuf = NULL /\ conn[c].send_queue # <<>> /\ io[w].pc = "resp"
          /\ OnlyConn(c) /\ SameOwner(c) /\ SameCounts(c) /\ conn'[c].sendbuf = b0
          /\ conn'[c].send_queue = Tail(conn[c].send_queue)
          /\ conn'[c].recvbuf = conn[c].recvbuf
          /\ OnlyBuf(b0) /\ buf'[b0].msg = buf[b0].msg
      BY <1>2, RespTakeDoes
    <2>2. ~conn[c].closed
      BY <2>1 DEF Structure, IOInv, Busy
    <2>3. /\ Elems(conn[c].send_queue) = Elems(conn'[c].send_queue) \cup {b0}
          /\ b0 \notin Elems(conn'[c].send_queue)
      <3> PICK q \in Seq(Buffers) : q = conn[c].send_queue
        BY DEF Structure, Types, ConnType
      <3>1. Inj(q) /\ q # <<>>
        BY <2>1 DEF Ownership, QueuesInj
      <3>2. Elems(q) = Elems(Tail(q)) \cup {Head(q)} /\ Head(q) \notin Elems(Tail(q))
        BY <3>1, TailElems
      <3> QED
        BY <2>1, <3>2
    <2>4. At(b0, "queue", c)
      BY <2>3 DEF At
    <2>5. ASSUME NEW d \in Conns \ {c} PROVE AnswersInv(d)'
      BY <1>0, <2>1, <2>2, <2>4, AnswersOthers DEF Answers
    <2>6. AnswersInv(c)'
      <3> PICK k \in Clients : k = conn[c].fd
        BY <2>2, WireTypes
      <3> PICK st : st = sock[k].stream
        OBVIOUS
      <3>1. \A b \in Buffers : buf'[b].msg = buf[b].msg
        BY <2>1 DEF OnlyBuf
      <3>2. /\ Queued(c)' \subseteq Queued(c) /\ b0 \in Queued(c) /\ b0 \notin Queued(c)'
            /\ Queued(c) \subseteq Buffers /\ Numbered(c)' = Numbered(c)
            /\ conn[c].recvbuf # b0 /\ conn[c].recvbuf \in Buffers \cup {NULL}
        <4>1. b0 \notin InFlight(c) /\ b0 \in Queued(c)
          BY <2>2, <2>3, QueuedApart DEF Queued
        <4>2. Queued(c) \subseteq Buffers /\ conn[c].recvbuf \notin Queued(c)
              /\ conn[c].recvbuf \in Buffers \cup {NULL}
          BY <2>2, QueuedApart
        <4>3. Queued(c)' = InFlight(c) \cup Elems(conn'[c].send_queue)
          BY <1>0 DEF Queued
        <4> QED
          BY <2>1, <2>3, <4>1, <4>2, <4>3 DEF Queued, Numbered, SameOwner, SameCounts
      <3>3. /\ Elems(st) \subseteq Numbered(c)
            /\ \A b \in Queued(c) : buf[b].msg \in Numbered(c) \ Elems(st)
            /\ \A b, d \in Queued(c) : buf[b].msg = buf[d].msg => b = d
            /\ conn[c].recvbuf # NULL /\ buf[conn[c].recvbuf].left = 0
                 => buf[conn[c].recvbuf].msg = <<conn[c].fd, conn[c].received + 1>>
        BY <2>2 DEF Answers, AnswersInv, QueuedMsgs, ReceivedMsg
      <3>4. \A i \in DOMAIN st : st[i] # buf[b0].msg /\ ~(i > conn[c].sent * RespLen)
        <4>1. Len(st) = conn[c].sent * RespLen
          <5>1. Len(st) = conn[c].sent * RespLen + 0 /\ conn[c].sent \in Nat
            BY <2>1, <2>2, WireTypes DEF Bytes, WireInv, RespBytes
          <5>2. conn[c].sent * RespLen \in Nat
            BY <5>1, Constants, TimesNext
          <5> QED
            BY <5>1, <5>2
        <4>2. st \in Seq(Msg)
          BY DEF Structure, Types, SockType
        <4>3. DOMAIN st = 1 .. Len(st) /\ Len(st) \in Nat
          BY <4>2, SeqDomain
        <4> DEFINE n == Len(st)
        <4>4. \A i \in DOMAIN st : ~(i > n)
          BY <4>3
        <4>5. \A i \in DOMAIN st : st[i] # buf[b0].msg
          <5>1. buf[b0].msg \notin Elems(st)
            BY <3>2, <3>3
          <5> QED
            BY <5>1 DEF Elems
        <4> QED
          BY <4>1, <4>4, <4>5
      <3>5. \A b \in Queued(c)' : buf[b].msg # buf[b0].msg
        BY <3>2, <3>3
      <3>6. /\ conn'[c].fd = conn[c].fd /\ conn'[c].received = conn[c].received
            /\ conn'[c].sent = conn[c].sent /\ sock' = sock
        BY <1>0, <2>1 DEF SameOwner, SameCounts
      <3>7. conn[c].recvbuf # NULL => buf'[conn[c].recvbuf] = buf[conn[c].recvbuf]
        BY <2>1, <3>2 DEF OnlyBuf
      <3> PICK Q : Q = Queued(c)'
        OBVIOUS
      <3> PICK N : N = Numbered(c)
        OBVIOUS
      <3> PICK n : n = conn[c].sent * RespLen
        OBVIOUS
      <3>8. /\ sock'[conn'[c].fd].stream = st /\ conn'[c].sent * RespLen = n
            /\ Queued(c)' = Q /\ Numbered(c)' = N /\ c \in Conns
        BY <3>2, <3>6
      <3>9. QueuedMsgs(c)'
        <4>1. /\ \A b \in Q : buf'[b].msg \in N \ Elems(st)
              /\ \A b, d \in Q : buf'[b].msg = buf'[d].msg => b = d
              /\ Elems(st) \subseteq N
          <5>1. Q \subseteq Queued(c) /\ Queued(c) \subseteq Buffers /\ N = Numbered(c)
            BY <3>2
          <5> QED
            BY ONLY <3>1, <3>3, <5>1
        <4> QED
          BY ONLY <3>8, <4>1, QueuedNow
      <3>11. SendingMsg(c)'
        <4>1. buf'[b0].msg \in N /\ \A b \in Q : buf'[b].msg # buf'[b0].msg
          BY <3>1, <3>2, <3>3, <3>5
        <4>2. \A i \in DOMAIN st : st[i] = buf'[b0].msg <=> i > n
          BY <3>1, <3>4
        <4>3. conn'[c].sendbuf = b0
          BY <2>1
        <4> QED
          BY ONLY <3>8, <4>1, <4>2, <4>3, SendingNow
      <3>10. ReceivedMsg(c)'
        BY <2>1, <3>3, <3>6, <3>7 DEF ReceivedMsg
      <3> QED
        BY <3>9, <3>10, <3>11 DEF AnswersInv
    <2>7. ASSUME NEW k \in Clients PROVE Framed(k)'
      BY <1>0, FramedKept DEF Answers
    <2> QED
      BY <2>5, <2>6, <2>7 DEF Answers
  <1> QED
    BY <1>1, <1>2

\* Sent in full: the stream has all of the response, which is forgotten.
LEMMA RespSentAnswers ==
    ASSUME Structure, Ownership, Answers, NEW w \in IOs, RespSent(w)
    PROVE  Answers'
  <1> PICK c \in Conns : c = io[w].conn
    BY RespSentDoes
  <1>0. /\ \A d \in Conns : InFlight(d)' = InFlight(d)
        /\ UNCHANGED <<buf, sock>> /\ OnlyConn(c) /\ SameOwner(c)
        /\ conn'[c].sendbuf = NULL /\ conn'[c].recvbuf = conn[c].recvbuf
        /\ conn'[c].send_queue = conn[c].send_queue /\ conn'[c].received = conn[c].received
    BY RespSentOwns, RespSentDoes
  <1>1. ~conn[c].closed
    BY Zenon DEF Structure, IOInv, Busy, RespSent
  <1>2. ASSUME NEW d \in Conns \ {c} PROVE AnswersInv(d)'
    BY <1>0, AnswersKept DEF Answers, OnlyConn, SameAnswers, SameBuffers
  <1>3. AnswersInv(c)'
    <2>1. Queued(c)' = Queued(c) /\ Numbered(c)' = Numbered(c)
      BY <1>0 DEF Queued, Numbered, SameOwner
    <2>2. QueuedMsgs(c)'
      <3>1. QueuedMsgs(c) /\ sock'[conn'[c].fd].stream = sock[conn[c].fd].stream
        BY <1>0, <1>1 DEF Answers, AnswersInv, SameOwner
      <3>2. /\ Elems(sock[conn[c].fd].stream) \subseteq Numbered(c)
            /\ \A b \in Queued(c) :
                 buf'[b].msg \in Numbered(c) \ Elems(sock[conn[c].fd].stream)
            /\ \A b, d \in Queued(c) : buf'[b].msg = buf'[d].msg => b = d
        BY <1>0, <3>1 DEF QueuedMsgs
      <3> QED
        BY <2>1, <3>1, <3>2, QueuedNow
    <2>3. SendingMsg(c)' /\ ReceivedMsg(c)'
      BY <1>0, <1>1 DEF Answers, AnswersInv, SendingMsg, ReceivedMsg, SameOwner
    <2> QED
      BY <2>2, <2>3 DEF AnswersInv
  <1>4. ASSUME NEW k \in Clients PROVE Framed(k)'
    BY <1>0, FramedKept DEF Answers
  <1> QED
    BY <1>2, <1>3, <1>4 DEF Answers

\* An empty buffer for the next request.
LEMMA ReqTakeAnswers ==
    ASSUME Structure, Ownership, Counting, Answers, NEW w \in IOs, ReqTake(w)
    PROVE  Answers'
  <1> PICK c \in Conns : c = io[w].conn
    BY ReqTakeDoes
  <1>0. (\A d \in Conns : InFlight(d)' = InFlight(d)) /\ UNCHANGED sock
    BY ReqTakeOwns, ReqTakeDoes
  <1>1. CASE UNCHANGED <<conn, buf>>
    BY <1>0, <1>1, AnswersQuiet DEF SameAnswers, SameBuffers, SameServed
  <1>2. CASE ~UNCHANGED <<conn, buf>>
    <2> PICK b0 \in Buffers : b0 = Head(empty_buffers)
      BY <1>2, ReqTakeDoes
    <2>1. /\ conn[c].recvbuf = NULL /\ ~Full(c) /\ empty_buffers # <<>> /\ io[w].pc = "req"
          /\ OnlyConn(c) /\ SameOwner(c) /\ SameCounts(c) /\ conn'[c].recvbuf = b0
          /\ conn'[c].send_queue = conn[c].send_queue /\ conn'[c].sendbuf = conn[c].sendbuf
          /\ OnlyBuf(b0) /\ buf'[b0].left = ReqLen /\ buf'[b0].msg = buf[b0].msg
      BY <1>2, ReqTakeDoes
    <2>2. ~conn[c].closed
      BY <2>1, ReqClosed
    <2>3. At(b0, "pool", NULL)
      BY <2>1, TailElems DEF Structure, Types, At
    <2>4. ASSUME NEW d \in Conns \ {c} PROVE AnswersInv(d)'
      BY <1>0, <2>1, <2>2, <2>3, AnswersOthers DEF Answers
    <2>5. AnswersInv(c)'
      <3>1. \A b \in Buffers : buf'[b].msg = buf[b].msg
        BY <2>1 DEF OnlyBuf
      <3>2. /\ Queued(c)' = Queued(c) /\ Queued(c) \subseteq Buffers
            /\ Numbered(c)' = Numbered(c) /\ conn[c].sendbuf \in Buffers \cup {NULL}
        <4>1. Queued(c) \subseteq Buffers /\ conn[c].sendbuf \in Buffers \cup {NULL}
          BY <2>2, QueuedApart
        <4> QED
          BY <1>0, <2>1, <4>1 DEF Queued, Numbered, SameOwner, SameCounts
      <3>3. buf'[b0].left # 0
        BY <2>1, Constants
      <3>4. /\ conn'[c].fd = conn[c].fd /\ conn'[c].received = conn[c].received
            /\ conn'[c].sent = conn[c].sent /\ QueuedMsgs(c) /\ SendingMsg(c)
        BY <2>1, <2>2 DEF Answers, AnswersInv, SameOwner, SameCounts
      <3> PICK st : st = sock[conn[c].fd].stream
        OBVIOUS
      <3> PICK n : n = conn[c].sent * RespLen
        OBVIOUS
      <3>8. sock'[conn'[c].fd].stream = st /\ conn'[c].sent * RespLen = n /\ c \in Conns
        BY <1>0, <3>4
      <3>5. QueuedMsgs(c)'
        <4>1. /\ Elems(st) \subseteq Numbered(c)
              /\ \A b \in Queued(c) : buf'[b].msg \in Numbered(c) \ Elems(st)
              /\ \A b, d \in Queued(c) : buf'[b].msg = buf'[d].msg => b = d
          BY <3>1, <3>2, <3>4 DEF QueuedMsgs
        <4> QED
          BY <3>2, <3>8, <4>1, QueuedNow
      <3>6. SendingMsg(c)'
        <4> PICK s : s = conn[c].sendbuf
          OBVIOUS
        <4>1. s # NULL =>
                /\ buf'[s].msg \in Numbered(c) /\ \A b \in Queued(c) : buf'[b].msg # buf'[s].msg
                /\ \A i \in DOMAIN st : st[i] = buf'[s].msg <=> i > n
          BY <3>1, <3>2, <3>4 DEF SendingMsg
        <4>2. conn'[c].sendbuf = s
          BY <2>1
        <4> QED
          BY ONLY <3>2, <3>8, <4>1, <4>2, SendingNow
      <3>7. ReceivedMsg(c)'
        BY <2>1, <3>3 DEF ReceivedMsg
      <3> QED
        BY <3>5, <3>6, <3>7 DEF AnswersInv
    <2>6. ASSUME NEW k \in Clients PROVE Framed(k)'
      BY <1>0, FramedKept DEF Answers
    <2> QED
      BY <2>4, <2>5, <2>6 DEF Answers
  <1> QED
    BY <1>1, <1>2

\* A stream with len more bytes of message m.
Longer(new, st, m, len) ==
    /\ Len(st) \in Nat /\ Len(new) = Len(st) + len
    /\ DOMAIN st = 1 .. Len(st) /\ DOMAIN new = 1 .. Len(new)
    /\ \A i \in 1 .. Len(st) : new[i] = st[i]
    /\ \A i \in DOMAIN new : i > Len(st) => new[i] = m

LEMMA MoreCopies ==
    ASSUME NEW st \in Seq(Msg), NEW m \in Msg, NEW len \in Nat \ {0}
    PROVE  /\ Longer(st \o Copies(m, len), st, m, len)
           /\ Elems(st \o Copies(m, len)) = Elems(st) \cup {m}
  <1> PICK new : new = st \o Copies(m, len)
    OBVIOUS
  <1> DEFINE t == Copies(m, len)
  <1>1. t \in Seq(Msg) /\ Len(t) = len /\ Elems(t) = {m} /\ \A i \in 1 .. len : t[i] = m
    <2>1. t \in Seq(Msg) /\ Len(t) = len /\ \A i \in 1 .. len : t[i] = m
      BY DEF Copies
    <2>2. DOMAIN t = 1 .. len
      BY DEF Copies
    <2>3. 1 \in 1 .. len
      OBVIOUS
    <2> HIDE DEF t
    <2> QED
      BY <2>1, <2>2, <2>3 DEF Elems
  <1> HIDE DEF t
  <1>2. new = st \o t
    BY DEF t
  <1>3. new \in Seq(Msg) /\ Len(new) = Len(st) + len /\ Elems(new) = Elems(st) \cup {m}
    <2>1. /\ st \o t \in Seq(Msg) /\ Len(st \o t) = Len(st) + Len(t)
          /\ Elems(st \o t) = Elems(st) \cup Elems(t)
      BY ONLY <1>1, st \in Seq(Msg), ConcatElems
    <2> QED
      BY ONLY <1>1, <1>2, <2>1
  <1>4. Len(st) \in Nat /\ DOMAIN st = 1 .. Len(st) /\ DOMAIN new = 1 .. Len(new)
    BY <1>3, SeqDomain
  <1>5. \A i \in 1 .. Len(st) : new[i] = st[i]
    BY <1>1, <1>2
  <1>6. ASSUME NEW i \in 1 .. Len(st) + len, i > Len(st) PROVE new[i] = m
    <2>1. i - Len(st) \in 1 .. len
      BY <1>4, <1>6
    <2>2. new[i] = t[i - Len(st)]
      BY <1>1, <1>2, <1>4, <1>6
    <2> QED
      BY <1>1, <2>1, <2>2
  <1>7. \A i \in DOMAIN new : i > Len(st) => new[i] = m
    BY <1>3, <1>4, <1>6
  <1>8. Longer(new, st, m, len) /\ Elems(new) = Elems(st) \cup {m}
    BY <1>3, <1>4, <1>5, <1>7, Zenon DEF Longer
  <1> QED
    BY <1>8, Zenon

\* The stream st is made of messages of p bytes; message m is what it has after n bytes.
Blocks(st, p) ==
    \A i, j \in DOMAIN st : st[i] = st[j] <=> (i - 1) \div p = (j - 1) \div p
After(st, n, m) == \A i \in DOMAIN st : st[i] = m <=> i > n

\* It stays so when m is the message after the first s.
LEMMA FramedMore ==
    ASSUME NEW st, NEW m, NEW len \in Nat \ {0}, NEW new, Longer(new, st, m, len),
           NEW s \in Nat, NEW p \in Nat \ {0},
           s * p <= Len(st), Len(st) + len <= (s + 1) * p,
           After(st, s * p, m), Blocks(st, p)
    PROVE  After(new, s * p, m) /\ Blocks(new, p)
  <1> PICK y : y = s * p
    OBVIOUS
  <1> PICK z : z = (s + 1) * p
    OBVIOUS
  <1>1. y \in Nat /\ z \in Nat
    BY TimesNext
  <1>2. /\ Len(st) \in Nat /\ Len(new) = Len(st) + len
        /\ DOMAIN st = 1 .. Len(st) /\ DOMAIN new = 1 .. Len(new)
        /\ \A i \in 1 .. Len(st) : new[i] = st[i]
        /\ \A i \in DOMAIN new : i > Len(st) => new[i] = m
    BY DEF Longer
  <1>3. y <= Len(st) /\ Len(new) <= z
    BY <1>2
  <1>4. ASSUME NEW i \in DOMAIN new PROVE new[i] = m <=> i > y
    <2>1. i \in Nat
      BY <1>2
    <2>2. CASE i > Len(st)
      <3>1. i > y
        BY ONLY <1>1, <1>2, <1>3, <2>1, <2>2
      <3> QED
        BY <1>2, <2>2, <3>1
    <2>3. CASE ~(i > Len(st))
      <3>1. i \in DOMAIN st /\ new[i] = st[i]
        BY <1>2, <2>3
      <3> QED
        BY <3>1 DEF After
    <2> QED
      BY <2>2, <2>3
  <1>5. ASSUME NEW i \in DOMAIN new PROVE (i - 1) \div p = s <=> i > y
    <2>1. i \in Nat \ {0} /\ i <= z
      BY ONLY <1>1, <1>2, <1>3, <1>5
    <2> QED
      BY <2>1, LastBlock
  <1>6. ASSUME NEW i \in DOMAIN new, NEW j \in DOMAIN new, i > Len(st)
        PROVE  new[i] = new[j] <=> (i - 1) \div p = (j - 1) \div p
    <2>1. new[i] = m /\ i > y
      <3>1. i \in Nat
        BY <1>2
      <3>2. i > y
        BY ONLY <1>1, <1>2, <1>3, <1>6, <3>1
      <3> QED
        BY <1>2, <1>6, <3>2
    <2>2. (i - 1) \div p = s /\ ((j - 1) \div p = s <=> new[j] = m)
      BY <1>4, <1>5, <2>1
    <2> QED
      BY ONLY <2>1, <2>2
  <1>7. ASSUME NEW i \in DOMAIN new, NEW j \in DOMAIN new,
               ~(i > Len(st)), ~(j > Len(st))
        PROVE  new[i] = new[j] <=> (i - 1) \div p = (j - 1) \div p
    <2>1. i \in DOMAIN st /\ j \in DOMAIN st /\ new[i] = st[i] /\ new[j] = st[j]
      BY <1>2, <1>7
    <2> QED
      BY <2>1 DEF Blocks
  <1>8. ASSUME NEW i \in DOMAIN new, NEW j \in DOMAIN new
        PROVE  new[i] = new[j] <=> (i - 1) \div p = (j - 1) \div p
    <2>1. CASE j > Len(st)
      <3>1. new[j] = new[i] <=> (j - 1) \div p = (i - 1) \div p
        BY <1>6, <2>1, Zenon
      <3> QED
        BY ONLY <3>1
    <2> QED
      BY <1>6, <1>7, <2>1, Zenon
  <1> QED
    BY <1>4, <1>8, Zenon DEF After, Blocks

\* The bytes that leave are of the message in the buffer.
LEMMA SendCopies ==
    ASSUME Structure, NEW w \in IOs, Send(w), NEW c \in Conns, c = io[w].conn,
           NEW b \in Buffers, b = conn[c].sendbuf, NEW k \in Clients, k = conn[c].fd,
           ~UNCHANGED <<buf, sock>>
    PROVE  \E len \in Nat \ {0} :
             /\ Longer(sock'[k].stream, sock[k].stream, buf[b].msg, len)
             /\ Elems(sock'[k].stream) = Elems(sock[k].stream) \cup {buf[b].msg}
             /\ len <= buf[b].left /\ buf'[b].msg = buf[b].msg
             /\ OnlyBuf(b) /\ OnlySock(k) /\ sock'[k].consumed = sock[k].consumed
  <1> PICK len \in Nat \ {0} : Sends(w, c, len)
    BY SendSome
  <1>1. /\ buf'[b].left = buf[b].left - min(IoSize(b), Room(k)) /\ buf'[b].msg = buf[b].msg
        /\ sock'[k].stream = sock[k].stream \o Copies(buf[b].msg, min(IoSize(b), Room(k)))
    BY SendDoes, Zenon
  <1>2. /\ len <= buf[b].left /\ buf'[b].left = buf[b].left - len
        /\ OnlyBuf(b) /\ OnlySock(k) /\ sock'[k].consumed = sock[k].consumed
    BY Zenon DEF Sends
  <1>3. buf[b].left \in Nat
    BY DEF Structure, Types, BufType
  <1>4. min(IoSize(b), Room(k)) \in Int
    <2>1. IoSize(b) \in Nat /\ Room(k) \in Int
      BY <1>3, IoSizeFits, RoomType
    <2> QED
      BY <2>1 DEF min
  <1>5. len = min(IoSize(b), Room(k))
    <2> PICK n \in Int : n = min(IoSize(b), Room(k))
      BY <1>4
    <2>1. buf[b].left - len = buf[b].left - n /\ len \in Nat /\ n \in Int
      BY <1>1, <1>2
    <2>2. len = n
      BY ONLY <1>3, <2>1
    <2> QED
      BY ONLY <2>2, n = min(IoSize(b), Room(k))
  <1>6. /\ Longer(sock'[k].stream, sock[k].stream, buf[b].msg, len)
        /\ Elems(sock'[k].stream) = Elems(sock[k].stream) \cup {buf[b].msg}
    <2>1. sock[k].stream \in Seq(Msg) /\ buf[b].msg \in Msg /\ len \in Nat \ {0}
      BY DEF Structure, Types, SockType, BufType
    <2>2. sock'[k].stream = sock[k].stream \o Copies(buf[b].msg, len)
      BY <1>1, <1>5, Zenon
    <2> PICK st \in Seq(Msg) : st = sock[k].stream
      BY <2>1
    <2> PICK m \in Msg : m = buf[b].msg
      BY <2>1
    <2>3. /\ Longer(st \o Copies(m, len), st, m, len)
          /\ Elems(st \o Copies(m, len)) = Elems(st) \cup {m}
      BY ONLY st \in Seq(Msg), m \in Msg, len \in Nat \ {0}, MoreCopies, Zenon
    <2>4. sock'[k].stream = st \o Copies(m, len)
      BY <2>2, Zenon
    <2> QED
      BY ONLY <2>3, <2>4, st = sock[k].stream, m = buf[b].msg, Zenon
  <1>7. buf'[b].msg = buf[b].msg
    BY <1>1, Zenon
  <1> QED
    BY <1>2, <1>6, <1>7, Zenon

\* A request that was received is whole.
LEMMA ReceivedWhole ==
    ASSUME Structure, Bytes, NEW c \in Conns, ~conn[c].closed, NEW k \in Clients, k = conn[c].fd
    PROVE  Numbered(c) \subseteq {k} \X Whole(k)
  <1>1. /\ conn[c].received \in Nat /\ sock[k].consumed \in Nat /\ ReqLen \in Nat
        /\ ReqBytes(conn[c].recvbuf) \in 0 .. ReqLen
        /\ sock[k].consumed = conn[c].received * ReqLen + ReqBytes(conn[c].recvbuf)
    BY WireTypes, Constants DEF Bytes, WireInv
  <1> PICK r \in Nat : r = conn[c].received
    BY <1>1
  <1> PICK a \in Nat : a = ReqBytes(conn[c].recvbuf)
    BY <1>1
  <1>2. ASSUME NEW n \in 1 .. r PROVE n \in Whole(k)
    <2>1. n \in Nat \ {0} /\ n <= r /\ n * ReqLen <= r * ReqLen
      BY <1>1, TimesMono
    <2>2. n * ReqLen \in Nat /\ r * ReqLen \in Nat
      BY <1>1, <2>1, TimesNext
    <2> PICK x : x = n * ReqLen
      OBVIOUS
    <2> PICK y : y = r * ReqLen
      OBVIOUS
    <2>3. x \in Nat /\ y \in Nat /\ x <= y
      BY <2>1, <2>2
    <2>4. sock[k].consumed = y + a
      BY <1>1
    <2>5. x <= sock[k].consumed
      BY ONLY <2>3, <2>4, a \in Nat
    <2> QED
      BY <2>1, <2>5 DEF Whole
  <1> QED
    BY <1>2, Zenon DEF Numbered

\* The last message of the stream is the one in sendbuf, and gets no more bytes than
\* it has.
LEMMA SendAnswers ==
    ASSUME Structure, Ownership, Bytes, Answers, NEW w \in IOs, Send(w)
    PROVE  Answers'
  <1> PICK c \in Conns : c = io[w].conn
    BY SendDoes, Zenon
  <1>0. (\A d \in Conns : InFlight(d)' = InFlight(d)) /\ UNCHANGED conn
    BY HandlerOwns, SendDoes, Zenon
  <1>1. CASE UNCHANGED <<buf, sock>>
    BY <1>0, <1>1, AnswersQuiet DEF SameAnswers, SameBuffers, SameServed
  <1>2. CASE ~UNCHANGED <<buf, sock>>
    <2> PICK b0 \in Buffers : b0 = conn[c].sendbuf
      BY SendDoes, Zenon
    <2> PICK k \in Clients : k = conn[c].fd
      BY SendDoes, Zenon
    <2> PICK len \in Nat \ {0} :
             /\ Longer(sock'[k].stream, sock[k].stream, buf[b0].msg, len)
             /\ Elems(sock'[k].stream) = Elems(sock[k].stream) \cup {buf[b0].msg}
             /\ len <= buf[b0].left /\ buf'[b0].msg = buf[b0].msg
             /\ OnlyBuf(b0) /\ OnlySock(k) /\ sock'[k].consumed = sock[k].consumed
      BY <1>2, SendCopies, Zenon
    <2>1. ~conn[c].closed
      BY Zenon DEF Structure, IOInv, Busy, Send
    <2> PICK st : st = sock[k].stream
      OBVIOUS
    <2> PICK new : new = sock'[k].stream
      OBVIOUS
    <2> PICK m : m = buf[b0].msg
      OBVIOUS
    <2> PICK s : s = conn[c].sent
      OBVIOUS
    <2>2. Longer(new, st, m, len) /\ Elems(new) = Elems(st) \cup {m}
      OBVIOUS
    <2>3. /\ s \in Nat /\ RespLen \in Nat \ {0}
          /\ s * RespLen <= Len(st) /\ Len(st) + len <= (s + 1) * RespLen
      <3>1. /\ Len(st) = s * RespLen + (RespLen - buf[b0].left)
            /\ buf[b0].left \in 0 .. RespLen /\ b0 # NULL
        BY <2>1, Constants DEF Bytes, WireInv, RespBytes
      <3>2. s \in Nat /\ RespLen \in Nat \ {0} /\ len <= buf[b0].left
        BY Constants DEF Structure, Types, ConnType
      <3> PICK x : x = s * RespLen
        OBVIOUS
      <3>3. x \in Nat /\ (s + 1) * RespLen = x + RespLen
        BY <3>2, TimesNext
      <3>4. x <= Len(st) /\ Len(st) + len <= x + RespLen
        BY ONLY <3>1, <3>2, <3>3, x = s * RespLen, len \in Nat
      <3> QED
        BY <3>2, <3>3, <3>4
    <2>4. /\ m \in Numbered(c) /\ \A b \in Queued(c) : buf[b].msg # m
          /\ After(st, s * RespLen, m)
      BY <2>1, Constants DEF Answers, AnswersInv, SendingMsg, After
    <2>5. After(new, s * RespLen, m) /\ Blocks(new, RespLen)
      <3>1. Blocks(st, RespLen)
        <4>1. Framed(k)
          BY DEF Answers
        <4> QED
          BY ONLY <4>1, st = sock[k].stream DEF Framed, Blocks
      <3> QED
        BY ONLY <2>2, <2>3, <2>4, <3>1, len \in Nat \ {0}, FramedMore
    <2>6. ASSUME NEW d \in Conns \ {c} PROVE AnswersInv(d)'
      <3>1. At(b0, "sendbuf", c)
        BY <2>1 DEF At
      <3>2. OnlyConn(c) /\ \A j \in Clients : j # conn[c].fd => sock'[j].stream = sock[j].stream
        BY <1>0 DEF OnlyConn, OnlySock
      <3> QED
        BY <1>0, <2>1, <3>1, <3>2, AnswersOthers DEF Answers
    <2>7. AnswersInv(c)'
      <3>1. \A b \in Buffers : buf'[b].msg = buf[b].msg
        BY DEF OnlyBuf
      <3>2. Queued(c)' = Queued(c) /\ Numbered(c)' = Numbered(c)
        BY <1>0 DEF Queued, Numbered
      <3>3. /\ Queued(c) \subseteq Buffers /\ conn[c].recvbuf # b0
            /\ conn[c].recvbuf \in Buffers \cup {NULL}
        BY <2>1, Constants, QueuedApart
      <3>4. /\ Elems(st) \subseteq Numbered(c)
            /\ \A b \in Queued(c) : buf[b].msg \in Numbered(c) \ Elems(st)
            /\ \A b, d \in Queued(c) : buf[b].msg = buf[d].msg => b = d
        BY <2>1 DEF Answers, AnswersInv, QueuedMsgs
      <3> PICK n : n = s * RespLen
        OBVIOUS
      <3>5. /\ sock'[conn'[c].fd].stream = new /\ conn'[c].sendbuf = b0
            /\ conn'[c].sent * RespLen = n /\ c \in Conns /\ buf'[b0].msg = m
        BY <1>0
      <3>6. QueuedMsgs(c)'
        <4>1. /\ Elems(new) \subseteq Numbered(c)
              /\ \A b \in Queued(c) : buf'[b].msg \in Numbered(c) \ Elems(new)
              /\ \A b, d \in Queued(c) : buf'[b].msg = buf'[d].msg => b = d
          BY ONLY <2>2, <2>4, <3>1, <3>3, <3>4
        <4> QED
          BY ONLY <3>2, <3>5, <4>1, QueuedNow
      <3>7. SendingMsg(c)'
        <4>1. /\ buf'[b0].msg \in Numbered(c)
              /\ \A b \in Queued(c) : buf'[b].msg # buf'[b0].msg
          BY ONLY <2>4, <3>1, <3>3, <3>5
        <4>2. \A i \in DOMAIN new : new[i] = buf'[b0].msg <=> i > n
          BY ONLY <2>5, <3>5, n = s * RespLen DEF After
        <4> QED
          BY ONLY <3>2, <3>5, <4>1, <4>2, SendingNow
      <3>8. ReceivedMsg(c)'
        BY <1>0, <2>1, <3>3 DEF Answers, AnswersInv, ReceivedMsg, OnlyBuf
      <3> QED
        BY <3>6, <3>7, <3>8 DEF AnswersInv
    <2>8. Framed(k)'
      <3>1. Framed(k) /\ Numbered(c) \subseteq {k} \X Whole(k)
        BY <2>1, ReceivedWhole DEF Answers
      <3>2. Elems(st) \subseteq {k} \X Whole(k)
        BY ONLY <3>1, st = sock[k].stream DEF Framed
      <3>3. Whole(k)' = Whole(k)
        BY DEF Whole
      <3> QED
        BY ONLY <2>2, <2>4, <2>5, <3>1, <3>2, <3>3, new = sock'[k].stream DEF Framed, Blocks
    <2>9. ASSUME NEW j \in Clients \ {k} PROVE Framed(j)'
      BY FramedKept DEF Answers, OnlySock
    <2> QED
      BY <2>6, <2>7, <2>8, <2>9 DEF Answers
  <1> QED
    BY <1>1, <1>2

\* A request that has come in full is the next one.
LEMMA RecvNumber ==
    ASSUME Structure, Bytes, NEW w \in IOs, Recv(w), NEW c \in Conns, c = io[w].conn,
           NEW b \in Buffers, b = conn[c].recvbuf, NEW k \in Clients, k = conn[c].fd,
           ~conn[c].closed, ~UNCHANGED <<buf, sock>>
    PROVE  /\ \E len \in Nat : sock'[k].consumed = sock[k].consumed + len
           /\ sock'[k].stream = sock[k].stream /\ OnlyBuf(b) /\ OnlySock(k)
           /\ buf'[b].left = 0 => buf'[b].msg = <<k, conn[c].received + 1>>
  <1> PICK len \in Nat \ {0} : Receives(w, c, len)
    BY RecvSome
  <1>1. /\ len <= buf[b].left /\ buf'[b].left = buf[b].left - len /\ OnlyBuf(b)
        /\ OnlySock(k) /\ sock'[k].stream = sock[k].stream
        /\ sock'[k].consumed = sock[k].consumed + len
    BY Zenon DEF Receives
  <1>2. /\ conn[c].received \in Nat /\ sock[k].consumed \in Nat /\ ReqLen \in Nat \ {0}
        /\ buf[b].left \in 0 .. ReqLen
        /\ sock[k].consumed = conn[c].received * ReqLen + (ReqLen - buf[b].left)
    BY WireTypes, Constants DEF Bytes, WireInv, ReqBytes
  <1>3. /\ buf'[b].left = buf[b].left - min(IoSize(b), Avail(k))
        /\ sock'[k].consumed = sock[k].consumed + min(IoSize(b), Avail(k))
        /\ buf[b].left = min(IoSize(b), Avail(k)) =>
             buf'[b].msg = <<k, (sock[k].consumed + min(IoSize(b), Avail(k))) \div ReqLen>>
    BY RecvDoes, Zenon
  <1>4. ASSUME buf'[b].left = 0 PROVE buf'[b].msg = <<k, conn[c].received + 1>>
    <2>1. IoSize(b) \in Nat /\ Avail(k) \in Int
      BY <1>2, IoSizeFits, RoomType
    <2>2. min(IoSize(b), Avail(k)) \in Int
      BY <2>1 DEF min
    <2> PICK n \in Int : n = min(IoSize(b), Avail(k))
      BY <2>2
    <2> PICK r \in Nat : r = conn[c].received
      BY <1>2
    <2>0. buf[b].left \in Nat
      BY ONLY <1>2
    <2> PICK left \in Nat : left = buf[b].left
      BY ONLY <2>0
    <2>3. left - len = 0 /\ left - n = 0
      BY <1>1, <1>3, <1>4
    <2>4. n = left /\ len = left
      BY ONLY <2>3, n \in Int, left \in Nat, len \in Nat
    <2>5. buf'[b].msg = <<k, (sock[k].consumed + left) \div ReqLen>>
      <3>1. buf[b].left = min(IoSize(b), Avail(k)) /\ left = min(IoSize(b), Avail(k))
        BY <2>4
      <3> QED
        BY <1>3, <3>1, Zenon
    <2>6. sock[k].consumed + left = (r + 1) * ReqLen
      <3> PICK x : x = r * ReqLen
        OBVIOUS
      <3>1. x \in Nat /\ (r + 1) * ReqLen = x + ReqLen
        BY <1>2, TimesNext
      <3>2. sock[k].consumed = x + (ReqLen - left)
        BY <1>2
      <3>3. sock[k].consumed + left = x + ReqLen
        BY ONLY <1>2, <3>1, <3>2, left \in Nat
      <3> QED
        BY <3>1, <3>3
    <2>7. ((r + 1) * ReqLen) \div ReqLen = r + 1
      <3> PICK m \in Nat : m = r + 1
        BY ONLY r \in Nat
      <3>1. (m * ReqLen) \div ReqLen = m
        BY Constants, WholeExact, Zenon
      <3> QED
        BY ONLY <3>1, m = r + 1, Zenon
    <2> QED
      BY <2>5, <2>6, <2>7, Zenon
  <1> QED
    BY <1>1, <1>4

LEMMA RecvAnswers ==
    ASSUME Structure, Ownership, Bytes, Answers, NEW w \in IOs, Recv(w)
    PROVE  Answers'
  <1> PICK c \in Conns : c = io[w].conn
    BY RecvDoes, Zenon
  <1>0. (\A d \in Conns : InFlight(d)' = InFlight(d)) /\ UNCHANGED conn
    BY HandlerOwns, RecvDoes, Zenon
  <1>1. CASE UNCHANGED <<buf, sock>>
    BY <1>0, <1>1, AnswersQuiet DEF SameAnswers, SameBuffers, SameServed
  <1>2. CASE ~UNCHANGED <<buf, sock>>
    <2> PICK b0 \in Buffers : b0 = conn[c].recvbuf
      BY RecvDoes, Zenon
    <2> PICK k \in Clients : k = conn[c].fd
      BY RecvDoes, Zenon
    <2>1. ~conn[c].closed
      BY Zenon DEF Structure, IOInv, Busy, Recv
    <2>2. /\ \E len \in Nat : sock'[k].consumed = sock[k].consumed + len
          /\ sock'[k].stream = sock[k].stream /\ OnlyBuf(b0) /\ OnlySock(k)
          /\ buf'[b0].left = 0 => buf'[b0].msg = <<k, conn[c].received + 1>>
      BY <1>2, <2>1, RecvNumber
    <2>3. \A j \in Clients : sock'[j].stream = sock[j].stream
      BY <2>2 DEF OnlySock
    <2>4. ASSUME NEW d \in Conns \ {c} PROVE AnswersInv(d)'
      <3>1. At(b0, "recvbuf", c) /\ OnlyConn(c)
        BY <1>0, <2>1 DEF At, OnlyConn
      <3> QED
        BY <1>0, <2>1, <2>2, <2>3, <3>1, AnswersOthers DEF Answers
    <2>5. AnswersInv(c)'
      <3>1. /\ Queued(c) \subseteq Buffers /\ b0 \notin Queued(c) /\ b0 # conn[c].sendbuf
            /\ conn[c].sendbuf \in Buffers \cup {NULL}
        BY <2>1, Constants, QueuedApart
      <3>2. \A b \in Queued(c) \cup {conn[c].sendbuf} : b # NULL => buf'[b] = buf[b]
        BY <2>2, <3>1 DEF OnlyBuf
      <3>3. Queued(c)' = Queued(c) /\ Numbered(c)' = Numbered(c)
        BY <1>0 DEF Queued, Numbered
      <3>4. NULL \notin Queued(c) /\ QueuedMsgs(c) /\ SendingMsg(c)
        BY <2>1, <3>1, Constants DEF Answers, AnswersInv
      <3>5. QueuedMsgs(c)'
        BY <1>0, <2>3, <3>2, <3>3, <3>4 DEF QueuedMsgs
      <3>6. SendingMsg(c)'
        BY <1>0, <2>3, <3>2, <3>3, <3>4 DEF SendingMsg
      <3>7. ReceivedMsg(c)'
        BY <1>0, <2>2 DEF ReceivedMsg
      <3> QED
        BY <3>5, <3>6, <3>7 DEF AnswersInv
    <2>6. ASSUME NEW j \in Clients PROVE Framed(j)'
      BY <2>2, <2>3, FramedKept DEF Answers, OnlySock
    <2> QED
      BY <2>4, <2>5, <2>6 DEF Answers
  <1> QED
    BY <1>1, <1>2

\* The next request joins those that are on their way.
LEMMA ReqPutAnswers ==
    ASSUME Structure, Ownership, Bytes, Answers, NEW w \in IOs, ReqPut(w)
    PROVE  Answers'
  <1> PICK c \in Conns : c = io[w].conn
    BY ReqPutDoes, Zenon
  <1> PICK b0 \in Buffers : b0 = conn[c].recvbuf
    BY ReqPutDoes, Zenon
  <1> PICK x \in Computes : x = conn[c].computeidx
    BY ReqPutDoes, Zenon
  <1>0. /\ io[w].pc = "req_put" /\ UNCHANGED <<buf, sock>> /\ OnlyConn(c) /\ SameOwner(c)
        /\ conn'[c].recvbuf = NULL /\ conn'[c].sendbuf = conn[c].sendbuf
        /\ conn'[c].send_queue = conn[c].send_queue
        /\ conn'[c].received = conn[c].received + 1 /\ conn'[c].sent = conn[c].sent
        /\ compute_inbox'[x] = Append(compute_inbox[x], b0)
    BY ReqPutDoes
  <1>1. ~conn[c].closed /\ b0 # NULL
    BY <1>0, Constants DEF Structure, IOInv, Busy
  <1>2. b0 \notin Queued(c) /\ Queued(c) \subseteq Buffers /\ conn[c].sendbuf \in Buffers \cup {NULL}
    BY <1>1, QueuedApart
  <1>3. Queued(c)' = Queued(c) \cup {b0}
    <2> PICK b \in Buffers \ InFlight(c) : InFlight(c)' = InFlight(c) \cup {b}
      BY ReqPutOwns
    <2>1. b0 \in InFlight(c)'
      <3>1. b0 \in Elems(compute_inbox'[x])
        <4>1. compute_inbox[x] \in Seq(Buffers) /\ compute_inbox'[x] = Append(compute_inbox[x], b0)
          BY <1>0, Zenon DEF Structure, Types
        <4> PICK q \in Seq(Buffers) : q = compute_inbox[x]
          BY <4>1
        <4>2. compute_inbox'[x] = Append(q, b0)
          BY <4>1, Zenon
        <4> QED
          BY ONLY <4>2, q \in Seq(Buffers), b0 \in Buffers, AppendElems
      <3>2. buf'[b0].conn = c
        BY <1>0, <1>1 DEF Ownership, BufferInv
      <3> QED
        BY <3>1, <3>2 DEF InFlight
    <2>2. b = b0
      BY <1>2, <2>1 DEF Queued
    <2> QED
      BY <1>0, <2>2 DEF Queued
  <1>4. buf[b0].msg = <<conn[c].fd, conn[c].received + 1>>
    <2>1. buf[b0].left = 0
      BY <1>0 DEF Bytes, IOWireInv
    <2> QED
      BY <1>1, <2>1 DEF Answers, AnswersInv, ReceivedMsg
  <1>5. conn[c].received \in Nat
    BY DEF Structure, Types, ConnType
  <1>6. /\ Numbered(c)' = Numbered(c) \cup {buf[b0].msg}
        /\ buf[b0].msg \notin Numbered(c)
    <2> PICK r \in Nat : r = conn[c].received
      BY <1>5
    <2>1. 1 .. r + 1 = (1 .. r) \cup {r + 1} /\ r + 1 \notin 1 .. r
      BY ONLY r \in Nat
    <2>2. conn'[c].fd = conn[c].fd /\ conn'[c].received = r + 1
      BY <1>0 DEF SameOwner
    <2>3. buf[b0].msg = <<conn[c].fd, r + 1>>
      BY <1>4
    <2> QED
      BY ONLY <2>1, <2>2, <2>3, r = conn[c].received DEF Numbered
  <1> PICK st : st = sock[conn[c].fd].stream
    OBVIOUS
  <1>7. /\ Elems(st) \subseteq Numbered(c)
        /\ \A b \in Queued(c) : buf[b].msg \in Numbered(c) \ Elems(st)
        /\ \A b, d \in Queued(c) : buf[b].msg = buf[d].msg => b = d
    BY <1>1 DEF Answers, AnswersInv, QueuedMsgs
  <1>8. sock'[conn'[c].fd].stream = st /\ buf' = buf /\ c \in Conns
    BY <1>0 DEF SameOwner
  <1> PICK N : N = Numbered(c) \cup {buf[b0].msg}
    OBVIOUS
  <1> PICK Q : Q = Queued(c) \cup {b0}
    OBVIOUS
  <1>9. Numbered(c)' = N /\ Queued(c)' = Q
    BY <1>3, <1>6, Zenon
  <1>10. QueuedMsgs(c)'
    <2>1. /\ Elems(st) \subseteq N /\ \A b \in Q : buf'[b].msg \in N \ Elems(st)
          /\ \A b, d \in Q : buf'[b].msg = buf'[d].msg => b = d
      BY ONLY <1>2, <1>6, <1>7, <1>8, N = Numbered(c) \cup {buf[b0].msg}, Q = Queued(c) \cup {b0}
    <2> QED
      BY ONLY <1>8, <1>9, <2>1, QueuedNow
  <1>11. SendingMsg(c)'
    <2> PICK s : s = conn[c].sendbuf
      OBVIOUS
    <2> PICK n : n = conn[c].sent * RespLen
      OBVIOUS
    <2>1. s # NULL => /\ buf[s].msg \in Numbered(c)
                      /\ \A b \in Queued(c) : buf[b].msg # buf[s].msg
                      /\ \A i \in DOMAIN st : st[i] = buf[s].msg <=> i > n
      BY <1>1 DEF Answers, AnswersInv, SendingMsg
    <2>2. s # NULL => /\ buf'[s].msg \in N
                      /\ \A b \in Q : buf'[b].msg # buf'[s].msg
                      /\ \A i \in DOMAIN st : st[i] = buf'[s].msg <=> i > n
      BY ONLY <1>2, <1>6, <1>7, <1>8, <2>1,
              N = Numbered(c) \cup {buf[b0].msg}, Q = Queued(c) \cup {b0}
    <2>3. conn'[c].sendbuf = s /\ conn'[c].sent * RespLen = n
      BY <1>0
    <2> QED
      BY ONLY <1>8, <1>9, <2>2, <2>3, SendingNow
  <1>12. ReceivedMsg(c)'
    BY <1>0 DEF ReceivedMsg
  <1>13. ASSUME NEW d \in Conns \ {c} PROVE AnswersInv(d)'
    <2>1. InFlight(d)' = InFlight(d) /\ SameAnswers(d)
      BY <1>0, ReqPutOwns DEF OnlyConn, SameAnswers, SameBuffers
    <2> QED
      BY <1>0, <2>1, AnswersKept DEF Answers
  <1>14. ASSUME NEW k \in Clients PROVE Framed(k)'
    BY <1>0, FramedKept DEF Answers
  <1>15. AnswersInv(c)'
    BY <1>10, <1>11, <1>12, Zenon DEF AnswersInv
  <1> QED
    BY <1>13, <1>14, <1>15 DEF Answers

\* An answered request changes places only.
LEMMA SubmitPutAnswers ==
    ASSUME Structure, Ownership, Answers, NEW s \in Submitters, SubmitPut(s)
    PROVE  Answers'
  <1> PICK c \in Conns : c = sub[s].conn
    BY SubmitPutDoes, Zenon
  <1> PICK b0 \in Buffers : b0 = sub[s].buff
    BY SubmitPutDoes, Zenon
  <1>0. /\ sub[s].pc = "put" /\ UNCHANGED <<buf, sock>> /\ OnlyConn(c) /\ SameOwner(c)
        /\ conn'[c].recvbuf = conn[c].recvbuf /\ conn'[c].sendbuf = conn[c].sendbuf
        /\ conn'[c].received = conn[c].received /\ conn'[c].sent = conn[c].sent
        /\ ~conn[c].closed => conn'[c].send_queue = Append(conn[c].send_queue, b0)
    BY SubmitPutDoes, Zenon
  <1>1. ASSUME NEW d \in Conns \ {c} PROVE AnswersInv(d)'
    <2>1. InFlight(d)' = InFlight(d) /\ SameAnswers(d)
      BY <1>0, SubmitPutOwns DEF OnlyConn, SameAnswers, SameBuffers
    <2> QED
      BY <1>0, <2>1, AnswersKept DEF Answers
  <1>2. ASSUME conn[c].closed PROVE AnswersInv(c)'
    BY <1>0, <1>2 DEF AnswersInv, SameOwner
  <1>3. ASSUME ~conn[c].closed PROVE AnswersInv(c)'
    <2>1. Queued(c)' \subseteq Queued(c) /\ Numbered(c)' = Numbered(c)
      <3> PICK b \in InFlight(c) : InFlight(c)' = InFlight(c) \ {b}
        BY SubmitPutOwns
      <3>1. At(b0, "submitting", s) /\ "submitting" \in FlyingKinds /\ s \in PlaceIds
        BY <1>0 DEF At, FlyingKinds, PlaceIds
      <3>2. b0 \in InFlight(c)
        BY <3>1, FlyingBefore DEF Ownership
      <3>3. conn[c].send_queue \in Seq(Buffers)
        BY DEF Structure, Types, ConnType
      <3>4. Elems(conn'[c].send_queue) = Elems(conn[c].send_queue) \cup {b0}
        <4> PICK q \in Seq(Buffers) : q = conn[c].send_queue
          BY <3>3
        <4>1. conn'[c].send_queue = Append(q, b0)
          BY <1>0, <1>3, Zenon
        <4> QED
          BY ONLY <4>1, q = conn[c].send_queue, q \in Seq(Buffers), b0 \in Buffers, AppendElems
      <3> QED
        BY <1>0, <3>2, <3>4 DEF Queued, Numbered, SameOwner
    <2> PICK st : st = sock[conn[c].fd].stream
      OBVIOUS
    <2> PICK n : n = conn[c].sent * RespLen
      OBVIOUS
    <2> PICK t : t = conn[c].sendbuf
      OBVIOUS
    <2> PICK Q : Q = Queued(c)'
      OBVIOUS
    <2>2. /\ sock'[conn'[c].fd].stream = st /\ conn'[c].sendbuf = t
          /\ conn'[c].sent * RespLen = n /\ buf' = buf /\ c \in Conns /\ Queued(c)' = Q
      BY <1>0 DEF SameOwner
    <2>3. /\ Elems(st) \subseteq Numbered(c)
          /\ \A b \in Queued(c) : buf[b].msg \in Numbered(c) \ Elems(st)
          /\ \A b, d \in Queued(c) : buf[b].msg = buf[d].msg => b = d
      BY <1>3 DEF Answers, AnswersInv, QueuedMsgs
    <2>4. t # NULL => /\ buf[t].msg \in Numbered(c)
                      /\ \A b \in Queued(c) : buf[b].msg # buf[t].msg
                      /\ \A i \in DOMAIN st : st[i] = buf[t].msg <=> i > n
      BY <1>3 DEF Answers, AnswersInv, SendingMsg
    <2>5. QueuedMsgs(c)'
      <3>1. /\ \A b \in Q : buf'[b].msg \in Numbered(c) \ Elems(st)
            /\ \A b, d \in Q : buf'[b].msg = buf'[d].msg => b = d
        BY ONLY <2>1, <2>2, <2>3
      <3> QED
        BY ONLY <2>1, <2>2, <2>3, <3>1, QueuedNow
    <2>6. SendingMsg(c)'
      <3>1. t # NULL => /\ buf'[t].msg \in Numbered(c)
                        /\ \A b \in Q : buf'[b].msg # buf'[t].msg
                        /\ \A i \in DOMAIN st : st[i] = buf'[t].msg <=> i > n
        BY ONLY <2>1, <2>2, <2>4
      <3> QED
        BY ONLY <2>1, <2>2, <3>1, SendingNow
    <2>7. ReceivedMsg(c)'
      BY <1>0, <1>3 DEF Answers, AnswersInv, ReceivedMsg, SameOwner
    <2> QED
      BY <2>5, <2>6, <2>7 DEF AnswersInv
  <1>4. ASSUME NEW k \in Clients PROVE Framed(k)'
    BY <1>0, FramedKept DEF Answers
  <1> QED
    BY <1>1, <1>2, <1>3, <1>4 DEF Answers

\* A new session has no request, and its stream no response.
LEMMA AcceptInitAnswers ==
    ASSUME Structure, Ownership, Bytes, Answers, NEW a \in Acceptors,
           AcceptInit(a) \/ AcceptCtlFail(a)
    PROVE  Answers'
  <1> PICK c \in Conns : c = acc[a].conn
    BY AcceptInitDoes, AcceptCtlFailDoes, Zenon
  <1> PICK k \in Clients : k = acc[a].fd
    BY AcceptInitDoes, AcceptCtlFailDoes, Zenon
  <1>0. acc[a].pc = "init" /\ UNCHANGED <<buf, sock>> /\ OnlyConn(c) /\ Fresh(c, k)
    BY AcceptInitDoes, AcceptCtlFailDoes, Zenon
  <1>1. \A d \in Conns : InFlight(d)' = InFlight(d)
    BY AcceptInitOwns
  <1>2. Released(c)
    BY <1>0, Zenon DEF Released, Taken
  <1>3. InFlight(c) = {}
    BY <1>2, PipelinedAt DEF Ownership, BufferInv, InFlight
  <1>4. conn[c].sendbuf = NULL /\ sock[k].stream = <<>>
    BY <1>0, <1>2 DEF Structure, SessionInv, Bytes, SocketInv
  <1>5. AnswersInv(c)'
    <2>1. Queued(c)' = {} /\ Elems(sock'[conn'[c].fd].stream) = {}
      BY <1>0, <1>1, <1>3, <1>4 DEF Queued, Elems, Fresh
    <2> QED
      BY <1>0, <1>4, <2>1 DEF AnswersInv, QueuedMsgs, SendingMsg, ReceivedMsg, Fresh
  <1>6. ASSUME NEW d \in Conns \ {c} PROVE AnswersInv(d)'
    <2>1. SameAnswers(d)
      BY <1>0 DEF OnlyConn, SameAnswers, SameBuffers
    <2> QED
      BY <1>0, <1>1, <2>1, AnswersKept DEF Answers
  <1>7. ASSUME NEW j \in Clients PROVE Framed(j)'
    BY <1>0, FramedKept DEF Answers
  <1> QED
    BY <1>5, <1>6, <1>7 DEF Answers

LEMMA AnswersStep ==
    ASSUME ServerInv, Answers, [Next]_vars
    PROVE  Answers'
  <1>0. Structure /\ Ownership /\ Counting /\ Bytes
    BY DEF ServerInv
  <1>1. ASSUME UNCHANGED <<conn, buf, queues, threads, sock>> PROVE Answers'
    BY <1>0, <1>1, OthersAnswers
  <1>2. ASSUME NEW a \in Acceptors, AcceptStep(a) PROVE Answers'
    <2>1. CASE AcceptInit(a) \/ AcceptCtlFail(a)
      BY <1>0, <2>1, AcceptInitAnswers
    <2> QED
      BY <1>0, <1>1, <1>2, <2>1, OthersAnswers DEF AcceptStep, AcceptIdle, IdleReturn
  <1>3. ASSUME NEW w \in IOs, IOStep(w) PROVE Answers'
    <2>1. CASE EpollWait(w) \/ Dispatch(w) \/ IOIdle(w)
      BY <1>0, <1>1, <2>1, OthersAnswers DEF IOIdle, IdleReturn
    <2>2. CASE RespTake(w) \/ Send(w) \/ RespSent(w) \/ ReqTake(w) \/ Recv(w) \/ ReqPut(w)
      BY <1>0, <2>2, RespTakeAnswers, SendAnswers, RespSentAnswers, ReqTakeAnswers,
         RecvAnswers, ReqPutAnswers
    <2> QED
      BY <1>0, <1>3, <2>1, <2>2, LockAnswers DEF IOStep
  <1>4. ASSUME NEW x \in Computes, ComputeStep(x) PROVE Answers'
    BY <1>0, <1>1, <1>4, OthersAnswers DEF ComputeStep, ComputeIdle, IdleReturn
  <1>5. ASSUME NEW s \in Submitters, SubmitStep(s) PROVE Answers'
    <2>1. CASE SubmitPut(s)
      BY <1>0, <2>1, SubmitPutAnswers
    <2> QED
      BY <1>0, <1>1, <1>5, <2>1, OthersAnswers DEF SubmitStep, SubmitIdle, IdleReturn
  <1>6. ASSUME NEW k \in Clients, ClientStep(k) \/ ClientShutdown(k) PROVE Answers'
    BY <1>0, <1>6, OthersAnswers
  <1>7. CASE Stop \/ Over \/ UNCHANGED vars
    BY <1>1, <1>7 DEF Stop, Over, vars
  <1> QED
    BY <1>2, <1>3, <1>4, <1>5, <1>6, <1>7 DEF Next

LEMMA InitAnswers ==
    ASSUME Init
    PROVE  Answers
  <1>1. ASSUME NEW c \in Conns PROVE AnswersInv(c)
    BY DEF Init, AnswersInv
  <1>2. ASSUME NEW k \in Clients PROVE Framed(k)
    BY DEF Init, Framed, Elems
  <1> QED
    BY <1>1, <1>2 DEF Answers

\* What a client reads is one whole response after another, each the answer to
\* another request that its session had received in full, whatever part of one
\* send accepts and in whatever order the threads give them back (io.c,
\* handle_response and handle_request; submit.c, __submitter_worker).
THEOREM ServerResponsesFramed ==
    ASSUME Orderly
    PROVE  Spec => []ResponsesFramed
  <1>1. Spec => []ServerInv
    BY ServerInvariance
  <1>2. Init => Answers
    BY InitAnswers
  <1>3. ServerInv /\ Answers /\ [Next]_vars => Answers'
    BY AnswersStep
  <1>4. ServerInv /\ Answers => ResponsesFramed
    BY FramedMeans DEF ServerInv, Answers
  <1> QED
    BY <1>1, <1>2, <1>3, <1>4, PTL DEF Spec
=============================================================================

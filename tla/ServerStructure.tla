--------------------------- MODULE ServerStructure ---------------------------
(***************************************************************************)
(* The sessions of Server, their locks, and the threads that have them.    *)
(*                                                                         *)
(* First, what each step changes when the Structure of ServerInvariant     *)
(* holds: the labels it leaves and reaches, the fields it sets, and that   *)
(* the types hold after it.  All the proofs that follow cite these lemmas, *)
(* <action>Does, in place of the actions.                                  *)
(*                                                                         *)
(* Then, that every step keeps Structure, as long as the other parts of    *)
(* the invariant hold before it.  A handler of an IO thread, and a step of *)
(* a submit thread, changes one session and its own thread; that this      *)
(* leaves the invariants of all others alone is proved once, in            *)
(* HandlerKeeps and SubmitterKeeps, and each action then only has to care  *)
(* for its own session and thread.                                         *)
(***************************************************************************)
EXTENDS ServerInvariant, TLAPS, FiniteSetTheorems


----------------------------------------------------------------------------
\* Sequences without repetition

\* Appending an element that is not there.
LEMMA AppendElems ==
    ASSUME NEW T, NEW s \in Seq(T), NEW e \in T
    PROVE  /\ Append(s, e) \in Seq(T) /\ Len(Append(s, e)) = Len(s) + 1
           /\ Elems(Append(s, e)) = Elems(s) \cup {e}
           /\ Inj(s) /\ e \notin Elems(s) => Inj(Append(s, e))
  BY DEF Elems, Inj

\* Taking the first element.
LEMMA TailElems ==
    ASSUME NEW T, NEW s \in Seq(T), s # <<>>
    PROVE  /\ Tail(s) \in Seq(T) /\ Head(s) \in T /\ Len(Tail(s)) = Len(s) - 1
           /\ Elems(s) = Elems(Tail(s)) \cup {Head(s)}
           /\ Inj(s) => Inj(Tail(s)) /\ Head(s) \notin Elems(Tail(s))
  <1>1. /\ Tail(s) \in Seq(T) /\ Head(s) \in T /\ Len(Tail(s)) = Len(s) - 1 /\ Len(s) \in Nat \ {0}
        /\ Head(s) = s[1] /\ \A i \in 1 .. Len(s) - 1 : Tail(s)[i] = s[i + 1]
    OBVIOUS
  <1>2. Elems(s) \subseteq Elems(Tail(s)) \cup {Head(s)}
    <2> SUFFICES ASSUME NEW i \in 1 .. Len(s) PROVE s[i] \in Elems(Tail(s)) \cup {Head(s)}
      BY DEF Elems
    <2>1. CASE i = 1
      BY <1>1, <2>1
    <2>2. CASE i # 1
      <3>1. i - 1 \in 1 .. Len(s) - 1 /\ i = (i - 1) + 1
        BY <1>1, <2>2
      <3>2. s[i] = Tail(s)[i - 1] /\ i - 1 \in DOMAIN Tail(s)
        BY <1>1, <3>1
      <3> QED
        BY <3>2 DEF Elems
    <2> QED
      BY <2>1, <2>2
  <1>3. Elems(Tail(s)) \cup {Head(s)} \subseteq Elems(s)
    BY <1>1 DEF Elems
  <1>4. Inj(s) => Inj(Tail(s)) /\ Head(s) \notin Elems(Tail(s))
    <2> SUFFICES ASSUME Inj(s) PROVE Inj(Tail(s)) /\ Head(s) \notin Elems(Tail(s))
      OBVIOUS
    <2>1. DOMAIN Tail(s) = 1 .. Len(s) - 1 /\ DOMAIN s = 1 .. Len(s)
      BY <1>1
    <2>2. \A i \in 1 .. Len(s) - 1 : i + 1 \in 1 .. Len(s) /\ i + 1 # 1 /\ 1 \in 1 .. Len(s)
      BY <1>1
    <2>3. \A i, j \in 1 .. Len(s) - 1 : s[i + 1] = s[j + 1] => i = j
      <3> TAKE i, j \in 1 .. Len(s) - 1
      <3>1. s[i + 1] = s[j + 1] => i + 1 = j + 1
        BY <2>1, <2>2 DEF Inj
      <3> QED
        BY <3>1
    <2>4. \A i \in 1 .. Len(s) - 1 : s[i + 1] # s[1]
      BY <2>1, <2>2 DEF Inj
    <2> QED
      BY <1>1, <2>1, <2>3, <2>4 DEF Inj, Elems
  <1> QED
    BY <1>1, <1>2, <1>3, <1>4

\* Putting two sequences without a common element together.
LEMMA ConcatElems ==
    ASSUME NEW T, NEW s \in Seq(T), NEW t \in Seq(T)
    PROVE  /\ s \o t \in Seq(T) /\ Len(s \o t) = Len(s) + Len(t)
           /\ Elems(s \o t) = Elems(s) \cup Elems(t)
           /\ Inj(s) /\ Inj(t) /\ Elems(s) \cap Elems(t) = {} => Inj(s \o t)
  <1>1. /\ s \o t \in Seq(T) /\ Len(s \o t) = Len(s) + Len(t) /\ Len(s) \in Nat /\ Len(t) \in Nat
        /\ \A i \in 1 .. Len(s) : (s \o t)[i] = s[i]
        /\ \A i \in 1 .. Len(t) : (s \o t)[Len(s) + i] = t[i]
    OBVIOUS
  <1>2. \A i \in 1 .. Len(s) + Len(t) :
          \/ i \in 1 .. Len(s) /\ (s \o t)[i] = s[i]
          \/ i - Len(s) \in 1 .. Len(t) /\ (s \o t)[i] = t[i - Len(s)]
    <2> TAKE i \in 1 .. Len(s) + Len(t)
    <2>1. CASE i <= Len(s)
      BY <1>1, <2>1
    <2>2. CASE i > Len(s)
      <3>1. i - Len(s) \in 1 .. Len(t) /\ i = Len(s) + (i - Len(s))
        BY <1>1, <2>2
      <3> QED
        BY <1>1, <3>1
    <2> QED
      BY <1>1, <2>1, <2>2
  <1>3. Elems(s \o t) \subseteq Elems(s) \cup Elems(t)
    BY <1>1, <1>2 DEF Elems
  <1>4. Elems(s) \cup Elems(t) \subseteq Elems(s \o t)
    <2>1. DOMAIN (s \o t) = 1 .. Len(s) + Len(t) /\ DOMAIN s = 1 .. Len(s) /\ DOMAIN t = 1 .. Len(t)
      BY <1>1
    <2>2. \A i \in 1 .. Len(s) : i \in 1 .. Len(s) + Len(t)
      BY <1>1
    <2>3. \A i \in 1 .. Len(t) : Len(s) + i \in 1 .. Len(s) + Len(t)
      BY <1>1
    <2>4. Elems(s) \subseteq Elems(s \o t)
      BY <1>1, <2>1, <2>2 DEF Elems
    <2>5. Elems(t) \subseteq Elems(s \o t)
      <3> SUFFICES ASSUME NEW i \in 1 .. Len(t) PROVE t[i] \in Elems(s \o t)
        BY <2>1 DEF Elems
      <3>1. t[i] = (s \o t)[Len(s) + i] /\ Len(s) + i \in DOMAIN (s \o t)
        BY <1>1, <2>1, <2>3
      <3> QED
        BY <3>1 DEF Elems
    <2> QED
      BY <2>4, <2>5
  <1>5. Inj(s) /\ Inj(t) /\ Elems(s) \cap Elems(t) = {} => Inj(s \o t)
    <2> SUFFICES ASSUME Inj(s), Inj(t), Elems(s) \cap Elems(t) = {},
                        NEW i \in 1 .. Len(s) + Len(t), NEW j \in 1 .. Len(s) + Len(t),
                        (s \o t)[i] = (s \o t)[j]
                 PROVE  i = j
      BY <1>1 DEF Inj
    <2>1. DOMAIN s = 1 .. Len(s) /\ DOMAIN t = 1 .. Len(t)
      BY <1>1
    <2>2. \A m \in 1 .. Len(s), n \in 1 .. Len(t) : s[m] # t[n]
      BY <2>1 DEF Elems
    <2>3. \/ i \in 1 .. Len(s) /\ (s \o t)[i] = s[i]
          \/ i - Len(s) \in 1 .. Len(t) /\ (s \o t)[i] = t[i - Len(s)]
      BY <1>2
    <2>4. \/ j \in 1 .. Len(s) /\ (s \o t)[j] = s[j]
          \/ j - Len(s) \in 1 .. Len(t) /\ (s \o t)[j] = t[j - Len(s)]
      BY <1>2
    <2>5. CASE i \in 1 .. Len(s) /\ j \in 1 .. Len(s)
      BY <2>1, <2>3, <2>4, <2>5 DEF Inj
    <2>6. CASE i \notin 1 .. Len(s) /\ j \notin 1 .. Len(s)
      <3>1. i - Len(s) = j - Len(s)
        BY <2>1, <2>3, <2>4, <2>6 DEF Inj
      <3> QED
        BY <1>1, <3>1
    <2> QED
      BY <2>2, <2>3, <2>4, <2>5, <2>6
  <1> QED
    BY <1>1, <1>3, <1>4, <1>5

----------------------------------------------------------------------------
\* What a step changes

\* An IO thread's next label; a handler that returns.
Goes(w, label) ==
    /\ \A v \in IOs \ {w} : io'[v] = io[v]
    /\ io'[w].pc = label /\ io'[w].in = io[w].in
    /\ io'[w].conn = io[w].conn /\ io'[w].events = io[w].events
Returns(w) ==
    /\ \A v \in IOs \ {w} : io'[v] = io[v]
    /\ io'[w].pc = (IF io[w].in THEN "req" ELSE "dispatch") /\ ~io'[w].in
    /\ io'[w].conn = io[w].conn /\ io'[w].events = io[w].events

\* The fields of a session, by who is concerned.
SameOwner(c) ==
    /\ conn'[c].fd = conn[c].fd /\ conn'[c].closed = conn[c].closed
    /\ conn'[c].ioidx = conn[c].ioidx /\ conn'[c].submitidx = conn[c].submitidx
    /\ conn'[c].computeidx = conn[c].computeidx
SameBuffers(c) ==
    /\ conn'[c].recvbuf = conn[c].recvbuf /\ conn'[c].sendbuf = conn[c].sendbuf
    /\ conn'[c].send_queue = conn[c].send_queue
SameCounts(c) ==
    /\ conn'[c].received = conn[c].received /\ conn'[c].processed = conn[c].processed
    /\ conn'[c].sent = conn[c].sent
SameLock(c) == conn'[c].lock = conn[c].lock
SameOut(c)  == conn'[c].epoll_state = conn[c].epoll_state

\* The fields of a socket the server sets, and those its peer sets.
SameServed(k) ==
    /\ sock'[k].consumed = sock[k].consumed /\ sock'[k].stream = sock[k].stream
SamePeer(k) ==
    /\ sock'[k].peer = sock[k].peer /\ sock'[k].err = sock[k].err
    /\ sock'[k].wrote = sock[k].wrote /\ sock'[k].got = sock[k].got

\* len bytes of a response.
Copies(msg, len) == [i \in 1 .. len |-> msg]

OnlyConn(c) == \A d \in Conns \ {c} : conn'[d] = conn[d]
OnlyBuf(b)  == \A d \in Buffers \ {b} : buf'[d] = buf[d]
OnlySock(k) == \A j \in Clients \ {k} : sock'[j] = sock[j]

LEMMA Constants ==
    /\ ReqLen \in Nat \ {0} /\ RespLen \in Nat \ {0} /\ MaxIo \in Nat \ {0}
    /\ MAX_EVENTS \in Nat \ {0} /\ SockBuf \in Nat \ {0}
    /\ Readahead \in Nat /\ MaxRequests \in Nat
    /\ NULL \notin Conns /\ NULL \notin Buffers /\ NULL \notin Clients
    /\ IsFiniteSet(Conns) /\ IsFiniteSet(Buffers)
  BY ServerAssumption

LEMMA RoomType ==
    ASSUME Structure, NEW k \in Clients
    PROVE  Room(k) \in Int /\ Avail(k) \in Int
  <1> DEFINE n == Len(sock[k].stream)
             g == sock[k].got
             u == sock[k].wrote
             t == sock[k].consumed
  <1>1. sock[k] \in SockType
    BY DEF Structure, Types
  <1>2. sock[k].stream \in Seq(Msg) /\ g \in Nat /\ u \in Nat /\ t \in Nat
    BY <1>1 DEF SockType
  <1>3. n \in Nat /\ SockBuf \in Nat
    BY <1>2, Constants
  <1>4. Room(k) = SockBuf - (n - g) /\ Avail(k) = u - t
    BY DEF Room, Unread, Avail
  <1> HIDE DEF n, g, u, t
  <1> QED
    BY <1>2, <1>3, <1>4

LEMMA IoSizeFits ==
    ASSUME NEW b, buf[b].left \in Nat
    PROVE  IoSize(b) \in Nat /\ IoSize(b) <= buf[b].left
  <1> DEFINE left == buf[b].left
  <1>1. left \in Nat /\ MaxIo \in Nat
    BY Constants
  <1>2. IoSize(b) = IF left > MaxIo THEN MaxIo ELSE left
    BY DEF IoSize, min
  <1> HIDE DEF left
  <1>3. IoSize(b) \in Nat /\ IoSize(b) <= left
    BY <1>1, <1>2
  <1> QED
    BY <1>3 DEF left

LEMMA Goto ==
    ASSUME Types, NEW w \in IOs, NEW label \in IOPc, IOGoto(w, label)
    PROVE  Goes(w, label) /\ io' \in [IOs -> IOType]
  BY DEF Types, IOType, IOGoto, Goes

LEMMA Return ==
    ASSUME Types, NEW w \in IOs, IOReturn(w)
    PROVE  Returns(w) /\ io' \in [IOs -> IOType]
  <1> DEFINE label == IF io[w].in THEN "req" ELSE "dispatch"
  <1>1. label \in IOPc /\ label = IF io[w].in THEN "req" ELSE "dispatch"
    BY DEF IOPc
  <1> DEFINE no == FALSE
  <1>2. io' = [io EXCEPT ![w].pc = label, ![w].in = no] /\ no \in BOOLEAN /\ ~no
    BY DEF IOReturn
  <1> HIDE DEF label, no
  <1>3. /\ \A v \in IOs \ {w} : io'[v] = io[v]
        /\ io'[w].pc = label /\ io'[w].in = no
        /\ io'[w].conn = io[w].conn /\ io'[w].events = io[w].events
    BY <1>2 DEF Types, IOType
  <1> DEFINE r == [io[w] EXCEPT !.pc = label, !.in = no]
  <1>4. r \in IOType
    BY <1>1, <1>2 DEF Types, IOType
  <1>5. io' = [io EXCEPT ![w] = r]
    BY <1>2 DEF Types
  <1> HIDE DEF r
  <1>6. io' \in [IOs -> IOType]
    BY <1>4, <1>5 DEF Types
  <1> QED
    BY <1>1, <1>2, <1>3, <1>6 DEF Returns

\* A buffer taken for a message of so many bytes.
LEMMA TakeBuf ==
    ASSUME Types, NEW b \in Buffers, NEW c \in Conns, NEW size \in {ReqLen, RespLen},
           buf' = [buf EXCEPT ![b].conn = c, ![b].left = size]
    PROVE  /\ OnlyBuf(b) /\ buf'[b].conn = c /\ buf'[b].left = size
           /\ buf'[b].msg = buf[b].msg /\ buf' \in [Buffers -> BufType]
  <1>1. size \in 0 .. ReqLen + RespLen
    BY Constants
  <1>2. OnlyBuf(b) /\ buf'[b].conn = c /\ buf'[b].left = size /\ buf'[b].msg = buf[b].msg
    BY DEF Types, BufType, OnlyBuf
  <1>3. buf' \in [Buffers -> BufType]
    BY <1>1 DEF Types, BufType
  <1> QED
    BY <1>2, <1>3

\* The session of a busy IO thread.
LEMMA BusyConn ==
    ASSUME Structure, NEW w \in IOs, Busy(w)
    PROVE  /\ io[w].conn \in Conns /\ conn[io[w].conn] \in ConnType
           /\ conn[io[w].conn].ioidx = w /\ ~Released(io[w].conn)
  BY DEF Structure, Types, IOInv

LEMMA RespTakeDoes ==
    ASSUME Structure, NEW w \in IOs, RespTake(w)
    PROVE  LET c == io[w].conn
               b == Head(conn[c].send_queue)
           IN  /\ io[w].pc = "resp" /\ c \in Conns /\ Types'
               /\ UNCHANGED <<queues, sub, cmp, acc, sock, backlog, life>>
               /\ \/ /\ conn[c].sendbuf # NULL /\ Goes(w, "send") /\ UNCHANGED <<conn, buf>>
                  \/ /\ conn[c].sendbuf = NULL /\ conn[c].send_queue = <<>>
                     /\ Returns(w) /\ UNCHANGED <<conn, buf>>
                  \/ /\ conn[c].sendbuf = NULL /\ conn[c].send_queue # <<>>
                     /\ OnlyConn(c) /\ SameOwner(c) /\ SameCounts(c) /\ SameLock(c) /\ SameOut(c)
                     /\ b \in Buffers /\ conn'[c].sendbuf = b
                     /\ conn'[c].send_queue = Tail(conn[c].send_queue)
                     /\ conn'[c].recvbuf = conn[c].recvbuf
                     /\ OnlyBuf(b) /\ buf'[b].conn = c /\ buf'[b].left = RespLen
                     /\ buf'[b].msg = buf[b].msg /\ Goes(w, "send")
  <1> DEFINE c == io[w].conn
             b == Head(conn[c].send_queue)
  <1>1. io[w].pc = "resp" /\ Busy(w) /\ UNCHANGED <<queues, sub, cmp, acc, sock, backlog, life>>
    BY Zenon DEF RespTake, Busy
  <1>2. c \in Conns /\ conn[c] \in ConnType /\ Types
    BY <1>1, BusyConn DEF Structure
  <1>3. ASSUME UNCHANGED <<conn, buf>>, io' \in [IOs -> IOType]
        PROVE  Types'
    BY <1>1, <1>2, <1>3 DEF Types, queues
  <1>4. CASE conn[c].sendbuf # NULL
    <2>1. IOGoto(w, "send") /\ UNCHANGED <<conn, buf>>
      BY <1>4, Zenon DEF RespTake
    <2>2. Goes(w, "send") /\ io' \in [IOs -> IOType]
      BY <2>1, <1>2, Goto DEF IOPc
    <2> QED
      BY <1>1, <1>2, <1>3, <1>4, <2>1, <2>2
  <1>5. CASE conn[c].sendbuf = NULL /\ conn[c].send_queue = <<>>
    <2>1. IOReturn(w) /\ UNCHANGED <<conn, buf>>
      BY <1>5 DEF RespTake
    <2>2. Returns(w) /\ io' \in [IOs -> IOType]
      BY <2>1, <1>2, Return
    <2> QED
      BY <1>1, <1>2, <1>3, <1>5, <2>1, <2>2
  <1>6. CASE conn[c].sendbuf = NULL /\ conn[c].send_queue # <<>>
    <2>1. /\ IOGoto(w, "send")
          /\ conn' = [conn EXCEPT ![c].sendbuf = b, ![c].send_queue = Tail(@)]
          /\ buf' = [buf EXCEPT ![b].conn = c, ![b].left = RespLen]
      BY <1>6, Zenon DEF RespTake
    <2>2. Goes(w, "send") /\ io' \in [IOs -> IOType]
      BY <2>1, <1>2, Goto, Zenon DEF IOPc
    <2>3. b \in Buffers /\ Tail(conn[c].send_queue) \in Seq(Buffers)
      BY <1>2, <1>6, TailElems DEF ConnType
    <2>4. /\ OnlyConn(c) /\ SameOwner(c) /\ SameCounts(c) /\ SameLock(c) /\ SameOut(c)
          /\ conn'[c].sendbuf = b /\ conn'[c].send_queue = Tail(conn[c].send_queue)
          /\ conn'[c].recvbuf = conn[c].recvbuf /\ conn' \in [Conns -> ConnType]
      BY <1>2, <2>1, <2>3, Zenon DEF Types, ConnType, OnlyConn, SameOwner, SameCounts, SameLock, SameOut
    <2>5. /\ OnlyBuf(b) /\ buf'[b].conn = c /\ buf'[b].left = RespLen
          /\ buf'[b].msg = buf[b].msg /\ buf' \in [Buffers -> BufType]
      BY <1>2, <2>1, <2>3, TakeBuf, Constants, Zenon
    <2>6. Types'
      BY <1>1, <1>2, <2>2, <2>4, <2>5 DEF Types, queues
    <2> QED
      BY <1>1, <1>2, <1>6, <2>2, <2>3, <2>4, <2>5, <2>6
  <1> QED
    BY <1>4, <1>5, <1>6, Zenon

\* A session's lock word alone.
LEMMA LockDoes ==
    ASSUME Types, NEW c \in Conns, NEW l \in {0, 1}, conn' = [conn EXCEPT ![c].lock = l]
    PROVE  /\ OnlyConn(c) /\ SameOwner(c) /\ SameBuffers(c) /\ SameCounts(c) /\ SameOut(c)
           /\ conn'[c].lock = l /\ conn' \in [Conns -> ConnType]
  <1> DEFINE r == [conn[c] EXCEPT !.lock = l]
  <1>1. /\ r \in ConnType /\ r.lock = l
        /\ r.fd = conn[c].fd /\ r.closed = conn[c].closed /\ r.ioidx = conn[c].ioidx
        /\ r.submitidx = conn[c].submitidx /\ r.computeidx = conn[c].computeidx
        /\ r.recvbuf = conn[c].recvbuf /\ r.sendbuf = conn[c].sendbuf
        /\ r.send_queue = conn[c].send_queue /\ r.epoll_state = conn[c].epoll_state
        /\ r.received = conn[c].received /\ r.processed = conn[c].processed
        /\ r.sent = conn[c].sent
    BY DEF Types, ConnType
  <1>2. conn' = [conn EXCEPT ![c] = r]
    BY DEF Types
  <1> HIDE DEF r
  <1> QED
    BY <1>1, <1>2 DEF Types, OnlyConn, SameOwner, SameBuffers, SameCounts, SameOut

LEMMA SendDoes ==
    ASSUME Structure, NEW w \in IOs, Send(w)
    PROVE  LET c == io[w].conn
               b == conn[c].sendbuf
               k == conn[c].fd
               len == min(IoSize(b), Room(k))
           IN  /\ io[w].pc = "send" /\ c \in Conns /\ b \in Buffers /\ k \in Clients /\ Types'
               /\ UNCHANGED <<conn, queues, sub, cmp, acc, backlog, life>>
               /\ \/ SendFails(k) /\ Goes(w, "finish") /\ UNCHANGED <<buf, sock>>
                  \/ ~SendFails(k) /\ len = 0 /\ Returns(w) /\ UNCHANGED <<buf, sock>>
                  \/ /\ ~SendFails(k) /\ len > 0
                     /\ OnlyBuf(b) /\ buf'[b].conn = buf[b].conn /\ buf'[b].msg = buf[b].msg
                     /\ buf'[b].left = buf[b].left - len
                     /\ OnlySock(k) /\ SamePeer(k) /\ sock'[k].link = sock[k].link
                     /\ sock'[k].consumed = sock[k].consumed
                     /\ sock'[k].stream = sock[k].stream \o Copies(buf[b].msg, len)
                     /\ \/ len < IoSize(b) /\ Returns(w)
                        \/ len = IoSize(b) /\ buf[b].left = len /\ Goes(w, "sent")
                        \/ len = IoSize(b) /\ buf[b].left # len /\ Goes(w, "resp")
  <1> DEFINE c == io[w].conn
             b == conn[c].sendbuf
             k == conn[c].fd
             len == min(IoSize(b), Room(k))
  <1>1. /\ io[w].pc = "send" /\ Busy(w)
        /\ UNCHANGED <<conn, queues, sub, cmp, acc, backlog, life>>
    BY Zenon DEF Send, Busy
  <1>2. c \in Conns /\ conn[c] \in ConnType /\ Types
    BY <1>1, BusyConn DEF Structure
  <1>3. b \in Buffers /\ k \in Clients
    BY <1>1, <1>2 DEF Structure, IOInv, SessionInv, ConnType, Busy
  <1>4. buf[b] \in BufType /\ sock[k] \in SockType /\ Len(sock[k].stream) \in Nat
    BY <1>2, <1>3 DEF Types, SockType
  <1>5. ASSUME UNCHANGED <<buf, sock>>, io' \in [IOs -> IOType]
        PROVE  Types'
    BY <1>1, <1>2, <1>5 DEF Types, queues
  <1>6. CASE SendFails(k) /\ IOGoto(w, "finish") /\ UNCHANGED <<buf, sock>>
    <2>1. Goes(w, "finish") /\ io' \in [IOs -> IOType]
      BY <1>2, <1>6, Goto DEF IOPc
    <2> QED
      BY <1>1, <1>2, <1>3, <1>5, <1>6, <2>1
  <1>7. CASE ~SendFails(k) /\ len = 0 /\ IOReturn(w) /\ UNCHANGED <<buf, sock>>
    <2>1. Returns(w) /\ io' \in [IOs -> IOType]
      BY <1>2, <1>7, Return
    <2> QED
      BY <1>1, <1>2, <1>3, <1>5, <1>7, <2>1
  <1>8. CASE /\ ~SendFails(k) /\ len > 0
             /\ buf' = [buf EXCEPT ![b].left = LeftAfter(b, len)]
             /\ sock' = [sock EXCEPT ![k].stream = @ \o [i \in 1 .. len |-> buf[b].msg]]
             /\ IF len < IoSize(b) THEN IOReturn(w)
                ELSE IOGoto(w, IF buf[b].left = len THEN "sent" ELSE "resp")
    <2> DEFINE st == Copies(buf[b].msg, len)
               longer == sock[k].stream \o st
               rest == buf[b].left - len
               r == [buf[b] EXCEPT !.left = rest]
               q == [sock[k] EXCEPT !.stream = longer]
    <2>0. /\ len > 0
          /\ IF len < IoSize(b) THEN IOReturn(w)
             ELSE IOGoto(w, IF buf[b].left = len THEN "sent" ELSE "resp")
      BY <1>8, Zenon
    <2>1. /\ IoSize(b) \in Nat /\ IoSize(b) <= buf[b].left
          /\ len \in Nat /\ len <= IoSize(b)
      <3>1. buf[b].left \in Nat /\ sock[k].got \in Nat
        BY <1>4, Constants DEF BufType, SockType
      <3>2. Room(k) \in Int
        BY <1>3, RoomType
      <3>3. IoSize(b) \in Nat /\ IoSize(b) <= buf[b].left
        BY <3>1, IoSizeFits
      <3>4. len \in Int /\ len <= IoSize(b)
        BY <3>2, <3>3 DEF min
      <3> QED
        BY <2>0, <3>3, <3>4
    <2>2. rest \in 0 .. ReqLen + RespLen
      BY <1>4, <2>1, Constants DEF BufType
    <2>3. st \in Seq(Msg)
      BY <1>4, <2>1, SMTT(20) DEF BufType, Copies
    <2>4. longer \in Seq(Msg)
      BY <1>4, <2>3, ConcatElems DEF SockType
    <2>5. buf' = [buf EXCEPT ![b] = r] /\ sock' = [sock EXCEPT ![k] = q]
      BY <1>2, <1>8, Zenon DEF Types, LeftAfter, Copies
    <2> HIDE DEF rest, longer
    <2>6. r \in BufType /\ r.left = rest /\ r.conn = buf[b].conn /\ r.msg = buf[b].msg
      BY <1>4, <2>2 DEF BufType
    <2>7. /\ q \in SockType /\ q.stream = longer /\ q.link = sock[k].link
          /\ q.peer = sock[k].peer /\ q.err = sock[k].err /\ q.wrote = sock[k].wrote
          /\ q.got = sock[k].got /\ q.consumed = sock[k].consumed
      BY <1>4, <2>4 DEF SockType
    <2> HIDE DEF r, q
    <2>8. /\ OnlyBuf(b) /\ buf'[b].conn = buf[b].conn /\ buf'[b].msg = buf[b].msg
          /\ buf'[b].left = rest /\ buf' \in [Buffers -> BufType]
      BY <1>2, <1>3, <2>5, <2>6 DEF Types, OnlyBuf
    <2>9. OnlySock(k) /\ sock'[k] = q /\ sock' \in [Clients -> SockType]
      BY <1>2, <1>3, <2>5, <2>7 DEF Types, OnlySock
    <2>10. /\ io' \in [IOs -> IOType]
           /\ \/ len < IoSize(b) /\ Returns(w)
              \/ len = IoSize(b) /\ buf[b].left = len /\ Goes(w, "sent")
              \/ len = IoSize(b) /\ buf[b].left # len /\ Goes(w, "resp")
      <3>1. CASE len < IoSize(b)
        BY <1>2, <1>8, <3>1, Return, Zenon
      <3>2. CASE ~(len < IoSize(b)) /\ buf[b].left = len
        <4>1. len = IoSize(b)
          BY <2>1, <3>2
        <4>2. IOGoto(w, "sent")
          BY <2>0, <3>2 DEF IOGoto
        <4> QED
          BY <1>2, <3>2, <4>1, <4>2, Goto DEF IOPc
      <3>3. CASE ~(len < IoSize(b)) /\ buf[b].left # len
        <4>1. len = IoSize(b)
          BY <2>1, <3>3
        <4>2. IOGoto(w, "resp")
          BY <2>0, <3>3 DEF IOGoto
        <4> QED
          BY <1>2, <3>3, <4>1, <4>2, Goto DEF IOPc
      <3> QED
        BY <3>1, <3>2, <3>3
    <2>11. Types'
      BY <1>1, <1>2, <2>8, <2>9, <2>10 DEF Types, queues
    <2> QED
      <3>1. ~SendFails(k) /\ len > 0
        BY <1>8, Zenon
      <3>2. SamePeer(k)
        BY <2>7, <2>9 DEF SamePeer
      <3> QED
        BY <1>1, <1>2, <1>3, <2>7, <2>8, <2>9, <2>10, <2>11, <3>1, <3>2, Zenon DEF rest, longer
  <1>9. \/ SendFails(k) /\ IOGoto(w, "finish") /\ UNCHANGED <<buf, sock>>
        \/ ~SendFails(k) /\ len = 0 /\ IOReturn(w) /\ UNCHANGED <<buf, sock>>
        \/ /\ ~SendFails(k) /\ len > 0
           /\ buf' = [buf EXCEPT ![b].left = LeftAfter(b, len)]
           /\ sock' = [sock EXCEPT ![k].stream = @ \o [i \in 1 .. len |-> buf[b].msg]]
           /\ IF len < IoSize(b) THEN IOReturn(w)
              ELSE IOGoto(w, IF buf[b].left = len THEN "sent" ELSE "resp")
    BY Zenon DEF Send
  <1> QED
    BY <1>6, <1>7, <1>8, <1>9, Zenon

LEMMA RespSentDoes ==
    ASSUME Structure, NEW w \in IOs, RespSent(w)
    PROVE  LET c == io[w].conn
               b == conn[c].sendbuf
           IN  /\ io[w].pc = "sent" /\ c \in Conns /\ b \in Buffers /\ Types'
               /\ UNCHANGED <<buf, empty_connections, compute_inbox, submitter_inbox,
                              sub, cmp, acc, sock, backlog, life>>
               /\ OnlyConn(c) /\ SameOwner(c) /\ SameLock(c) /\ SameOut(c)
               /\ conn'[c].sendbuf = NULL /\ conn'[c].recvbuf = conn[c].recvbuf
               /\ conn'[c].send_queue = conn[c].send_queue /\ conn'[c].sent = conn[c].sent + 1
               /\ conn'[c].received = conn[c].received /\ conn'[c].processed = conn[c].processed
               /\ empty_buffers' = Append(empty_buffers, b) /\ Goes(w, "resp_lock")
  <1> DEFINE c == io[w].conn
             b == conn[c].sendbuf
             more == conn[c].sent + 1
             r == [conn[c] EXCEPT !.sent = more, !.sendbuf = NULL]
  <1>1. /\ io[w].pc = "sent" /\ Busy(w) /\ empty_buffers' = Append(empty_buffers, b)
        /\ UNCHANGED <<buf, empty_connections, compute_inbox, submitter_inbox,
                       sub, cmp, acc, sock, backlog, life>>
        /\ IOGoto(w, "resp_lock")
    BY DEF RespSent, Busy
  <1>2. c \in Conns /\ conn[c] \in ConnType /\ Types
    BY <1>1, BusyConn DEF Structure
  <1>3. b \in Buffers
    BY <1>1, <1>2 DEF Structure, IOInv, ConnType
  <1>4. Goes(w, "resp_lock") /\ io' \in [IOs -> IOType]
    BY <1>1, <1>2, Goto DEF IOPc
  <1>5. conn' = [conn EXCEPT ![c] = r]
    BY <1>2 DEF RespSent, SentOneMore, Types
  <1>6. more \in Nat
    <2>1. conn[c].sent \in Nat
      BY <1>2 DEF ConnType
    <2> QED
      BY ONLY <2>1
  <1> HIDE DEF more
  <1>7. /\ r \in ConnType /\ r.sent = more /\ r.sendbuf = NULL /\ r.lock = conn[c].lock
        /\ r.fd = conn[c].fd /\ r.closed = conn[c].closed /\ r.ioidx = conn[c].ioidx
        /\ r.submitidx = conn[c].submitidx /\ r.computeidx = conn[c].computeidx
        /\ r.recvbuf = conn[c].recvbuf /\ r.send_queue = conn[c].send_queue
        /\ r.epoll_state = conn[c].epoll_state
        /\ r.received = conn[c].received /\ r.processed = conn[c].processed
    BY <1>2, <1>6 DEF ConnType
  <1> HIDE DEF r
  <1>8. conn' \in [Conns -> ConnType] /\ OnlyConn(c) /\ conn'[c] = r
    BY <1>2, <1>5, <1>7 DEF Types, OnlyConn
  <1>9. empty_buffers' \in Seq(Buffers)
    BY <1>1, <1>2, <1>3, AppendElems DEF Types
  <1>10. Types'
    BY <1>1, <1>2, <1>4, <1>8, <1>9 DEF Types
  <1> QED
    BY <1>1, <1>2, <1>3, <1>4, <1>7, <1>8, <1>10 DEF SameOwner, SameLock, SameOut, more

LEMMA RespLockDoes ==
    ASSUME Structure, NEW w \in IOs, RespLock(w)
    PROVE  LET c == io[w].conn
           IN  /\ io[w].pc = "resp_lock" /\ c \in Conns /\ conn[c].lock = 0 /\ Types'
               /\ UNCHANGED <<buf, queues, sub, cmp, acc, sock, backlog, life>>
               /\ OnlyConn(c) /\ SameOwner(c) /\ SameBuffers(c) /\ SameCounts(c) /\ SameOut(c)
               /\ conn'[c].lock = 1 /\ Goes(w, "resp_unlock")
  <1> DEFINE c == io[w].conn
  <1>1. /\ io[w].pc = "resp_lock" /\ Busy(w) /\ conn[c].lock = 0
        /\ UNCHANGED <<buf, queues, sub, cmp, acc, sock, backlog, life>>
        /\ IOGoto(w, "resp_unlock") /\ conn' = [conn EXCEPT ![c].lock = 1]
    BY DEF RespLock, Busy
  <1>2. c \in Conns /\ Types
    BY <1>1, BusyConn DEF Structure
  <1>3. Goes(w, "resp_unlock") /\ io' \in [IOs -> IOType]
    BY <1>1, <1>2, Goto DEF IOPc
  <1>4. /\ OnlyConn(c) /\ SameOwner(c) /\ SameBuffers(c) /\ SameCounts(c) /\ SameOut(c)
        /\ conn'[c].lock = 1 /\ conn' \in [Conns -> ConnType]
    BY <1>1, <1>2, LockDoes
  <1>5. Types'
    BY <1>1, <1>2, <1>3, <1>4 DEF Types, queues
  <1> QED
    BY <1>1, <1>2, <1>3, <1>4, <1>5

LEMMA RespUnlockDoes ==
    ASSUME Structure, NEW w \in IOs, RespUnlock(w)
    PROVE  LET c == io[w].conn
           IN  /\ io[w].pc = "resp_unlock" /\ c \in Conns /\ Types'
               /\ UNCHANGED <<buf, queues, sub, cmp, acc, sock, backlog, life>>
               /\ OnlyConn(c) /\ SameOwner(c) /\ SameBuffers(c) /\ SameCounts(c)
               /\ conn'[c].lock = 0 /\ conn'[c].epoll_state = OutCleared(c)
               /\ Goes(w, "resp")
  <1> DEFINE c == io[w].conn
             out == OutCleared(c)
             r == [conn[c] EXCEPT !.lock = 0, !.epoll_state = out]
  <1>1. /\ io[w].pc = "resp_unlock" /\ Busy(w)
        /\ UNCHANGED <<buf, queues, sub, cmp, acc, sock, backlog, life>>
        /\ IOGoto(w, "resp")
        /\ conn' = [conn EXCEPT ![c] = epoll_set_conn_state([@ EXCEPT !.lock = 0], OutCleared(c))]
    BY DEF RespUnlock, Busy
  <1>2. c \in Conns /\ conn[c] \in ConnType /\ Types
    BY <1>1, BusyConn DEF Structure
  <1>3. Goes(w, "resp") /\ io' \in [IOs -> IOType]
    BY <1>1, <1>2, Goto DEF IOPc
  <1>4. conn' = [conn EXCEPT ![c] = r]
    BY <1>1, <1>2 DEF Types, epoll_set_conn_state
  <1>5. out \subseteq {"IN", "OUT"}
    BY <1>2 DEF ConnType, OutCleared
  <1> HIDE DEF out
  <1>6. /\ r \in ConnType /\ r.lock = 0 /\ r.epoll_state = out
        /\ r.fd = conn[c].fd /\ r.closed = conn[c].closed /\ r.ioidx = conn[c].ioidx
        /\ r.submitidx = conn[c].submitidx /\ r.computeidx = conn[c].computeidx
        /\ r.recvbuf = conn[c].recvbuf /\ r.sendbuf = conn[c].sendbuf
        /\ r.send_queue = conn[c].send_queue
        /\ r.received = conn[c].received /\ r.processed = conn[c].processed
        /\ r.sent = conn[c].sent
    BY <1>2, <1>5 DEF ConnType
  <1> HIDE DEF r
  <1>7. conn' \in [Conns -> ConnType] /\ OnlyConn(c) /\ conn'[c] = r
    BY <1>2, <1>4, <1>6 DEF Types, OnlyConn
  <1>8. Types'
    BY <1>1, <1>2, <1>3, <1>7 DEF Types, queues
  <1> QED
    BY <1>1, <1>2, <1>3, <1>6, <1>7, <1>8 DEF SameOwner, SameBuffers, SameCounts, out

LEMMA ReqTakeDoes ==
    ASSUME Structure, NEW w \in IOs, ReqTake(w)
    PROVE  LET c == io[w].conn
               b == Head(empty_buffers)
           IN  /\ io[w].pc = "req" /\ c \in Conns /\ Types'
               /\ UNCHANGED <<empty_connections, compute_inbox, submitter_inbox,
                              sub, cmp, acc, sock, backlog, life>>
               /\ \/ /\ conn[c].recvbuf # NULL /\ Goes(w, "recv")
                     /\ UNCHANGED <<conn, buf, empty_buffers>>
                  \/ /\ conn[c].recvbuf = NULL /\ Returns(w)
                     /\ Full(c) \/ MayMiss(empty_buffers, OthersReceiving(w))
                     /\ UNCHANGED <<conn, buf, empty_buffers>>
                  \/ /\ conn[c].recvbuf = NULL /\ ~Full(c) /\ empty_buffers # <<>>
                     /\ OnlyConn(c) /\ SameOwner(c) /\ SameCounts(c) /\ SameLock(c) /\ SameOut(c)
                     /\ b \in Buffers /\ conn'[c].recvbuf = b
                     /\ conn'[c].send_queue = conn[c].send_queue
                     /\ conn'[c].sendbuf = conn[c].sendbuf
                     /\ OnlyBuf(b) /\ buf'[b].conn = c /\ buf'[b].left = ReqLen
                     /\ buf'[b].msg = buf[b].msg
                     /\ empty_buffers' = Tail(empty_buffers) /\ Goes(w, "recv")
  <1> DEFINE c == io[w].conn
             b == Head(empty_buffers)
             r == [conn[c] EXCEPT !.recvbuf = b]
  <1>1. /\ io[w].pc = "req" /\ Busy(w)
        /\ UNCHANGED <<empty_connections, compute_inbox, submitter_inbox,
                       sub, cmp, acc, sock, backlog, life>>
    BY DEF ReqTake, Busy
  <1>2. c \in Conns /\ conn[c] \in ConnType /\ Types
    BY <1>1, BusyConn DEF Structure
  <1>3. ASSUME UNCHANGED <<conn, buf, empty_buffers>>, io' \in [IOs -> IOType]
        PROVE  Types'
    BY <1>1, <1>2, <1>3 DEF Types
  <1>4. CASE conn[c].recvbuf # NULL /\ IOGoto(w, "recv") /\ UNCHANGED <<conn, buf, empty_buffers>>
    <2>1. Goes(w, "recv") /\ io' \in [IOs -> IOType]
      BY <1>2, <1>4, Goto DEF IOPc
    <2> QED
      BY <1>1, <1>2, <1>3, <1>4, <2>1
  <1>5. CASE /\ conn[c].recvbuf = NULL
             /\ Full(c) \/ MayMiss(empty_buffers, OthersReceiving(w))
             /\ IOReturn(w) /\ UNCHANGED <<conn, buf, empty_buffers>>
    <2>1. Returns(w) /\ io' \in [IOs -> IOType]
      BY <1>2, <1>5, Return
    <2> QED
      BY <1>1, <1>2, <1>3, <1>5, <2>1
  <1>6. CASE /\ conn[c].recvbuf = NULL /\ ~Full(c) /\ empty_buffers # <<>>
             /\ empty_buffers' = Tail(empty_buffers)
             /\ buf' = [buf EXCEPT ![b].conn = c, ![b].left = ReqLen]
             /\ conn' = [conn EXCEPT ![c].recvbuf = b]
             /\ IOGoto(w, "recv")
    <2>1. Goes(w, "recv") /\ io' \in [IOs -> IOType]
      BY <1>2, <1>6, Goto DEF IOPc
    <2>2. b \in Buffers /\ Tail(empty_buffers) \in Seq(Buffers)
      BY <1>2, <1>6, TailElems DEF Types
    <2>3. /\ OnlyBuf(b) /\ buf'[b].conn = c /\ buf'[b].left = ReqLen
          /\ buf'[b].msg = buf[b].msg /\ buf' \in [Buffers -> BufType]
      BY <1>2, <1>6, <2>2, TakeBuf, Constants
    <2>4. /\ OnlyConn(c) /\ SameOwner(c) /\ SameCounts(c) /\ SameLock(c) /\ SameOut(c)
          /\ conn'[c].recvbuf = b /\ conn'[c].send_queue = conn[c].send_queue
          /\ conn'[c].sendbuf = conn[c].sendbuf /\ conn' \in [Conns -> ConnType]
      <3>1. conn' = [conn EXCEPT ![c] = r]
        BY <1>2, <1>6 DEF Types
      <3>2. /\ r \in ConnType /\ r.recvbuf = b /\ r.lock = conn[c].lock
            /\ r.fd = conn[c].fd /\ r.closed = conn[c].closed /\ r.ioidx = conn[c].ioidx
            /\ r.submitidx = conn[c].submitidx /\ r.computeidx = conn[c].computeidx
            /\ r.sendbuf = conn[c].sendbuf /\ r.send_queue = conn[c].send_queue
            /\ r.epoll_state = conn[c].epoll_state
            /\ r.received = conn[c].received /\ r.processed = conn[c].processed
            /\ r.sent = conn[c].sent
        BY <1>2, <2>2 DEF ConnType
      <3> HIDE DEF r
      <3> QED
        BY <1>2, <3>1, <3>2 DEF Types, OnlyConn, SameOwner, SameCounts, SameLock, SameOut
    <2>5. Types'
      BY <1>1, <1>2, <1>6, <2>1, <2>2, <2>3, <2>4 DEF Types
    <2> QED
      BY <1>1, <1>2, <1>6, <2>1, <2>2, <2>3, <2>4, <2>5
  <1> QED
    BY <1>4, <1>5, <1>6 DEF ReqTake

\* msg is the request's number on its connection, when it is complete.
LEMMA RecvDoes ==
    ASSUME Structure, NEW w \in IOs, Recv(w)
    PROVE  LET c == io[w].conn
               b == conn[c].recvbuf
               k == conn[c].fd
               len == min(IoSize(b), Avail(k))
               done == buf[b].left = len
           IN  /\ io[w].pc = "recv" /\ c \in Conns /\ b \in Buffers /\ k \in Clients /\ Types'
               /\ UNCHANGED <<conn, queues, sub, cmp, acc, backlog, life>>
               /\ \/ RecvEnds(k) /\ Goes(w, "finish") /\ UNCHANGED <<buf, sock>>
                  \/ ~RecvEnds(k) /\ len = 0 /\ Returns(w) /\ UNCHANGED <<buf, sock>>
                  \/ /\ ~RecvEnds(k) /\ len > 0
                     /\ OnlyBuf(b) /\ buf'[b].conn = buf[b].conn
                     /\ buf'[b].left = buf[b].left - len
                     /\ done => buf'[b].msg = <<k, (sock[k].consumed + len) \div ReqLen>>
                     /\ OnlySock(k) /\ SamePeer(k) /\ sock'[k].link = sock[k].link
                     /\ sock'[k].consumed = sock[k].consumed + len
                     /\ sock'[k].stream = sock[k].stream
                     /\ \/ done /\ Goes(w, "req_lock")
                        \/ ~done /\ Goes(w, "req")
  <1> DEFINE c == io[w].conn
             b == conn[c].recvbuf
             k == conn[c].fd
             len == min(IoSize(b), Avail(k))
             done == buf[b].left = len
  <1>1. /\ io[w].pc = "recv" /\ Busy(w)
        /\ UNCHANGED <<conn, queues, sub, cmp, acc, backlog, life>>
    BY Zenon DEF Recv, Busy
  <1>2. c \in Conns /\ conn[c] \in ConnType /\ Types
    BY <1>1, BusyConn DEF Structure
  <1>3. b \in Buffers /\ k \in Clients
    BY <1>1, <1>2 DEF Structure, IOInv, SessionInv, ConnType, Busy
  <1>4. buf[b] \in BufType /\ sock[k] \in SockType
    BY <1>2, <1>3 DEF Types
  <1>5. ASSUME UNCHANGED <<buf, sock>>, io' \in [IOs -> IOType]
        PROVE  Types'
    BY <1>1, <1>2, <1>5 DEF Types, queues
  <1>6. CASE RecvEnds(k) /\ IOGoto(w, "finish") /\ UNCHANGED <<buf, sock>>
    <2>1. Goes(w, "finish") /\ io' \in [IOs -> IOType]
      BY <1>2, <1>6, Goto DEF IOPc
    <2> QED
      BY <1>1, <1>2, <1>3, <1>5, <1>6, <2>1
  <1>7. CASE ~RecvEnds(k) /\ len = 0 /\ IOReturn(w) /\ UNCHANGED <<buf, sock>>
    <2>1. Returns(w) /\ io' \in [IOs -> IOType]
      BY <1>2, <1>7, Return
    <2> QED
      BY <1>1, <1>2, <1>3, <1>5, <1>7, <2>1
  <1>8. CASE /\ ~RecvEnds(k) /\ len > 0
             /\ sock' = [sock EXCEPT ![k].consumed = @ + len]
             /\ buf' = [buf EXCEPT ![b].left = @ - len,
                          ![b].msg = IF done
                                     THEN <<k, (sock[k].consumed + len) \div ReqLen>>
                                     ELSE @]
             /\ IOGoto(w, IF done THEN "req_lock" ELSE "req")
    <2> DEFINE rest == buf[b].left - len
               number == (sock[k].consumed + len) \div ReqLen
               text == IF done THEN <<k, number>> ELSE buf[b].msg
               taken == sock[k].consumed + len
               r == [buf[b] EXCEPT !.left = rest, !.msg = text]
               q == [sock[k] EXCEPT !.consumed = taken]
    <2>0. len > 0 /\ IOGoto(w, IF done THEN "req_lock" ELSE "req")
      BY <1>8, Zenon
    <2>1. len \in Nat /\ len <= buf[b].left
      <3>1. buf[b].left \in Nat /\ sock[k].wrote \in Nat /\ sock[k].consumed \in Nat
        BY <1>4, Constants DEF BufType, SockType
      <3>2. Avail(k) \in Int
        BY <3>1 DEF Avail
      <3>3. IoSize(b) \in Nat /\ IoSize(b) <= buf[b].left
        BY <3>1, IoSizeFits
      <3>4. len \in Int /\ len <= IoSize(b)
        BY <3>2, <3>3 DEF min
      <3> QED
        BY <2>0, <3>1, <3>3, <3>4, SMTT(20)
    <2>2. rest \in 0 .. ReqLen + RespLen
      BY <1>4, <2>1, Constants DEF BufType
    <2>3. taken \in Nat
      BY <1>4, <2>1 DEF SockType
    <2>4. number \in Nat
      BY <2>3, Constants
    <2>5. text \in Msg
      BY <1>3, <1>4, <2>4 DEF BufType, Msg
    <2>6. buf' = [buf EXCEPT ![b] = r] /\ sock' = [sock EXCEPT ![k] = q]
      BY <1>2, <1>8, Zenon DEF Types
    <2>7. done => text = <<k, number>>
      OBVIOUS
    <2> HIDE DEF rest, taken, text
    <2>8. r \in BufType /\ r.left = rest /\ r.conn = buf[b].conn /\ r.msg = text
      BY <1>4, <2>2, <2>5 DEF BufType
    <2>9. /\ q \in SockType /\ q.consumed = taken /\ q.link = sock[k].link
          /\ q.peer = sock[k].peer /\ q.err = sock[k].err /\ q.wrote = sock[k].wrote
          /\ q.got = sock[k].got /\ q.stream = sock[k].stream
      BY <1>4, <2>3 DEF SockType
    <2> HIDE DEF r, q
    <2>10. /\ OnlyBuf(b) /\ buf'[b].conn = buf[b].conn /\ buf'[b].msg = text
           /\ buf'[b].left = rest /\ buf' \in [Buffers -> BufType]
      BY <1>2, <1>3, <2>6, <2>8 DEF Types, OnlyBuf
    <2>11. OnlySock(k) /\ sock'[k] = q /\ sock' \in [Clients -> SockType]
      BY <1>2, <1>3, <2>6, <2>9 DEF Types, OnlySock
    <2>12. /\ io' \in [IOs -> IOType]
           /\ \/ done /\ Goes(w, "req_lock")
              \/ ~done /\ Goes(w, "req")
      <3>1. CASE done
        <4>1. IOGoto(w, "req_lock")
          BY <2>0, <3>1 DEF IOGoto
        <4> QED
          BY <1>2, <3>1, <4>1, Goto DEF IOPc
      <3>2. CASE ~done
        <4>1. IOGoto(w, "req")
          BY <2>0, <3>2 DEF IOGoto
        <4> QED
          BY <1>2, <3>2, <4>1, Goto DEF IOPc
      <3> QED
        BY <3>1, <3>2
    <2>13. Types'
      BY <1>1, <1>2, <2>10, <2>11, <2>12 DEF Types, queues
    <2> QED
      <3>1. ~RecvEnds(k) /\ len > 0
        BY <1>8, Zenon
      <3>2. SamePeer(k)
        BY <2>9, <2>11 DEF SamePeer
      <3> QED
        BY <1>1, <1>2, <1>3, <2>7, <2>9, <2>10, <2>11, <2>12, <2>13, <3>1, <3>2, Zenon DEF rest, taken
  <1>9. \/ RecvEnds(k) /\ IOGoto(w, "finish") /\ UNCHANGED <<buf, sock>>
        \/ ~RecvEnds(k) /\ len = 0 /\ IOReturn(w) /\ UNCHANGED <<buf, sock>>
        \/ /\ ~RecvEnds(k) /\ len > 0
           /\ sock' = [sock EXCEPT ![k].consumed = @ + len]
           /\ buf' = [buf EXCEPT ![b].left = @ - len,
                        ![b].msg = IF done
                                   THEN <<k, (sock[k].consumed + len) \div ReqLen>>
                                   ELSE @]
           /\ IOGoto(w, IF done THEN "req_lock" ELSE "req")
    BY Zenon DEF Recv
  <1> QED
    BY <1>6, <1>7, <1>8, <1>9, Zenon

LEMMA ReqLockDoes ==
    ASSUME Structure, NEW w \in IOs, ReqLock(w)
    PROVE  LET c == io[w].conn
           IN  /\ io[w].pc = "req_lock" /\ c \in Conns /\ conn[c].lock = 0 /\ Types'
               /\ UNCHANGED <<buf, queues, sub, cmp, acc, sock, backlog, life>>
               /\ OnlyConn(c) /\ SameOwner(c) /\ SameBuffers(c) /\ SameCounts(c) /\ SameOut(c)
               /\ conn'[c].lock = 1 /\ Goes(w, "req_put")
  <1> DEFINE c == io[w].conn
  <1>1. /\ io[w].pc = "req_lock" /\ Busy(w) /\ conn[c].lock = 0
        /\ UNCHANGED <<buf, queues, sub, cmp, acc, sock, backlog, life>>
        /\ IOGoto(w, "req_put") /\ conn' = [conn EXCEPT ![c].lock = 1]
    BY DEF ReqLock, Busy
  <1>2. c \in Conns /\ Types
    BY <1>1, BusyConn DEF Structure
  <1>3. Goes(w, "req_put") /\ io' \in [IOs -> IOType]
    BY <1>1, <1>2, Goto DEF IOPc
  <1>4. /\ OnlyConn(c) /\ SameOwner(c) /\ SameBuffers(c) /\ SameCounts(c) /\ SameOut(c)
        /\ conn'[c].lock = 1 /\ conn' \in [Conns -> ConnType]
    <2>1. conn' = [conn EXCEPT ![c].lock = 1] /\ 1 \in {0, 1}
      BY <1>1
    <2> QED
      BY <1>2, <2>1, LockDoes
  <1>5. Types'
    BY <1>1, <1>2, <1>3, <1>4 DEF Types, queues
  <1> QED
    BY <1>1, <1>2, <1>3, <1>4, <1>5

LEMMA ReqPutDoes ==
    ASSUME Structure, NEW w \in IOs, ReqPut(w)
    PROVE  LET c == io[w].conn
               b == conn[c].recvbuf
               x == conn[c].computeidx
           IN  /\ io[w].pc = "req_put" /\ c \in Conns /\ b \in Buffers /\ x \in Computes /\ Types'
               /\ UNCHANGED <<buf, empty_connections, empty_buffers, submitter_inbox,
                              sub, cmp, acc, sock, backlog, life>>
               /\ OnlyConn(c) /\ SameOwner(c) /\ SameLock(c) /\ SameOut(c)
               /\ conn'[c].recvbuf = NULL /\ conn'[c].sendbuf = conn[c].sendbuf
               /\ conn'[c].send_queue = conn[c].send_queue
               /\ conn'[c].received = conn[c].received + 1
               /\ conn'[c].processed = conn[c].processed /\ conn'[c].sent = conn[c].sent
               /\ compute_inbox'[x] = Append(compute_inbox[x], b)
               /\ \A y \in Computes \ {x} : compute_inbox'[y] = compute_inbox[y]
               /\ Goes(w, "req_unlock")
  <1> DEFINE c == io[w].conn
             b == conn[c].recvbuf
             x == conn[c].computeidx
             more == conn[c].received + 1
             r == [conn[c] EXCEPT !.received = more, !.recvbuf = NULL]
  <1>1. /\ io[w].pc = "req_put" /\ Busy(w) /\ IOGoto(w, "req_unlock")
        /\ compute_inbox' = [compute_inbox EXCEPT ![x] = Append(@, b)]
        /\ UNCHANGED <<buf, empty_connections, empty_buffers, submitter_inbox,
                       sub, cmp, acc, sock, backlog, life>>
    BY DEF ReqPut, Busy
  <1>2. c \in Conns /\ conn[c] \in ConnType /\ Types
    BY <1>1, BusyConn DEF Structure
  <1>3. b \in Buffers /\ x \in Computes
    <2>1. IOInv(w) /\ SessionInv(c) /\ ~Released(c)
      BY <1>1, <1>2, BusyConn DEF Structure
    <2>2. b # NULL /\ x \in Computes
      BY <1>1, <2>1 DEF IOInv, SessionInv
    <2> QED
      BY <1>2, <2>2 DEF ConnType
  <1>4. Goes(w, "req_unlock") /\ io' \in [IOs -> IOType]
    BY <1>1, <1>2, Goto DEF IOPc
  <1>5. conn' = [conn EXCEPT ![c] = r]
    BY <1>2 DEF ReqPut, Types
  <1>6. more \in Nat
    <2>1. conn[c].received \in Nat
      BY <1>2 DEF ConnType
    <2> QED
      BY ONLY <2>1
  <1> HIDE DEF more
  <1>7. /\ r \in ConnType /\ r.received = more /\ r.recvbuf = NULL /\ r.lock = conn[c].lock
        /\ r.fd = conn[c].fd /\ r.closed = conn[c].closed /\ r.ioidx = conn[c].ioidx
        /\ r.submitidx = conn[c].submitidx /\ r.computeidx = conn[c].computeidx
        /\ r.sendbuf = conn[c].sendbuf /\ r.send_queue = conn[c].send_queue
        /\ r.epoll_state = conn[c].epoll_state
        /\ r.sent = conn[c].sent /\ r.processed = conn[c].processed
    BY <1>2, <1>6 DEF ConnType
  <1> HIDE DEF r
  <1>8. conn' \in [Conns -> ConnType] /\ OnlyConn(c) /\ conn'[c] = r
    BY <1>2, <1>5, <1>7 DEF Types, OnlyConn
  <1>9. /\ Append(compute_inbox[x], b) \in Seq(Buffers)
        /\ compute_inbox' \in [Computes -> Seq(Buffers)]
        /\ compute_inbox'[x] = Append(compute_inbox[x], b)
        /\ \A y \in Computes \ {x} : compute_inbox'[y] = compute_inbox[y]
    <2>1. compute_inbox[x] \in Seq(Buffers)
      BY <1>2, <1>3 DEF Types
    <2>2. Append(compute_inbox[x], b) \in Seq(Buffers)
      BY <1>3, <2>1, AppendElems
    <2> QED
      BY <1>1, <1>2, <1>3, <2>2 DEF Types
  <1>10. Types'
    BY <1>1, <1>2, <1>4, <1>8, <1>9, Zenon DEF Types
  <1> QED
    BY <1>1, <1>2, <1>3, <1>4, <1>7, <1>8, <1>9, <1>10, Zenon DEF SameOwner, SameLock, SameOut, more

LEMMA ReqUnlockDoes ==
    ASSUME Structure, NEW w \in IOs, ReqUnlock(w)
    PROVE  LET c == io[w].conn
           IN  /\ io[w].pc = "req_unlock" /\ c \in Conns /\ Types'
               /\ UNCHANGED <<buf, queues, sub, cmp, acc, sock, backlog, life>>
               /\ OnlyConn(c) /\ SameOwner(c) /\ SameBuffers(c) /\ SameCounts(c) /\ SameOut(c)
               /\ conn'[c].lock = 0 /\ Goes(w, "req")
  <1> DEFINE c == io[w].conn
  <1>1. /\ io[w].pc = "req_unlock" /\ Busy(w)
        /\ UNCHANGED <<buf, queues, sub, cmp, acc, sock, backlog, life>>
        /\ IOGoto(w, "req") /\ conn' = [conn EXCEPT ![c].lock = 0]
    BY DEF ReqUnlock, Busy
  <1>2. c \in Conns /\ Types
    BY <1>1, BusyConn DEF Structure
  <1>3. Goes(w, "req") /\ io' \in [IOs -> IOType]
    BY <1>1, <1>2, Goto DEF IOPc
  <1>4. /\ OnlyConn(c) /\ SameOwner(c) /\ SameBuffers(c) /\ SameCounts(c) /\ SameOut(c)
        /\ conn'[c].lock = 0 /\ conn' \in [Conns -> ConnType]
    BY <1>1, <1>2, LockDoes
  <1>5. Types'
    BY <1>1, <1>2, <1>3, <1>4 DEF Types, queues
  <1> QED
    BY <1>1, <1>2, <1>3, <1>4, <1>5

LEMMA FinishTryDoes ==
    ASSUME Structure, NEW w \in IOs, FinishTry(w)
    PROVE  LET c == io[w].conn
           IN  /\ io[w].pc = "finish" /\ c \in Conns /\ Types'
               /\ UNCHANGED <<buf, queues, sub, cmp, acc, sock, backlog, life>>
               /\ \/ conn[c].lock # 0 /\ Returns(w) /\ UNCHANGED conn
                  \/ /\ conn[c].lock = 0 /\ OnlyConn(c) /\ SameOwner(c) /\ SameBuffers(c)
                     /\ SameCounts(c) /\ SameOut(c) /\ conn'[c].lock = 1 /\ Goes(w, "fin_drain")
  <1> DEFINE c == io[w].conn
  <1>1. /\ io[w].pc = "finish" /\ Busy(w)
        /\ UNCHANGED <<buf, queues, sub, cmp, acc, sock, backlog, life>>
    BY DEF FinishTry, Busy
  <1>2. c \in Conns /\ Types
    BY <1>1, BusyConn DEF Structure
  <1>3. CASE ~trylock(c) /\ IOReturn(w) /\ UNCHANGED conn
    <2>1. Returns(w) /\ io' \in [IOs -> IOType]
      BY <1>2, <1>3, Return
    <2>2. Types'
      BY <1>1, <1>2, <1>3, <2>1 DEF Types, queues
    <2> QED
      BY <1>1, <1>2, <1>3, <2>1, <2>2 DEF trylock
  <1>4. CASE trylock(c) /\ conn' = [conn EXCEPT ![c].lock = 1] /\ IOGoto(w, "fin_drain")
    <2>1. Goes(w, "fin_drain") /\ io' \in [IOs -> IOType]
      BY <1>2, <1>4, Goto DEF IOPc
    <2>2. /\ OnlyConn(c) /\ SameOwner(c) /\ SameBuffers(c) /\ SameCounts(c) /\ SameOut(c)
          /\ conn'[c].lock = 1 /\ conn' \in [Conns -> ConnType]
      <3>1. conn' = [conn EXCEPT ![c].lock = 1] /\ 1 \in {0, 1}
        BY <1>4
      <3> QED
        BY <1>2, <3>1, LockDoes
    <2>3. Types'
      BY <1>1, <1>2, <2>1, <2>2 DEF Types, queues
    <2> QED
      BY <1>1, <1>2, <1>4, <2>1, <2>2, <2>3 DEF trylock
  <1> QED
    BY <1>3, <1>4 DEF FinishTry

LEMMA FinishDrainDoes ==
    ASSUME Structure, NEW w \in IOs, FinishDrain(w)
    PROVE  LET c == io[w].conn
               k == conn[c].fd
           IN  /\ io[w].pc = "fin_drain" /\ c \in Conns /\ k \in Clients /\ Types'
               /\ UNCHANGED <<buf, empty_connections, compute_inbox, submitter_inbox,
                              sub, cmp, acc, backlog, life>>
               /\ OnlyConn(c) /\ SameLock(c) /\ SameOut(c)
               /\ conn'[c].fd = conn[c].fd /\ conn'[c].ioidx = conn[c].ioidx
               /\ conn'[c].submitidx = conn[c].submitidx
               /\ conn'[c].computeidx = conn[c].computeidx
               /\ conn'[c].closed /\ conn'[c].send_queue = <<>>
               /\ conn'[c].recvbuf = conn[c].recvbuf /\ conn'[c].sendbuf = conn[c].sendbuf
               /\ conn'[c].sent = conn[c].sent + Len(conn[c].send_queue)
               /\ conn'[c].received = conn[c].received /\ conn'[c].processed = conn[c].processed
               /\ empty_buffers' = empty_buffers \o One(conn[c].sendbuf)
                                     \o One(conn[c].recvbuf) \o conn[c].send_queue
               /\ OnlySock(k) /\ SameServed(k) /\ SamePeer(k) /\ sock'[k].link = "shut"
               /\ Goes(w, "fin_end")
  <1> DEFINE c == io[w].conn
             k == conn[c].fd
             yes == TRUE
             none == <<>>
             all == conn[c].sent + Len(conn[c].send_queue)
             r == [conn[c] EXCEPT !.sent = all, !.send_queue = none, !.closed = yes]
             q == [sock[k] EXCEPT !.link = "shut"]
  <1>1. /\ io[w].pc = "fin_drain" /\ Busy(w) /\ IOGoto(w, "fin_end")
        /\ empty_buffers' = empty_buffers \o One(conn[c].sendbuf)
                              \o One(conn[c].recvbuf) \o conn[c].send_queue
        /\ sock' = [sock EXCEPT ![k].link = "shut"]
        /\ UNCHANGED <<buf, empty_connections, compute_inbox, submitter_inbox,
                       sub, cmp, acc, backlog, life>>
    BY Zenon DEF FinishDrain, Busy
  <1>2. c \in Conns /\ conn[c] \in ConnType /\ Types
    BY <1>1, BusyConn, Zenon DEF Structure
  <1>3. k \in Clients
    BY <1>1, <1>2, BusyConn, Zenon DEF Structure, SessionInv
  <1>4. Goes(w, "fin_end") /\ io' \in [IOs -> IOType]
    BY <1>1, <1>2, Goto, Zenon DEF IOPc
  <1>5. conn' = [conn EXCEPT ![c] = r]
    BY <1>2, Zenon DEF FinishDrain, SentDrained, Types
  <1>6. all \in Nat /\ yes \in BOOLEAN /\ yes /\ none \in Seq(Buffers) /\ none = <<>>
    <2>1. all \in Nat
      <3>1. conn[c].sent \in Nat /\ conn[c].send_queue \in Seq(Buffers)
        BY <1>2 DEF ConnType
      <3>2. Len(conn[c].send_queue) \in Nat
        BY <3>1
      <3>3. \A m, n \in Nat : m + n \in Nat
        OBVIOUS
      <3> QED
        BY <3>1, <3>2, <3>3
    <2>2. none \in Seq(Buffers) /\ none = <<>>
      OBVIOUS
    <2>3. yes \in BOOLEAN /\ yes
      OBVIOUS
    <2> QED
      BY <2>1, <2>2, <2>3
  <1> HIDE DEF all, yes, none
  <1>7. /\ r \in ConnType /\ r.sent = all /\ r.closed = yes /\ r.send_queue = none
        /\ r.fd = conn[c].fd /\ r.ioidx = conn[c].ioidx
        /\ r.submitidx = conn[c].submitidx /\ r.computeidx = conn[c].computeidx
        /\ r.recvbuf = conn[c].recvbuf /\ r.sendbuf = conn[c].sendbuf
        /\ r.epoll_state = conn[c].epoll_state /\ r.lock = conn[c].lock
        /\ r.received = conn[c].received /\ r.processed = conn[c].processed
    BY <1>2, <1>6, Zenon DEF ConnType
  <1> HIDE DEF r
  <1>8. conn' \in [Conns -> ConnType] /\ OnlyConn(c) /\ conn'[c] = r
    BY <1>2, <1>5, <1>7 DEF Types, OnlyConn
  <1>9. empty_buffers' \in Seq(Buffers)
    <2>1. One(conn[c].sendbuf) \in Seq(Buffers) /\ One(conn[c].recvbuf) \in Seq(Buffers)
      BY <1>2, SMTT(20) DEF ConnType, One
    <2>2. empty_buffers \in Seq(Buffers) /\ conn[c].send_queue \in Seq(Buffers)
      BY <1>2 DEF Types, ConnType
    <2> QED
      BY <1>1, <2>1, <2>2, ConcatElems, Zenon
  <1>10. /\ OnlySock(k) /\ SameServed(k) /\ SamePeer(k) /\ sock'[k].link = "shut"
         /\ sock' \in [Clients -> SockType]
    <2>1. /\ q \in SockType /\ q.link = "shut" /\ q.peer = sock[k].peer /\ q.err = sock[k].err
          /\ q.wrote = sock[k].wrote /\ q.got = sock[k].got
          /\ q.consumed = sock[k].consumed /\ q.stream = sock[k].stream
      <3>1. sock[k] \in SockType
        BY <1>2, <1>3 DEF Types
      <3> QED
        BY <3>1 DEF SockType
    <2>2. sock' = [sock EXCEPT ![k] = q]
      BY <1>1, <1>2 DEF Types
    <2> HIDE DEF q
    <2> QED
      BY <1>2, <1>3, <2>1, <2>2 DEF Types, OnlySock, SameServed, SamePeer
  <1>11. Types'
    BY <1>1, <1>2, <1>4, <1>8, <1>9, <1>10, Zenon DEF Types
  <1> QED
    BY <1>1, <1>2, <1>3, <1>4, <1>6, <1>7, <1>8, <1>10, <1>11, Zenon DEF SameLock, SameOut, all

LEMMA FinishEndDoes ==
    ASSUME Structure, NEW w \in IOs, FinishEnd(w)
    PROVE  LET c == io[w].conn
           IN  /\ io[w].pc = "fin_end" /\ c \in Conns /\ Types'
               /\ UNCHANGED <<buf, empty_buffers, compute_inbox, submitter_inbox,
                              sub, cmp, acc, sock, backlog, life>>
               /\ Returns(w)
               /\ \/ /\ NoneInFlight(c) /\ UNCHANGED conn
                     /\ empty_connections' = Append(empty_connections, c)
                  \/ /\ ~NoneInFlight(c) /\ OnlyConn(c) /\ SameOwner(c) /\ SameBuffers(c)
                     /\ SameCounts(c) /\ SameOut(c) /\ conn'[c].lock = 0
                     /\ UNCHANGED empty_connections
  <1> DEFINE c == io[w].conn
  <1>1. /\ io[w].pc = "fin_end" /\ Busy(w) /\ IOReturn(w)
        /\ UNCHANGED <<buf, empty_buffers, compute_inbox, submitter_inbox,
                       sub, cmp, acc, sock, backlog, life>>
    BY DEF FinishEnd, Busy
  <1>2. c \in Conns /\ Types
    BY <1>1, BusyConn DEF Structure
  <1>3. Returns(w) /\ io' \in [IOs -> IOType]
    BY <1>1, <1>2, Return
  <1>4. CASE /\ NoneInFlight(c) /\ UNCHANGED conn
             /\ empty_connections' = Append(empty_connections, c)
    <2>1. empty_connections' \in Seq(Conns)
      BY <1>2, <1>4, AppendElems DEF Types
    <2>2. Types'
      BY <1>1, <1>2, <1>3, <1>4, <2>1 DEF Types
    <2> QED
      BY <1>1, <1>2, <1>3, <1>4, <2>2
  <1>5. CASE /\ ~NoneInFlight(c) /\ conn' = [conn EXCEPT ![c].lock = 0]
             /\ UNCHANGED empty_connections
    <2>1. /\ OnlyConn(c) /\ SameOwner(c) /\ SameBuffers(c) /\ SameCounts(c) /\ SameOut(c)
          /\ conn'[c].lock = 0 /\ conn' \in [Conns -> ConnType]
      BY <1>2, <1>5, LockDoes
    <2>2. Types'
      BY <1>1, <1>2, <1>3, <1>5, <2>1 DEF Types
    <2> QED
      BY <1>1, <1>2, <1>3, <1>5, <2>1, <2>2
  <1> QED
    BY <1>4, <1>5 DEF FinishEnd

LEMMA EpollWaitDoes ==
    ASSUME Structure, NEW w \in IOs, EpollWait(w)
    PROVE  /\ io[w].pc = "wait" /\ Types'
           /\ UNCHANGED <<conn, buf, queues, sub, cmp, acc, sock, backlog, life>>
           /\ \A v \in IOs \ {w} : io'[v] = io[v]
           /\ io'[w].pc = "dispatch" /\ io'[w].in = io[w].in /\ io'[w].conn = io[w].conn
           /\ \A e \in io'[w].events :
                /\ e.conn \in Conns /\ e = Event(e.conn)
                /\ conn[e.conn].ioidx = w /\ Registered(e.conn)
  <1> PICK E \in SUBSET ReadyEvents(w) : io' = [io EXCEPT ![w].pc = "dispatch", ![w].events = E]
    BY DEF EpollWait
  <1>1. /\ io[w].pc = "wait" /\ Types
        /\ UNCHANGED <<conn, buf, queues, sub, cmp, acc, sock, backlog, life>>
    BY DEF EpollWait, Structure
  <1>2. ASSUME NEW e \in E
        PROVE  /\ e.conn \in Conns /\ e = Event(e.conn) /\ e \in EventType
               /\ conn[e.conn].ioidx = w /\ Registered(e.conn)
    <2>1. PICK c \in Conns : e = Event(c) /\ conn[c].ioidx = w /\ Registered(c)
      BY DEF ReadyEvents
    <2>2. e.conn = c
      BY <2>1 DEF Event
    <2>3. conn[c].fd \in Clients
      BY <2>1 DEF Structure, SessionInv, Registered
    <2>4. sock[conn[c].fd].err \in BOOLEAN
      BY <1>1, <2>3 DEF Types, SockType
    <2>5. /\ e.err \in BOOLEAN /\ e.out \in BOOLEAN /\ e.in \in BOOLEAN
          /\ e = [conn |-> c, err |-> e.err, out |-> e.out, in |-> e.in]
      BY <2>1, <2>4 DEF Event, Writable, Readable
    <2>6. e \in EventType
      BY <2>5 DEF EventType
    <2> QED
      BY <2>1, <2>2, <2>6
  <1>3. E \in SUBSET EventType
    BY <1>2
  <1> DEFINE r == [io[w] EXCEPT !.pc = "dispatch", !.events = E]
  <1>4. /\ r \in IOType /\ r.pc = "dispatch" /\ r.events = E
        /\ r.in = io[w].in /\ r.conn = io[w].conn
    BY <1>1, <1>3 DEF Types, IOType, IOPc
  <1>5. io' = [io EXCEPT ![w] = r]
    BY <1>1 DEF Types
  <1> HIDE DEF r
  <1>6. io' \in [IOs -> IOType] /\ io'[w] = r /\ \A v \in IOs \ {w} : io'[v] = io[v]
    BY <1>1, <1>4, <1>5 DEF Types
  <1>7. Types'
    BY <1>1, <1>6 DEF Types, queues
  <1> QED
    BY <1>1, <1>2, <1>4, <1>6, <1>7

LEMMA DispatchDoes ==
    ASSUME Structure, NEW w \in IOs, Dispatch(w)
    PROVE  /\ io[w].pc = "dispatch" /\ Types'
           /\ UNCHANGED <<conn, buf, queues, sub, cmp, acc, sock, backlog>>
           /\ \A v \in IOs \ {w} : io'[v] = io[v]
           /\ \/ /\ io'[w].pc = "wait" /\ io'[w].conn = NULL
                 /\ io'[w].events = io[w].events
              \/ \E e \in io[w].events :
                   /\ e \in EventType /\ io'[w].pc = Handlers(e).first
                   /\ io'[w].in = Handlers(e).in /\ io'[w].conn = e.conn
                   /\ io'[w].events = io[w].events \ {e}
  <1>1. /\ io[w].pc = "dispatch" /\ Types
        /\ UNCHANGED <<conn, buf, queues, sub, cmp, acc, sock, backlog>>
    BY DEF Dispatch, Structure
  <1>2. io[w] \in IOType
    BY <1>1 DEF Types
  <1>3. ASSUME io' \in [IOs -> IOType]
        PROVE  Types'
    BY <1>1, <1>3 DEF Types, queues
  <1>4. CASE io[w].events = {} /\ io' = [io EXCEPT ![w].pc = "wait", ![w].conn = NULL]
    <2> DEFINE r == [io[w] EXCEPT !.pc = "wait", !.conn = NULL]
    <2>1. r \in IOType /\ r.pc = "wait" /\ r.conn = NULL /\ r.events = io[w].events
      BY <1>2 DEF IOType, IOPc
    <2>2. io' = [io EXCEPT ![w] = r]
      BY <1>1, <1>4 DEF Types
    <2> HIDE DEF r
    <2>3. io' \in [IOs -> IOType] /\ io'[w] = r /\ \A v \in IOs \ {w} : io'[v] = io[v]
      BY <1>1, <2>1, <2>2 DEF Types
    <2> QED
      BY <1>1, <1>3, <2>1, <2>3
  <1>5. ASSUME NEW e \in io[w].events,
               io' = [io EXCEPT ![w] =
                        [pc |-> Handlers(e).first, conn |-> e.conn,
                         in |-> Handlers(e).in, events |-> io[w].events \ {e}]]
        PROVE  /\ Types' /\ \A v \in IOs \ {w} : io'[v] = io[v]
               /\ e \in EventType /\ io'[w].pc = Handlers(e).first
               /\ io'[w].in = Handlers(e).in /\ io'[w].conn = e.conn
               /\ io'[w].events = io[w].events \ {e}
    <2> DEFINE first == Handlers(e).first
               in == Handlers(e).in
               rest == io[w].events \ {e}
               r == [pc |-> first, conn |-> e.conn, in |-> in, events |-> rest]
    <2>1. e \in EventType /\ rest \in SUBSET EventType
      BY <1>2 DEF IOType
    <2>2. e.conn \in Conns /\ first \in IOPc /\ in \in BOOLEAN
      BY <2>1 DEF EventType, Handlers, IOPc
    <2>3. io' = [io EXCEPT ![w] = r]
      BY <1>5
    <2> HIDE DEF first, in, rest
    <2>4. r \in IOType /\ r.pc = first /\ r.conn = e.conn /\ r.in = in /\ r.events = rest
      BY <2>1, <2>2 DEF IOType
    <2> HIDE DEF r
    <2>5. io' \in [IOs -> IOType] /\ io'[w] = r /\ \A v \in IOs \ {w} : io'[v] = io[v]
      BY <1>1, <2>3, <2>4 DEF Types
    <2> QED
      BY <1>3, <2>1, <2>4, <2>5 DEF first, in, rest
  <1>6. \/ io[w].events = {} /\ io' = [io EXCEPT ![w].pc = "wait", ![w].conn = NULL]
        \/ \E e \in io[w].events :
             io' = [io EXCEPT ![w] =
                      [pc |-> Handlers(e).first, conn |-> e.conn,
                       in |-> Handlers(e).in, events |-> io[w].events \ {e}]]
    BY Zenon DEF Dispatch
  <1> QED
    BY <1>1, <1>4, <1>5, <1>6

----------------------------------------------------------------------------
\* Accept threads

OnlyAcc(a) == \A a2 \in Acceptors \ {a} : acc'[a2] = acc[a2]

\* An accept thread's record as a whole.
LEMMA AccDoes ==
    ASSUME Types, NEW a \in Acceptors, NEW r \in AccType, acc' = [acc EXCEPT ![a] = r]
    PROVE  OnlyAcc(a) /\ acc'[a] = r /\ acc' \in [Acceptors -> AccType]
  BY DEF Types, OnlyAcc

\* An accept thread without a session goes on to queue_get, or back without one.
Waits(a) ==
    /\ acc'[a].conn = acc[a].conn /\ acc'[a].fd = acc[a].fd
    /\ \/ acc'[a] = acc[a]
       \/ acc[a].pc \in {"wait", "get"} /\ acc'[a].pc \in {"wait", "get"}

LEMMA AcceptWaitDoes ==
    ASSUME Structure, NEW a \in Acceptors, AcceptWait(a) \/ AcceptMiss(a)
    PROVE  /\ Types' /\ UNCHANGED <<conn, buf, queues, io, sub, cmp, sock, backlog>>
           /\ OnlyAcc(a) /\ acc'[a].conn = acc[a].conn /\ acc'[a].pc \in {"wait", "get"}
           /\ \A b \in Acceptors : Waits(b)
  <1> DEFINE r(pc) == [acc[a] EXCEPT !.pc = pc]
  <1>1. /\ acc[a].pc \in {"wait", "get"} /\ Types
        /\ UNCHANGED <<conn, buf, queues, io, sub, cmp, sock, backlog>>
        /\ acc' = [acc EXCEPT ![a].pc = "get"] \/ acc' = [acc EXCEPT ![a].pc = "wait"]
    BY DEF AcceptWait, AcceptMiss, Structure
  <1> PICK pc \in {"wait", "get"} : acc' = [acc EXCEPT ![a].pc = pc]
    BY <1>1
  <1>2. acc' = [acc EXCEPT ![a] = r(pc)]
    BY <1>1 DEF Types
  <1>3. /\ r(pc) \in AccType /\ r(pc).pc = pc /\ r(pc).conn = acc[a].conn
        /\ r(pc).fd = acc[a].fd
    BY <1>1 DEF Types, AccType
  <1> HIDE DEF r
  <1>4. OnlyAcc(a) /\ acc'[a] = r(pc) /\ acc' \in [Acceptors -> AccType]
    BY <1>1, <1>2, <1>3, AccDoes
  <1>5. Types'
    BY <1>1, <1>4 DEF Types, queues
  <1> QED
    BY <1>1, <1>3, <1>4, <1>5 DEF Waits, OnlyAcc

LEMMA AcceptGetDoes ==
    ASSUME Structure, NEW a \in Acceptors, AcceptGet(a)
    PROVE  LET c == Head(empty_connections)
           IN  /\ acc[a].pc = "get" /\ empty_connections # <<>> /\ c \in Conns /\ Types'
               /\ UNCHANGED <<conn, buf, empty_buffers, compute_inbox, submitter_inbox,
                              io, sub, cmp, sock, backlog, life>>
               /\ empty_connections' = Tail(empty_connections)
               /\ OnlyAcc(a) /\ acc'[a].pc = "accept" /\ acc'[a].conn = c
               /\ acc'[a].fd = acc[a].fd
  <1> DEFINE c == Head(empty_connections)
  <1>1. /\ acc[a].pc = "get" /\ empty_connections # <<>> /\ Types
        /\ UNCHANGED <<conn, buf, empty_buffers, compute_inbox, submitter_inbox,
                       io, sub, cmp, sock, backlog, life>>
        /\ empty_connections' = Tail(empty_connections)
        /\ acc' = [acc EXCEPT ![a].pc = "accept", ![a].conn = c]
    BY DEF AcceptGet, Structure
  <1>2. c \in Conns /\ empty_connections' \in Seq(Conns)
    BY <1>1, TailElems DEF Types
  <1> DEFINE r == [acc[a] EXCEPT !.pc = "accept", !.conn = c]
  <1>3. acc' = [acc EXCEPT ![a] = r]
    BY <1>1 DEF Types
  <1>4. r \in AccType /\ r.pc = "accept" /\ r.conn = c /\ r.fd = acc[a].fd
    BY <1>1, <1>2 DEF Types, AccType
  <1> HIDE DEF c, r
  <1>5. /\ OnlyAcc(a) /\ acc'[a].pc = "accept" /\ acc'[a].conn = c
        /\ acc'[a].fd = acc[a].fd /\ acc' \in [Acceptors -> AccType]
    BY <1>1, <1>2, <1>3, <1>4, AccDoes
  <1>6. Types'
    BY <1>1, <1>2, <1>5 DEF Types
  <1> QED
    BY <1>1, <1>2, <1>5, <1>6 DEF c

LEMMA AcceptFdDoes ==
    ASSUME Structure, NEW a \in Acceptors, AcceptFd(a)
    PROVE  LET k == Head(backlog)
           IN  /\ acc[a].pc = "accept" /\ backlog # <<>> /\ k \in Clients /\ Types'
               /\ UNCHANGED <<conn, buf, queues, io, sub, cmp, life>>
               /\ backlog' = Tail(backlog)
               /\ OnlyAcc(a) /\ acc'[a].pc = "init" /\ acc'[a].conn = acc[a].conn
               /\ acc'[a].fd = k
               /\ OnlySock(k) /\ SameServed(k) /\ SamePeer(k) /\ sock'[k].link = "open"
  <1> DEFINE k == Head(backlog)
             q == [sock[k] EXCEPT !.link = "open"]
  <1>1. /\ acc[a].pc = "accept" /\ backlog # <<>> /\ Types
        /\ UNCHANGED <<conn, buf, queues, io, sub, cmp, life>>
        /\ backlog' = Tail(backlog) /\ sock' = [sock EXCEPT ![k].link = "open"]
        /\ acc' = [acc EXCEPT ![a].pc = "init", ![a].fd = k]
    BY DEF AcceptFd, Structure
  <1>2. k \in Clients /\ backlog' \in Seq(Clients)
    BY <1>1, TailElems DEF Types
  <1> DEFINE r == [acc[a] EXCEPT !.pc = "init", !.fd = k]
  <1>3. acc' = [acc EXCEPT ![a] = r]
    BY <1>1 DEF Types
  <1>4. r \in AccType /\ r.pc = "init" /\ r.conn = acc[a].conn /\ r.fd = k
    BY <1>1, <1>2 DEF Types, AccType
  <1>5. /\ sock' = [sock EXCEPT ![k] = q]
        /\ q \in SockType /\ q.link = "open" /\ q.peer = sock[k].peer /\ q.err = sock[k].err
        /\ q.wrote = sock[k].wrote /\ q.got = sock[k].got
        /\ q.consumed = sock[k].consumed /\ q.stream = sock[k].stream
    <2>1. /\ q \in SockType /\ q.link = "open" /\ q.peer = sock[k].peer /\ q.err = sock[k].err
          /\ q.wrote = sock[k].wrote /\ q.got = sock[k].got
          /\ q.consumed = sock[k].consumed /\ q.stream = sock[k].stream
      BY <1>1, <1>2 DEF Types, SockType
    <2>2. sock' = [sock EXCEPT ![k] = q]
      BY <1>1, <1>2 DEF Types
    <2> QED
      BY <2>1, <2>2
  <1> HIDE DEF k, q, r
  <1>6. /\ OnlySock(k) /\ SameServed(k) /\ SamePeer(k) /\ sock'[k].link = "open"
        /\ sock' \in [Clients -> SockType]
    BY <1>1, <1>2, <1>5 DEF Types, OnlySock, SameServed, SamePeer
  <1>7. /\ OnlyAcc(a) /\ acc'[a].pc = "init" /\ acc'[a].conn = acc[a].conn
        /\ acc'[a].fd = k /\ acc' \in [Acceptors -> AccType]
    BY <1>1, <1>2, <1>3, <1>4, AccDoes
  <1>8. Types'
    BY <1>1, <1>2, <1>6, <1>7 DEF Types, queues
  <1> QED
    BY <1>1, <1>2, <1>6, <1>7, <1>8 DEF k

LEMMA AcceptFailDoes ==
    ASSUME Structure, NEW a \in Acceptors, AcceptFail(a)
    PROVE  /\ acc[a].pc = "accept" /\ Types'
           /\ UNCHANGED <<conn, buf, queues, io, sub, cmp, sock, backlog>>
           /\ OnlyAcc(a) /\ acc'[a].pc = "failed" /\ acc'[a].conn = acc[a].conn
           /\ acc'[a].fd = acc[a].fd
  <1>1. /\ acc[a].pc = "accept" /\ Types
        /\ UNCHANGED <<conn, buf, queues, io, sub, cmp, sock, backlog>>
        /\ acc' = [acc EXCEPT ![a].pc = "failed"]
    BY DEF AcceptFail, Structure
  <1> DEFINE r == [acc[a] EXCEPT !.pc = "failed"]
  <1>2. acc' = [acc EXCEPT ![a] = r]
    BY <1>1 DEF Types
  <1>3. r \in AccType /\ r.pc = "failed" /\ r.conn = acc[a].conn /\ r.fd = acc[a].fd
    BY <1>1 DEF Types, AccType
  <1> HIDE DEF r
  <1>4. /\ OnlyAcc(a) /\ acc'[a].pc = "failed" /\ acc'[a].conn = acc[a].conn
        /\ acc'[a].fd = acc[a].fd /\ acc' \in [Acceptors -> AccType]
    BY <1>1, <1>2, <1>3, AccDoes
  <1>5. Types'
    BY <1>1, <1>4 DEF Types, queues
  <1> QED
    BY <1>1, <1>4, <1>5

\* The session handle_accept sets up is a new one, open and unlocked.
Fresh(c, k) ==
    /\ conn'[c].fd = k /\ ~conn'[c].closed /\ conn'[c].lock = 0
    /\ conn'[c].epoll_state = {"IN"}
    /\ conn'[c].ioidx \in IOs /\ conn'[c].submitidx \in Submitters
    /\ conn'[c].computeidx \in Computes
    /\ conn'[c].recvbuf = NULL /\ conn'[c].sendbuf = conn[c].sendbuf
    /\ conn'[c].send_queue = <<>>
    /\ conn'[c].received = 0 /\ conn'[c].processed = 0 /\ conn'[c].sent = 0

LEMMA FreshSession ==
    ASSUME Types, NEW a \in Acceptors, acc[a].conn \in Conns, acc[a].fd \in Clients,
           \E w \in IOs, s \in Submitters, x \in Computes :
             conn' = [conn EXCEPT ![acc[a].conn] = Accepted(a, w, s, x)]
    PROVE  /\ OnlyConn(acc[a].conn) /\ Fresh(acc[a].conn, acc[a].fd)
           /\ conn' \in [Conns -> ConnType]
  <1> DEFINE c == acc[a].conn
             k == acc[a].fd
             no == FALSE
             none == <<>>
             in == {"IN"}
  <1> PICK w \in IOs, s \in Submitters, x \in Computes :
        conn' = [conn EXCEPT ![c] = Accepted(a, w, s, x)]
    OBVIOUS
  <1>2. no \in BOOLEAN /\ ~no
    OBVIOUS
  <1>3. none \in Seq(Buffers) /\ none = <<>>
    OBVIOUS
  <1>4. in \in SUBSET {"IN", "OUT"} /\ in = {"IN"}
    OBVIOUS
  <1> HIDE DEF no, none, in
  <1> DEFINE m == [conn[c] EXCEPT !.sent = 0, !.received = 0, !.processed = 0, !.fd = k]
             n == [m EXCEPT !.ioidx = w, !.submitidx = s, !.computeidx = x, !.send_queue = none]
             r == [n EXCEPT !.recvbuf = NULL, !.closed = no, !.lock = 0, !.epoll_state = in]
  <1>5. conn[c] \in ConnType
    BY DEF Types
  <1>6. Accepted(a, w, s, x) = r
    BY DEF Accepted, epoll_set_conn_state, no, none, in
  <1>7. /\ m \in ConnType /\ m.sent = 0 /\ m.received = 0 /\ m.processed = 0 /\ m.fd = k
        /\ m.sendbuf = conn[c].sendbuf
    BY <1>5 DEF ConnType
  <1> HIDE DEF m
  <1>8. /\ n \in ConnType /\ n.sent = 0 /\ n.received = 0 /\ n.processed = 0 /\ n.fd = k
        /\ n.sendbuf = conn[c].sendbuf
        /\ n.ioidx = w /\ n.submitidx = s /\ n.computeidx = x /\ n.send_queue = none
    BY <1>3, <1>7 DEF ConnType
  <1> HIDE DEF n
  <1>9. /\ r \in ConnType /\ r.sent = 0 /\ r.received = 0 /\ r.processed = 0 /\ r.fd = k
        /\ r.ioidx = w /\ r.submitidx = s /\ r.computeidx = x /\ r.send_queue = none
        /\ r.recvbuf = NULL /\ r.closed = no /\ r.lock = 0 /\ r.sendbuf = conn[c].sendbuf
        /\ r.epoll_state = in
    BY <1>2, <1>4, <1>8 DEF ConnType
  <1> HIDE DEF r
  <1> QED
    BY <1>2, <1>3, <1>4, <1>6, <1>9 DEF Types, OnlyConn, Fresh

LEMMA AcceptInitDoes ==
    ASSUME Structure, NEW a \in Acceptors, AcceptInit(a)
    PROVE  LET c == acc[a].conn
               k == acc[a].fd
           IN  /\ acc[a].pc = "init" /\ c \in Conns /\ k \in Clients /\ Types'
               /\ UNCHANGED <<buf, queues, io, sub, cmp, sock, backlog>>
               /\ OnlyConn(c) /\ Fresh(c, k)
               /\ OnlyAcc(a) /\ acc'[a].pc = "wait" /\ acc'[a].conn = NULL /\ acc'[a].fd = NULL
  <1> DEFINE c == acc[a].conn
             k == acc[a].fd
             r == [acc[a] EXCEPT !.pc = "wait", !.conn = NULL, !.fd = NULL]
  <1>1. /\ acc[a].pc = "init" /\ Types
        /\ UNCHANGED <<buf, queues, io, sub, cmp, sock, backlog>>
        /\ \E w \in IOs, s \in Submitters, x \in Computes :
             conn' = [conn EXCEPT ![acc[a].conn] = Accepted(a, w, s, x)]
    BY DEF AcceptInit, Structure
  <1>2. c \in Conns /\ k \in Clients
    BY <1>1 DEF Structure, AcceptInv, Types, AccType
  <1>3. OnlyConn(c) /\ Fresh(c, k) /\ conn' \in [Conns -> ConnType]
    BY <1>1, <1>2, FreshSession
  <1>4. acc' = [acc EXCEPT ![a] = r]
    BY <1>1 DEF AcceptInit, Types
  <1>5. r \in AccType /\ r.pc = "wait" /\ r.conn = NULL /\ r.fd = NULL
    BY <1>1 DEF Types, AccType
  <1> HIDE DEF r
  <1>6. /\ OnlyAcc(a) /\ acc'[a].pc = "wait" /\ acc'[a].conn = NULL /\ acc'[a].fd = NULL
        /\ acc' \in [Acceptors -> AccType]
    BY <1>1, <1>4, <1>5, AccDoes
  <1>7. Types'
    BY <1>1, <1>3, <1>6 DEF Types, queues
  <1> QED
    BY <1>1, <1>2, <1>3, <1>6, <1>7

LEMMA AcceptCtlFailDoes ==
    ASSUME Structure, NEW a \in Acceptors, AcceptCtlFail(a)
    PROVE  LET c == acc[a].conn
               k == acc[a].fd
           IN  /\ acc[a].pc = "init" /\ c \in Conns /\ k \in Clients /\ Types'
               /\ UNCHANGED <<buf, queues, io, sub, cmp, sock, backlog>>
               /\ OnlyConn(c) /\ Fresh(c, k)
               /\ OnlyAcc(a) /\ acc'[a].pc = "failed" /\ acc'[a].conn = c /\ acc'[a].fd = k
  <1> DEFINE c == acc[a].conn
             k == acc[a].fd
             r == [acc[a] EXCEPT !.pc = "failed"]
  <1>1. /\ acc[a].pc = "init" /\ Types
        /\ UNCHANGED <<buf, queues, io, sub, cmp, sock, backlog>>
        /\ \E w \in IOs, s \in Submitters, x \in Computes :
             conn' = [conn EXCEPT ![acc[a].conn] = Accepted(a, w, s, x)]
    BY DEF AcceptCtlFail, Structure
  <1>2. c \in Conns /\ k \in Clients
    BY <1>1 DEF Structure, AcceptInv, Types, AccType
  <1>3. OnlyConn(c) /\ Fresh(c, k) /\ conn' \in [Conns -> ConnType]
    BY <1>1, <1>2, FreshSession
  <1>4. acc' = [acc EXCEPT ![a] = r]
    BY <1>1 DEF AcceptCtlFail, Types
  <1>5. r \in AccType /\ r.pc = "failed" /\ r.conn = c /\ r.fd = k
    BY <1>1 DEF Types, AccType
  <1> HIDE DEF r
  <1>6. /\ OnlyAcc(a) /\ acc'[a].pc = "failed" /\ acc'[a].conn = c /\ acc'[a].fd = k
        /\ acc' \in [Acceptors -> AccType]
    BY <1>1, <1>4, <1>5, AccDoes
  <1>7. Types'
    BY <1>1, <1>3, <1>6 DEF Types, queues
  <1> QED
    BY <1>1, <1>2, <1>3, <1>6, <1>7

----------------------------------------------------------------------------
\* Compute threads

LEMMA ComputeGetDoes ==
    ASSUME Structure, NEW x \in Computes, ComputeGet(x)
    PROVE  LET b == Head(compute_inbox[x])
           IN  /\ cmp[x] = NULL /\ compute_inbox[x] # <<>> /\ b \in Buffers /\ Types'
               /\ UNCHANGED <<conn, buf, empty_connections, empty_buffers, submitter_inbox,
                              io, sub, acc, sock, backlog, life>>
               /\ cmp'[x] = b /\ \A y \in Computes \ {x} : cmp'[y] = cmp[y]
               /\ compute_inbox'[x] = Tail(compute_inbox[x])
               /\ \A y \in Computes \ {x} : compute_inbox'[y] = compute_inbox[y]
  <1> DEFINE b == Head(compute_inbox[x])
             rest == Tail(compute_inbox[x])
  <1>1. /\ cmp[x] = NULL /\ compute_inbox[x] # <<>> /\ Types
        /\ UNCHANGED <<conn, buf, empty_connections, empty_buffers, submitter_inbox,
                       io, sub, acc, sock, backlog, life>>
        /\ cmp' = [cmp EXCEPT ![x] = b]
        /\ compute_inbox' = [compute_inbox EXCEPT ![x] = rest]
    BY DEF ComputeGet, Structure
  <1>2. b \in Buffers /\ rest \in Seq(Buffers)
    <2>1. compute_inbox[x] \in Seq(Buffers)
      BY <1>1 DEF Types
    <2> QED
      BY <1>1, <2>1, TailElems
  <1> HIDE DEF b, rest
  <1>3. /\ cmp'[x] = b /\ \A y \in Computes \ {x} : cmp'[y] = cmp[y]
        /\ cmp' \in [Computes -> Buffers \cup {NULL}]
    BY <1>1, <1>2 DEF Types
  <1>4. /\ compute_inbox'[x] = rest
        /\ \A y \in Computes \ {x} : compute_inbox'[y] = compute_inbox[y]
        /\ compute_inbox' \in [Computes -> Seq(Buffers)]
    BY <1>1, <1>2 DEF Types
  <1>5. Types'
    BY <1>1, <1>3, <1>4 DEF Types
  <1> QED
    BY <1>1, <1>2, <1>3, <1>4, <1>5 DEF b, rest

LEMMA ComputePutDoes ==
    ASSUME Structure, NEW x \in Computes, ComputePut(x), BufferInv(cmp[x])
    PROVE  LET b == cmp[x]
               s == conn[buf[b].conn].submitidx
           IN  /\ b \in Buffers /\ buf[b].conn \in Conns /\ s \in Submitters /\ Types'
               /\ UNCHANGED <<conn, buf, empty_connections, empty_buffers, compute_inbox,
                              io, sub, acc, sock, backlog>>
               /\ cmp'[x] = NULL /\ \A y \in Computes \ {x} : cmp'[y] = cmp[y]
               /\ submitter_inbox'[s] = Append(submitter_inbox[s], b)
               /\ \A t \in Submitters \ {s} : submitter_inbox'[t] = submitter_inbox[t]
  <1> DEFINE b == cmp[x]
             s == conn[buf[b].conn].submitidx
             more == Append(submitter_inbox[s], b)
  <1>1. /\ b # NULL /\ Types
        /\ UNCHANGED <<conn, buf, empty_connections, empty_buffers, compute_inbox,
                       io, sub, acc, sock, backlog>>
        /\ cmp' = [cmp EXCEPT ![x] = NULL]
        /\ submitter_inbox' = [submitter_inbox EXCEPT ![s] = more]
    BY DEF ComputePut, Structure
  <1>2. b \in Buffers
    BY <1>1 DEF Types
  <1>3. buf[b].conn \in Conns /\ ~Released(buf[b].conn)
    BY <1>2 DEF BufferInv, Pipelined
  <1>4. s \in Submitters
    BY <1>3 DEF Structure, SessionInv
  <1>5. more \in Seq(Buffers)
    <2>1. submitter_inbox[s] \in Seq(Buffers)
      BY <1>1, <1>4 DEF Types
    <2> QED
      BY <1>2, <2>1, AppendElems
  <1> HIDE DEF more, s
  <1>6. /\ cmp'[x] = NULL /\ \A y \in Computes \ {x} : cmp'[y] = cmp[y]
        /\ cmp' \in [Computes -> Buffers \cup {NULL}]
    BY <1>1 DEF Types
  <1>7. /\ submitter_inbox'[s] = more
        /\ \A t \in Submitters \ {s} : submitter_inbox'[t] = submitter_inbox[t]
        /\ submitter_inbox' \in [Submitters -> Seq(Buffers)]
    BY <1>1, <1>4, <1>5 DEF Types
  <1>8. Types'
    BY <1>1, <1>6, <1>7 DEF Types
  <1>9. submitter_inbox'[s] = Append(submitter_inbox[s], b)
    BY <1>7 DEF more
  <1> QED
    BY Zenon, <1>1, <1>2, <1>3, <1>4, <1>6, <1>7, <1>8, <1>9 DEF s

----------------------------------------------------------------------------
\* Submit threads

OnlySub(s) == \A t \in Submitters \ {s} : sub'[t] = sub[t]

\* A submit thread's record as a whole.
LEMMA SubDoes ==
    ASSUME Types, NEW s \in Submitters, NEW r \in SubType, sub' = [sub EXCEPT ![s] = r]
    PROVE  OnlySub(s) /\ sub'[s] = r /\ sub' \in [Submitters -> SubType]
  BY DEF Types, OnlySub

LEMMA PollingDoes ==
    ASSUME Types, NEW s \in Submitters, sub' = [sub EXCEPT ![s] = Polling]
    PROVE  /\ OnlySub(s) /\ sub'[s].pc = "get" /\ sub'[s].buff = NULL /\ sub'[s].conn = NULL
           /\ sub' \in [Submitters -> SubType]
  <1>1. /\ Polling \in SubType /\ Polling.pc = "get" /\ Polling.buff = NULL
        /\ Polling.conn = NULL
    BY DEF Polling, SubType
  <1> QED
    BY <1>1, SubDoes

\* Only the label changes.
LEMMA SubGoto ==
    ASSUME Types, NEW s \in Submitters,
           NEW label \in {"get", "try", "put", "arm", "unlock", "dispose", "last"},
           sub' = [sub EXCEPT ![s].pc = label]
    PROVE  /\ OnlySub(s) /\ sub'[s].pc = label /\ sub'[s].buff = sub[s].buff
           /\ sub'[s].conn = sub[s].conn /\ sub' \in [Submitters -> SubType]
  BY DEF Types, SubType, OnlySub

LEMMA SubmitGetDoes ==
    ASSUME Structure, NEW s \in Submitters, SubmitGet(s)
    PROVE  LET b == Head(submitter_inbox[s])
           IN  /\ sub[s].pc = "get" /\ submitter_inbox[s] # <<>> /\ b \in Buffers /\ Types'
               /\ UNCHANGED <<conn, buf, empty_connections, empty_buffers, compute_inbox,
                              io, cmp, acc, sock, backlog, life>>
               /\ OnlySub(s) /\ sub'[s].pc = "try" /\ sub'[s].buff = b
               /\ sub'[s].conn = buf[b].conn
               /\ submitter_inbox'[s] = Tail(submitter_inbox[s])
               /\ \A t \in Submitters \ {s} : submitter_inbox'[t] = submitter_inbox[t]
  <1> DEFINE b == Head(submitter_inbox[s])
             rest == Tail(submitter_inbox[s])
             r == [pc |-> "try", buff |-> b, conn |-> buf[b].conn]
  <1>1. /\ sub[s].pc = "get" /\ submitter_inbox[s] # <<>> /\ Types
        /\ UNCHANGED <<conn, buf, empty_connections, empty_buffers, compute_inbox,
                       io, cmp, acc, sock, backlog, life>>
        /\ sub' = [sub EXCEPT ![s] = r]
        /\ submitter_inbox' = [submitter_inbox EXCEPT ![s] = rest]
    BY DEF SubmitGet, Structure
  <1>2. b \in Buffers /\ rest \in Seq(Buffers)
    <2>1. submitter_inbox[s] \in Seq(Buffers)
      BY <1>1 DEF Types
    <2> QED
      BY <1>1, <2>1, TailElems
  <1>3. buf[b].conn \in Conns \cup {NULL}
    BY <1>1, <1>2 DEF Types, BufType
  <1> HIDE DEF b, rest
  <1>4. r \in SubType /\ r.pc = "try" /\ r.buff = b /\ r.conn = buf[b].conn
    BY <1>2, <1>3 DEF SubType
  <1> HIDE DEF r
  <1>5. /\ OnlySub(s) /\ sub'[s].pc = "try" /\ sub'[s].buff = b
        /\ sub'[s].conn = buf[b].conn /\ sub' \in [Submitters -> SubType]
    BY <1>1, <1>4, SubDoes
  <1>6. /\ submitter_inbox'[s] = rest
        /\ \A t \in Submitters \ {s} : submitter_inbox'[t] = submitter_inbox[t]
        /\ submitter_inbox' \in [Submitters -> Seq(Buffers)]
    BY <1>1, <1>2 DEF Types
  <1>7. Types'
    BY <1>1, <1>5, <1>6 DEF Types
  <1> QED
    BY <1>1, <1>2, <1>5, <1>6, <1>7 DEF b, rest

LEMMA SubmitTryDoes ==
    ASSUME Structure, NEW s \in Submitters, SubmitTry(s)
    PROVE  LET c == sub[s].conn
               b == sub[s].buff
           IN  /\ sub[s].pc = "try" /\ c \in Conns /\ b \in Buffers /\ Types'
               /\ UNCHANGED <<buf, empty_connections, empty_buffers, compute_inbox,
                              io, cmp, acc, sock, backlog>>
               /\ OnlySub(s)
               /\ \/ /\ conn[c].lock # 0 /\ UNCHANGED conn
                     /\ submitter_inbox'[s] = Append(submitter_inbox[s], b)
                     /\ \A t \in Submitters \ {s} : submitter_inbox'[t] = submitter_inbox[t]
                     /\ sub'[s].pc = "get" /\ sub'[s].buff = NULL /\ sub'[s].conn = NULL
                  \/ /\ conn[c].lock = 0 /\ OnlyConn(c) /\ SameOwner(c) /\ SameBuffers(c)
                     /\ SameCounts(c) /\ SameOut(c) /\ conn'[c].lock = 1
                     /\ UNCHANGED submitter_inbox
                     /\ sub'[s].pc = "put" /\ sub'[s].buff = b /\ sub'[s].conn = c
  <1> DEFINE c == sub[s].conn
             b == sub[s].buff
             more == Append(submitter_inbox[s], b)
  <1>1. /\ sub[s].pc = "try" /\ Types
        /\ UNCHANGED <<buf, empty_connections, empty_buffers, compute_inbox,
                       io, cmp, acc, sock, backlog>>
    BY DEF SubmitTry, Structure
  <1>2. c \in Conns /\ b \in Buffers
    BY <1>1 DEF Structure, SubmitInv, Types, SubType
  <1>3. CASE /\ ~trylock(c) /\ submitter_inbox' = [submitter_inbox EXCEPT ![s] = more]
             /\ sub' = [sub EXCEPT ![s] = Polling] /\ UNCHANGED conn
    <2>1. more \in Seq(Buffers)
      <3>1. submitter_inbox[s] \in Seq(Buffers)
        BY <1>1 DEF Types
      <3> QED
        BY <1>2, <3>1, AppendElems
    <2> HIDE DEF more
    <2>2. /\ submitter_inbox'[s] = more
          /\ \A t \in Submitters \ {s} : submitter_inbox'[t] = submitter_inbox[t]
          /\ submitter_inbox' \in [Submitters -> Seq(Buffers)]
      BY <1>1, <1>3, <2>1 DEF Types
    <2>3. /\ OnlySub(s) /\ sub'[s].pc = "get" /\ sub'[s].buff = NULL /\ sub'[s].conn = NULL
          /\ sub' \in [Submitters -> SubType]
      BY <1>1, <1>3, PollingDoes
    <2>4. Types'
      BY <1>1, <1>3, <2>2, <2>3 DEF Types
    <2> QED
      BY <1>1, <1>2, <1>3, <2>2, <2>3, <2>4 DEF more, trylock
  <1>4. CASE /\ trylock(c) /\ conn' = [conn EXCEPT ![c].lock = 1]
             /\ sub' = [sub EXCEPT ![s].pc = "put"] /\ UNCHANGED submitter_inbox
    <2>1. /\ OnlyConn(c) /\ SameOwner(c) /\ SameBuffers(c) /\ SameCounts(c) /\ SameOut(c)
          /\ conn'[c].lock = 1 /\ conn' \in [Conns -> ConnType]
      BY <1>1, <1>2, <1>4, LockDoes
    <2>2. /\ OnlySub(s) /\ sub'[s].pc = "put" /\ sub'[s].buff = b /\ sub'[s].conn = c
          /\ sub' \in [Submitters -> SubType]
      BY <1>1, <1>4, SubGoto
    <2>3. Types'
      BY <1>1, <1>4, <2>1, <2>2 DEF Types
    <2> QED
      BY <1>1, <1>2, <1>4, <2>1, <2>2, <2>3 DEF trylock
  <1> QED
    BY <1>3, <1>4 DEF SubmitTry

LEMMA SubmitPutDoes ==
    ASSUME Structure, NEW s \in Submitters, SubmitPut(s)
    PROVE  LET c == sub[s].conn
               b == sub[s].buff
           IN  /\ sub[s].pc = "put" /\ c \in Conns /\ b \in Buffers /\ Types'
               /\ UNCHANGED <<buf, empty_connections, compute_inbox, submitter_inbox,
                              io, cmp, acc, sock, backlog, life>>
               /\ OnlyConn(c) /\ SameOwner(c) /\ SameLock(c) /\ SameOut(c)
               /\ conn'[c].recvbuf = conn[c].recvbuf /\ conn'[c].sendbuf = conn[c].sendbuf
               /\ conn'[c].processed = conn[c].processed + 1
               /\ conn'[c].received = conn[c].received /\ conn'[c].sent = conn[c].sent
               /\ OnlySub(s) /\ sub'[s].buff = b /\ sub'[s].conn = c
               /\ \/ /\ conn[c].closed /\ conn'[c].send_queue = conn[c].send_queue
                     /\ empty_buffers' = Append(empty_buffers, b) /\ sub'[s].pc = "dispose"
                  \/ /\ ~conn[c].closed /\ conn'[c].send_queue = Append(conn[c].send_queue, b)
                     /\ UNCHANGED empty_buffers /\ sub'[s].pc = "arm"
  <1> DEFINE c == sub[s].conn
             b == sub[s].buff
             more == conn[c].processed + 1
             longer == Append(conn[c].send_queue, b)
  <1>1. /\ sub[s].pc = "put" /\ Types
        /\ UNCHANGED <<buf, empty_connections, compute_inbox, submitter_inbox,
                       io, cmp, acc, sock, backlog, life>>
    BY DEF SubmitPut, Structure
  <1>2. c \in Conns /\ b \in Buffers
    BY <1>1 DEF Structure, SubmitInv, Types, SubType
  <1>3. conn[c] \in ConnType
    BY <1>1, <1>2 DEF Types
  <1>4. more \in Nat
    BY <1>3, SMTT(20) DEF ConnType
  <1>5. longer \in Seq(Buffers)
    BY <1>2, <1>3, AppendElems DEF ConnType
  <1>6. CASE /\ conn[c].closed /\ conn' = [conn EXCEPT ![c].processed = @ + 1]
             /\ empty_buffers' = Append(empty_buffers, b)
             /\ sub' = [sub EXCEPT ![s].pc = "dispose"]
    <2> DEFINE r == [conn[c] EXCEPT !.processed = more]
    <2>1. conn' = [conn EXCEPT ![c] = r]
      BY <1>1, <1>6 DEF Types
    <2> HIDE DEF more
    <2>2. /\ r \in ConnType /\ r.processed = more /\ r.recvbuf = conn[c].recvbuf
          /\ r.fd = conn[c].fd /\ r.closed = conn[c].closed /\ r.ioidx = conn[c].ioidx
          /\ r.submitidx = conn[c].submitidx /\ r.computeidx = conn[c].computeidx
          /\ r.sendbuf = conn[c].sendbuf /\ r.send_queue = conn[c].send_queue
          /\ r.epoll_state = conn[c].epoll_state /\ r.lock = conn[c].lock
          /\ r.sent = conn[c].sent /\ r.received = conn[c].received
      BY <1>3, <1>4 DEF ConnType
    <2> HIDE DEF r
    <2>3. conn' \in [Conns -> ConnType] /\ OnlyConn(c) /\ conn'[c] = r
      BY <1>1, <1>2, <2>1, <2>2 DEF Types, OnlyConn
    <2>4. empty_buffers' \in Seq(Buffers)
      BY <1>1, <1>2, <1>6, AppendElems DEF Types
    <2>5. /\ OnlySub(s) /\ sub'[s].pc = "dispose" /\ sub'[s].buff = b /\ sub'[s].conn = c
          /\ sub' \in [Submitters -> SubType]
      <3>1. sub' = [sub EXCEPT ![s].pc = "dispose"]
        BY <1>6
      <3> QED
        BY <1>1, <3>1, SubGoto
    <2>6. Types'
      BY <1>1, <2>3, <2>4, <2>5 DEF Types
    <2> QED
      BY <1>1, <1>2, <1>6, <2>2, <2>3, <2>5, <2>6 DEF SameOwner, SameLock, SameOut, more
  <1>7. CASE /\ ~conn[c].closed
             /\ conn' = [conn EXCEPT ![c].processed = @ + 1, ![c].send_queue = Append(@, b)]
             /\ sub' = [sub EXCEPT ![s].pc = "arm"] /\ UNCHANGED empty_buffers
    <2> DEFINE r == [conn[c] EXCEPT !.processed = more, !.send_queue = longer]
    <2>1. conn' = [conn EXCEPT ![c] = r]
      BY <1>1, <1>7 DEF Types, ConnType
    <2> HIDE DEF more, longer
    <2>2. /\ r \in ConnType /\ r.processed = more /\ r.recvbuf = conn[c].recvbuf
          /\ r.fd = conn[c].fd /\ r.closed = conn[c].closed /\ r.ioidx = conn[c].ioidx
          /\ r.submitidx = conn[c].submitidx /\ r.computeidx = conn[c].computeidx
          /\ r.sendbuf = conn[c].sendbuf /\ r.send_queue = longer
          /\ r.epoll_state = conn[c].epoll_state /\ r.lock = conn[c].lock
          /\ r.sent = conn[c].sent /\ r.received = conn[c].received
      BY <1>3, <1>4, <1>5 DEF ConnType
    <2> HIDE DEF r
    <2>3. conn' \in [Conns -> ConnType] /\ OnlyConn(c) /\ conn'[c] = r
      BY <1>1, <1>2, <2>1, <2>2 DEF Types, OnlyConn
    <2>4. /\ OnlySub(s) /\ sub'[s].pc = "arm" /\ sub'[s].buff = b /\ sub'[s].conn = c
          /\ sub' \in [Submitters -> SubType]
      BY <1>1, <1>7, SubGoto
    <2>5. Types'
      BY <1>1, <1>7, <2>3, <2>4 DEF Types
    <2> QED
      <3>1. ~conn[c].closed /\ UNCHANGED empty_buffers
        BY <1>7
      <3>2. /\ SameOwner(c) /\ SameLock(c) /\ SameOut(c)
            /\ conn'[c].recvbuf = conn[c].recvbuf /\ conn'[c].sendbuf = conn[c].sendbuf
            /\ conn'[c].received = conn[c].received /\ conn'[c].sent = conn[c].sent
            /\ conn'[c].processed = more /\ conn'[c].send_queue = longer
        BY <2>2, <2>3 DEF SameOwner, SameLock, SameOut
      <3> QED
        BY <1>1, <1>2, <2>3, <2>4, <2>5, <3>1, <3>2 DEF more, longer
  <1>8. \/ /\ conn[c].closed /\ conn' = [conn EXCEPT ![c].processed = @ + 1]
           /\ empty_buffers' = Append(empty_buffers, b)
           /\ sub' = [sub EXCEPT ![s].pc = "dispose"]
        \/ /\ ~conn[c].closed
           /\ conn' = [conn EXCEPT ![c].processed = @ + 1, ![c].send_queue = Append(@, b)]
           /\ sub' = [sub EXCEPT ![s].pc = "arm"] /\ UNCHANGED empty_buffers
    BY Zenon DEF SubmitPut
  <1> QED
    BY Zenon, <1>6, <1>7, <1>8

LEMMA SubmitArmDoes ==
    ASSUME Structure, NEW s \in Submitters, SubmitArm(s)
    PROVE  LET c == sub[s].conn
           IN  /\ sub[s].pc = "arm" /\ c \in Conns /\ Types'
               /\ UNCHANGED <<buf, queues, io, cmp, acc, sock, backlog, life>>
               /\ OnlyConn(c) /\ SameOwner(c) /\ SameBuffers(c) /\ SameCounts(c) /\ SameLock(c)
               /\ conn'[c].epoll_state = conn[c].epoll_state \cup {"OUT"}
               /\ OnlySub(s) /\ sub'[s].pc = "unlock" /\ sub'[s].conn = c
               /\ sub'[s].buff = sub[s].buff
  <1> DEFINE c == sub[s].conn
             out == conn[c].epoll_state \cup {"OUT"}
             r == [conn[c] EXCEPT !.epoll_state = out]
  <1>1. /\ sub[s].pc = "arm" /\ Types /\ sub' = [sub EXCEPT ![s].pc = "unlock"]
        /\ UNCHANGED <<buf, queues, io, cmp, acc, sock, backlog, life>>
    BY DEF SubmitArm, Structure
  <1>2. c \in Conns
    BY <1>1 DEF Structure, SubmitInv, Types, SubType
  <1>3. conn[c] \in ConnType
    BY <1>1, <1>2 DEF Types
  <1>4. conn' = [conn EXCEPT ![c] = r]
    BY <1>1 DEF SubmitArm, Types, epoll_set_conn_state
  <1>5. out \in SUBSET {"IN", "OUT"}
    BY <1>3 DEF ConnType
  <1> HIDE DEF out
  <1>6. /\ r \in ConnType /\ r.epoll_state = out /\ r.recvbuf = conn[c].recvbuf
        /\ r.fd = conn[c].fd /\ r.closed = conn[c].closed /\ r.ioidx = conn[c].ioidx
        /\ r.submitidx = conn[c].submitidx /\ r.computeidx = conn[c].computeidx
        /\ r.sendbuf = conn[c].sendbuf /\ r.send_queue = conn[c].send_queue
        /\ r.lock = conn[c].lock /\ r.processed = conn[c].processed
        /\ r.sent = conn[c].sent /\ r.received = conn[c].received
    BY <1>3, <1>5 DEF ConnType
  <1> HIDE DEF r
  <1>7. conn' \in [Conns -> ConnType] /\ OnlyConn(c) /\ conn'[c] = r
    BY <1>1, <1>2, <1>4, <1>6 DEF Types, OnlyConn
  <1>8. /\ OnlySub(s) /\ sub'[s].pc = "unlock" /\ sub'[s].buff = sub[s].buff
        /\ sub'[s].conn = c /\ sub' \in [Submitters -> SubType]
    BY <1>1, SubGoto
  <1>9. Types'
    BY <1>1, <1>7, <1>8 DEF Types, queues
  <1> QED
    BY <1>1, <1>2, <1>6, <1>7, <1>8, <1>9 DEF SameOwner, SameBuffers, SameCounts, SameLock, out

LEMMA SubmitUnlockDoes ==
    ASSUME Structure, NEW s \in Submitters, SubmitUnlock(s)
    PROVE  LET c == sub[s].conn
           IN  /\ c \in Conns /\ Types'
               /\ UNCHANGED <<buf, queues, io, cmp, acc, sock, backlog>>
               /\ OnlyConn(c) /\ SameOwner(c) /\ SameBuffers(c) /\ SameCounts(c) /\ SameOut(c)
               /\ conn'[c].lock = 0 /\ OnlySub(s)
               /\ \/ /\ sub[s].pc = "unlock" /\ sub'[s].pc = "get" /\ sub'[s].conn = NULL
                  \/ /\ sub[s].pc = "dispose" /\ sub'[s].pc = "last" /\ sub'[s].conn = c
  <1> DEFINE c == sub[s].conn
  <1>1. /\ Types /\ conn' = [conn EXCEPT ![c].lock = 0] /\ sub[s].pc \in {"unlock", "dispose"}
        /\ UNCHANGED <<buf, queues, io, cmp, acc, sock, backlog>>
    BY DEF SubmitUnlock, Structure
  <1>2. c \in Conns
    BY <1>1 DEF Structure, SubmitInv, Types, SubType
  <1>3. /\ OnlyConn(c) /\ SameOwner(c) /\ SameBuffers(c) /\ SameCounts(c) /\ SameOut(c)
        /\ conn'[c].lock = 0 /\ conn' \in [Conns -> ConnType]
    BY <1>1, <1>2, LockDoes
  <1>4. CASE sub[s].pc = "unlock" /\ sub' = [sub EXCEPT ![s] = Polling]
    <2>1. /\ OnlySub(s) /\ sub'[s].pc = "get" /\ sub'[s].conn = NULL
          /\ sub' \in [Submitters -> SubType]
      BY <1>1, <1>4, PollingDoes
    <2>2. Types'
      BY <1>1, <1>3, <2>1 DEF Types, queues
    <2> QED
      BY <1>1, <1>2, <1>3, <1>4, <2>1, <2>2
  <1>5. CASE sub[s].pc = "dispose" /\ sub' = [sub EXCEPT ![s].pc = "last"]
    <2>1. /\ OnlySub(s) /\ sub'[s].pc = "last" /\ sub'[s].conn = c
          /\ sub' \in [Submitters -> SubType]
      BY <1>1, <1>5, SubGoto
    <2>2. Types'
      BY <1>1, <1>3, <2>1 DEF Types, queues
    <2> QED
      BY <1>1, <1>2, <1>3, <1>5, <2>1, <2>2
  <1> QED
    BY <1>4, <1>5 DEF SubmitUnlock

LEMMA SubmitLastDoes ==
    ASSUME Structure, NEW s \in Submitters, SubmitLast(s)
    PROVE  LET c == sub[s].conn
           IN  /\ sub[s].pc = "last" /\ c \in Conns /\ Types'
               /\ UNCHANGED <<conn, buf, empty_buffers, compute_inbox, submitter_inbox,
                              io, cmp, acc, sock, backlog>>
               /\ OnlySub(s) /\ sub'[s].pc = "get" /\ sub'[s].conn = NULL
               /\ \/ LastInFlight(c) /\ empty_connections' = Append(empty_connections, c)
                  \/ ~LastInFlight(c) /\ UNCHANGED empty_connections
  <1> DEFINE c == sub[s].conn
  <1>1. /\ sub[s].pc = "last" /\ Types /\ sub' = [sub EXCEPT ![s] = Polling]
        /\ empty_connections' = (IF LastInFlight(c) THEN Append(empty_connections, c)
                                 ELSE empty_connections)
        /\ UNCHANGED <<conn, buf, empty_buffers, compute_inbox, submitter_inbox,
                       io, cmp, acc, sock, backlog>>
    BY DEF SubmitLast, Structure
  <1>2. c \in Conns
    BY <1>1 DEF Structure, SubmitInv, Types, SubType
  <1>3. /\ OnlySub(s) /\ sub'[s].pc = "get" /\ sub'[s].conn = NULL
        /\ sub' \in [Submitters -> SubType]
    BY <1>1, PollingDoes
  <1>4. empty_connections' \in Seq(Conns)
    BY <1>1, <1>2, AppendElems DEF Types
  <1>5. Types'
    BY <1>1, <1>3, <1>4 DEF Types
  <1> QED
    BY <1>1, <1>2, <1>3, <1>5

----------------------------------------------------------------------------
\* Clients

\* A socket's record as a whole.
LEMMA SockDoes ==
    ASSUME Types, NEW k \in Clients, NEW q \in SockType, sock' = [sock EXCEPT ![k] = q]
    PROVE  OnlySock(k) /\ sock'[k] = q /\ sock' \in [Clients -> SockType]
  BY DEF Types, OnlySock

LEMMA ConnectDoes ==
    ASSUME Structure, NEW k \in Clients, Connect(k)
    PROVE  /\ sock[k].link = "none" /\ Types' /\ UNCHANGED server
           /\ OnlySock(k) /\ SameServed(k) /\ SamePeer(k) /\ sock'[k].link = "backlog"
           /\ backlog' = Append(backlog, k)
  <1> DEFINE q == [sock[k] EXCEPT !.link = "backlog"]
  <1>1. /\ sock[k].link = "none" /\ Types /\ UNCHANGED server
        /\ backlog' = Append(backlog, k)
    BY DEF Connect, Structure
  <1>2. sock' = [sock EXCEPT ![k] = q]
    BY <1>1 DEF Connect, Types
  <1>3. /\ q \in SockType /\ q.link = "backlog" /\ q.peer = sock[k].peer /\ q.err = sock[k].err
        /\ q.wrote = sock[k].wrote /\ q.got = sock[k].got
        /\ q.consumed = sock[k].consumed /\ q.stream = sock[k].stream
    BY <1>1 DEF Types, SockType
  <1> HIDE DEF q
  <1>4. OnlySock(k) /\ sock'[k] = q /\ sock' \in [Clients -> SockType]
    BY <1>1, <1>2, <1>3, SockDoes
  <1>5. backlog' \in Seq(Clients)
    BY <1>1, AppendElems DEF Types
  <1>6. Types'
    BY <1>1, <1>4, <1>5 DEF Types, server, queues, threads, life
  <1> QED
    BY <1>1, <1>3, <1>4, <1>6 DEF SameServed, SamePeer

LEMMA ClientWriteDoes ==
    ASSUME Structure, NEW k \in Clients, ClientWrite(k)
    PROVE  /\ sock[k].link # "none" /\ sock[k].link # "shut" /\ sock[k].peer = "open"
           /\ sock[k].wrote < MaxRequests * ReqLen
           /\ Types' /\ UNCHANGED <<server, backlog>>
           /\ OnlySock(k) /\ SameServed(k) /\ sock'[k].link = sock[k].link
           /\ sock'[k].peer = sock[k].peer /\ sock'[k].err = sock[k].err
           /\ sock'[k].wrote = sock[k].wrote + 1 /\ sock'[k].got = sock[k].got
  <1> DEFINE more == sock[k].wrote + 1
             q == [sock[k] EXCEPT !.wrote = more]
  <1>1. /\ sock[k].link # "none" /\ sock[k].link # "shut" /\ sock[k].peer = "open"
        /\ sock[k].wrote < MaxRequests * ReqLen
        /\ Types /\ UNCHANGED <<server, backlog>>
    BY DEF ClientWrite, Connected, Structure
  <1>2. sock' = [sock EXCEPT ![k] = q]
    BY <1>1 DEF ClientWrite, Types
  <1>3. more \in Nat
    BY <1>1 DEF Types, SockType
  <1> HIDE DEF more
  <1>4. /\ q \in SockType /\ q.link = sock[k].link /\ q.peer = sock[k].peer
        /\ q.err = sock[k].err /\ q.wrote = more /\ q.got = sock[k].got
        /\ q.consumed = sock[k].consumed /\ q.stream = sock[k].stream
    BY <1>1, <1>3 DEF Types, SockType
  <1> HIDE DEF q
  <1>5. OnlySock(k) /\ sock'[k] = q /\ sock' \in [Clients -> SockType]
    BY <1>1, <1>2, <1>4, SockDoes
  <1>6. Types'
    BY <1>1, <1>5 DEF Types, server, queues, threads, life
  <1> QED
    BY <1>1, <1>4, <1>5, <1>6 DEF SameServed, more

LEMMA ClientReadDoes ==
    ASSUME Structure, NEW k \in Clients, ClientRead(k)
    PROVE  /\ sock[k].link # "none" /\ sock[k].peer # "closed" /\ Unread(k) > 0
           /\ Types' /\ UNCHANGED <<server, backlog>>
           /\ OnlySock(k) /\ SameServed(k) /\ sock'[k].link = sock[k].link
           /\ sock'[k].peer = sock[k].peer /\ sock'[k].err = sock[k].err
           /\ sock'[k].wrote = sock[k].wrote /\ sock'[k].got = sock[k].got + 1
  <1> DEFINE more == sock[k].got + 1
             q == [sock[k] EXCEPT !.got = more]
  <1>1. /\ sock[k].link # "none" /\ sock[k].peer # "closed" /\ Unread(k) > 0
        /\ Types /\ UNCHANGED <<server, backlog>>
    BY DEF ClientRead, Connected, Structure
  <1>2. sock' = [sock EXCEPT ![k] = q]
    BY <1>1 DEF ClientRead, Types
  <1>3. more \in Nat
    BY <1>1 DEF Types, SockType
  <1> HIDE DEF more
  <1>4. /\ q \in SockType /\ q.link = sock[k].link /\ q.peer = sock[k].peer
        /\ q.err = sock[k].err /\ q.wrote = sock[k].wrote /\ q.got = more
        /\ q.consumed = sock[k].consumed /\ q.stream = sock[k].stream
    BY <1>1, <1>3 DEF Types, SockType
  <1> HIDE DEF q
  <1>5. OnlySock(k) /\ sock'[k] = q /\ sock' \in [Clients -> SockType]
    BY <1>1, <1>2, <1>4, SockDoes
  <1>6. Types'
    BY <1>1, <1>5 DEF Types, server, queues, threads, life
  <1> QED
    BY <1>1, <1>4, <1>5, <1>6 DEF SameServed, more

LEMMA ClientShutdownDoes ==
    ASSUME Structure, NEW k \in Clients, ClientShutdown(k)
    PROVE  /\ "half" \in Closing /\ sock[k].link # "none" /\ sock[k].peer = "open"
           /\ Types' /\ UNCHANGED <<server, backlog>>
           /\ OnlySock(k) /\ SameServed(k) /\ sock'[k].link = sock[k].link
           /\ sock'[k].peer = "half" /\ sock'[k].err = sock[k].err
           /\ sock'[k].wrote = sock[k].wrote /\ sock'[k].got = sock[k].got
  <1> DEFINE q == [sock[k] EXCEPT !.peer = "half"]
  <1>1. /\ "half" \in Closing /\ sock[k].link # "none" /\ sock[k].peer = "open"
        /\ Types /\ UNCHANGED <<server, backlog>>
    BY DEF ClientShutdown, Connected, Structure
  <1>2. sock' = [sock EXCEPT ![k] = q]
    BY <1>1 DEF ClientShutdown, Types
  <1>3. /\ q \in SockType /\ q.link = sock[k].link /\ q.peer = "half"
        /\ q.err = sock[k].err /\ q.wrote = sock[k].wrote /\ q.got = sock[k].got
        /\ q.consumed = sock[k].consumed /\ q.stream = sock[k].stream
    BY <1>1 DEF Types, SockType
  <1> HIDE DEF q
  <1>4. OnlySock(k) /\ sock'[k] = q /\ sock' \in [Clients -> SockType]
    BY <1>1, <1>2, <1>3, SockDoes
  <1>5. Types'
    BY <1>1, <1>4 DEF Types, server, queues, threads, life
  <1> QED
    BY <1>1, <1>3, <1>4, <1>5 DEF SameServed

LEMMA ClientCloseDoes ==
    ASSUME Structure, NEW k \in Clients, ClientClose(k)
    PROVE  /\ sock[k].link # "none" /\ sock[k].peer # "closed"
           /\ \/ "abort" \in Closing
              \/ AllAnswered(k)
              \/ sock[k].link = "shut" /\ Unread(k) = 0
           /\ Types' /\ UNCHANGED <<server, backlog>>
           /\ OnlySock(k) /\ SameServed(k) /\ sock'[k].link = sock[k].link
           /\ sock'[k].peer = "closed" /\ sock'[k].err = (Unread(k) > 0)
           /\ sock'[k].wrote = sock[k].wrote /\ sock'[k].got = sock[k].got
  <1> DEFINE lost == Unread(k) > 0
             q == [sock[k] EXCEPT !.peer = "closed", !.err = lost]
  <1>1. /\ sock[k].link # "none" /\ sock[k].peer # "closed"
        /\ \/ "abort" \in Closing
           \/ AllAnswered(k)
           \/ sock[k].link = "shut" /\ Unread(k) = 0
        /\ Types /\ UNCHANGED <<server, backlog>>
    BY DEF ClientClose, Connected, Structure
  <1>2. sock' = [sock EXCEPT ![k] = q]
    BY <1>1 DEF ClientClose, Types
  <1>3. lost \in BOOLEAN
    OBVIOUS
  <1> HIDE DEF lost
  <1>4. /\ q \in SockType /\ q.link = sock[k].link /\ q.peer = "closed"
        /\ q.err = lost /\ q.wrote = sock[k].wrote /\ q.got = sock[k].got
        /\ q.consumed = sock[k].consumed /\ q.stream = sock[k].stream
    BY <1>1, <1>3 DEF Types, SockType
  <1> HIDE DEF q
  <1>5. OnlySock(k) /\ sock'[k] = q /\ sock' \in [Clients -> SockType]
    BY <1>1, <1>2, <1>4, SockDoes
  <1>6. Types'
    BY <1>1, <1>5 DEF Types, server, queues, threads, life
  <1> QED
    BY <1>1, <1>4, <1>5, <1>6 DEF SameServed, lost

----------------------------------------------------------------------------
\* Structure is kept

\* What the bytes on the sockets have to say about the ends of a session: one
\* that ends with a response half sent is a session that reads one request at
\* a time.
Harmless ==
    /\ \A w \in IOs : LET c == io[w].conn
                      IN  /\ io[w].pc = "send" /\ SendFails(conn[c].fd) => Readahead = 0
                          /\ io[w].pc = "recv" /\ RecvEnds(conn[c].fd) /\ conn[c].sendbuf # NULL
                               => Readahead = 0
    /\ \A c \in Conns : Registered(c) /\ sock[conn[c].fd].err => Readahead = 0

----------------------------------------------------------------------------
\* Handlers of an IO thread

\* What a handler may change outside its thread and session.
HandlerOnly(w) ==
    LET c == io[w].conn
    IN  /\ OnlyConn(c) /\ conn'[c].ioidx = conn[c].ioidx
        /\ conn'[c].submitidx = conn[c].submitidx /\ conn'[c].fd = conn[c].fd
        /\ conn[c].closed => conn'[c].closed
        /\ \A v \in IOs \ {w} : io'[v] = io[v]
        /\ io'[w].conn = c /\ io'[w].events = io[w].events
        /\ UNCHANGED <<sub, acc, backlog>>
        /\ Inj(empty_connections)'
        /\ \A d \in Conns \ {c} : Pooled(d)' <=> Pooled(d)
        /\ \A k \in Clients : \/ sock'[k].link = sock[k].link
                              \/ ~conn[c].closed /\ k = conn[c].fd

LEMMA HandlerKeeps ==
    ASSUME Structure, Types', NEW w \in IOs, Busy(w), NEW c \in Conns, io[w].conn = c,
           HandlerOnly(w), SessionInv(c)', LockInv(c)', IOInv(w)',
           \A s \in Submitters : sub[s].conn = c => SubmitInv(s)'
    PROVE  Structure'
  <1>1. conn[c].ioidx = w /\ ~Released(c)
    BY BusyConn
  <1>2. \A d \in Conns \ {c} : conn'[d] = conn[d] /\ (Released(d)' <=> Released(d))
    BY DEF HandlerOnly, OnlyConn, Released, Taken
  <1>3. ASSUME NEW a \in Acceptors
        PROVE  AcceptInv(a)'
    <2>1. acc'[a] = acc[a] /\ AcceptInv(a)
      BY DEF HandlerOnly, Structure
    <2>2. acc[a].conn # c
      BY <1>1 DEF Released, Taken
    <2>3. acc[a].conn = NULL \/ acc[a].conn \in Conns
      BY DEF Structure, Types, AccType
    <2>4. \A d \in Conns : d = acc[a].conn => ~Pooled(d)' /\ conn'[d] = conn[d]
      <3> SUFFICES ASSUME NEW d \in Conns, d = acc[a].conn
                   PROVE  ~Pooled(d)' /\ conn'[d] = conn[d]
        OBVIOUS
      <3>1. d # NULL /\ d # c
        BY <2>2, Constants
      <3>2. ~Pooled(d)
        BY <2>1, <3>1 DEF AcceptInv, Pooled
      <3> QED
        BY <1>2, <3>1, <3>2 DEF HandlerOnly
    <2>5. acc[a].pc = "init" => IsOpen(acc[a].fd)'
      <3>1. acc[a].pc = "init" => ~(~conn[c].closed /\ acc[a].fd = conn[c].fd)
        BY <1>1, <2>1 DEF AcceptInv
      <3> QED
        BY <2>1, <3>1 DEF HandlerOnly, AcceptInv, IsOpen
    <2>6. acc[a].pc = "init" => \A d \in Conns : ~conn'[d].closed => conn'[d].fd # acc[a].fd
      BY <1>2, <2>1 DEF HandlerOnly, AcceptInv
    <2>7. acc' = acc
      BY DEF HandlerOnly
    <2>8. CASE acc[a].conn = NULL
      BY <2>1, <2>5, <2>6, <2>7, <2>8 DEF AcceptInv
    <2>9. CASE acc[a].conn \in Conns
      <3> PICK d \in Conns : d = acc[a].conn
        BY <2>9
      <3>1. ~Pooled(d)' /\ conn'[d] = conn[d]
        BY <2>4
      <3> QED
        BY <2>1, <2>5, <2>6, <2>7, <3>1 DEF AcceptInv
    <2> QED
      BY <2>3, <2>8, <2>9
  <1>4. ListenInv'
    <2>1. \A i \in DOMAIN backlog : backlog[i] \in Clients /\ sock'[backlog[i]].link = "backlog"
      <3> TAKE i \in DOMAIN backlog
      <3>1. backlog[i] \in Clients /\ sock[backlog[i]].link = "backlog"
        BY DEF Structure, ListenInv, Types
      <3>2. ~(~conn[c].closed /\ backlog[i] = conn[c].fd)
        BY <1>1, <3>1 DEF Structure, SessionInv, IsOpen
      <3> QED
        BY <3>1, <3>2 DEF HandlerOnly
    <2> QED
      BY <2>1 DEF HandlerOnly, Structure, ListenInv
  <1>5. ASSUME NEW d \in Conns
        PROVE  SessionInv(d)' /\ LockInv(d)'
    <2>1. CASE d = c
      BY <2>1
    <2>2. CASE d # c
      <3>1. conn'[d] = conn[d] /\ (Released(d)' <=> Released(d)) /\ (Pooled(d)' <=> Pooled(d))
        BY <1>2, <2>2 DEF HandlerOnly
      <3>2. SessionInv(d) /\ LockInv(d)
        BY DEF Structure
      <3>3. ~conn[d].closed =>
              IsOpen(conn[d].fd)' /\ \A f \in Conns : ~conn'[f].closed /\ conn'[f].fd = conn[d].fd => f = d
        <4> SUFFICES ASSUME ~conn[d].closed
                     PROVE  /\ IsOpen(conn[d].fd)'
                            /\ \A f \in Conns : ~conn'[f].closed /\ conn'[f].fd = conn[d].fd => f = d
          OBVIOUS
        <4>1. /\ conn[d].fd \in Clients /\ IsOpen(conn[d].fd)
              /\ \A f \in Conns : ~conn[f].closed /\ conn[f].fd = conn[d].fd => f = d
          BY <3>2 DEF SessionInv
        <4>2. ~(~conn[c].closed /\ conn[c].fd = conn[d].fd)
          BY <1>1, <2>2, <4>1
        <4>3. sock'[conn[d].fd].link = sock[conn[d].fd].link
          BY <4>1, <4>2 DEF HandlerOnly
        <4>4. IsOpen(conn[d].fd)'
          BY <3>1, <4>1, <4>3 DEF IsOpen
        <4> QED
          BY <1>2, <4>1, <4>2, <4>4 DEF HandlerOnly
      <3>4. SessionInv(d)'
        BY <3>1, <3>2, <3>3 DEF SessionInv
      <3>5. LockInv(d)'
        <4>1. \A v \in IOs : io[v].conn = d /\ IOSection(v) => IOSection(v)' /\ io'[v].conn = d
          BY <2>2 DEF HandlerOnly, IOSection
        <4>2. \A s \in Submitters : SubSection(s)' <=> SubSection(s)
          BY DEF HandlerOnly, SubSection
        <4>3. sub' = sub
          BY DEF HandlerOnly
        <4> QED
          BY <3>1, <3>2, <4>1, <4>2, <4>3 DEF LockInv
      <3> QED
        BY <3>4, <3>5
    <2> QED
      BY <2>1, <2>2
  <1>6. ASSUME NEW v \in IOs
        PROVE  IOInv(v)'
    <2>1. CASE v = w
      BY <2>1
    <2>2. CASE v # w
      <3>1. io'[v] = io[v] /\ IOInv(v) /\ sub' = sub
        BY <2>2 DEF HandlerOnly, Structure
      <3>2. CASE Busy(v)
        <4> PICK d \in Conns \ {c} : d = io[v].conn
          BY <1>1, <2>2, <3>2, BusyConn
        <4>1. conn'[d] = conn[d] /\ (Released(d)' <=> Released(d))
          BY <1>2
        <4> QED
          BY <3>1, <4>1 DEF IOInv, Busy, IOSection, SubSection
      <3>3. CASE ~Busy(v)
        BY <3>1, <3>3 DEF IOInv, Busy, IOSection
      <3> QED
        BY <3>2, <3>3
    <2> QED
      BY <2>1, <2>2
  <1>7. ASSUME NEW v \in IOs
        PROVE  EventInv(v)'
    <2>1. io'[v].events = io[v].events
      BY DEF HandlerOnly
    <2>2. ASSUME NEW e \in io[v].events
          PROVE  /\ e.conn \in Conns \ {c} /\ ~(Busy(v)' /\ io'[v].conn = e.conn)
      <3>1. /\ e.conn \in Conns /\ conn[e.conn].ioidx = v /\ ~(Busy(v) /\ io[v].conn = e.conn)
        BY DEF Structure, EventInv, Types, IOType, EventType
      <3>2. CASE v = w
        BY <3>1, <3>2 DEF HandlerOnly
      <3>3. CASE v # w
        BY <1>1, <3>1, <3>3 DEF HandlerOnly, Busy
      <3> QED
        BY <3>2, <3>3
    <2>3. EventInv(v)
      BY DEF Structure
    <2> QED
      BY <1>2, <2>1, <2>2, <2>3 DEF EventInv
  <1>8. ASSUME NEW s \in Submitters
        PROVE  SubmitInv(s)'
    <2>1. CASE sub[s].conn = c
      BY <2>1
    <2>2. CASE sub[s].conn # c
      <3>1. sub' = sub /\ SubmitInv(s) /\ sub[s].conn \in Conns \cup {NULL}
        BY DEF HandlerOnly, Structure, Types, SubType
      <3>2. CASE sub[s].conn = NULL
        BY <3>1, <3>2 DEF SubmitInv, SubSection
      <3>3. CASE sub[s].conn # NULL
        <4> PICK d \in Conns \ {c} : d = sub[s].conn
          BY <2>2, <3>1, <3>3
        <4>1. conn'[d] = conn[d] /\ (Released(d)' <=> Released(d))
          BY <1>2
        <4> QED
          BY <3>1, <4>1 DEF SubmitInv, SubSection
      <3> QED
        BY <3>2, <3>3
    <2> QED
      BY <2>1, <2>2
  <1> QED
    BY <1>3, <1>4, <1>5, <1>6, <1>7, <1>8 DEF Structure

\* Most handlers leave the session where it is, and the sockets connected.
Quiet(w) ==
    LET c == io[w].conn
    IN  /\ OnlyConn(c) /\ SameOwner(c)
        /\ \A v \in IOs \ {w} : io'[v] = io[v]
        /\ io'[w].conn = c /\ io'[w].events = io[w].events
        /\ UNCHANGED <<empty_connections, sub, acc, backlog>>
        /\ \A k \in Clients : sock'[k].link = sock[k].link
        /\ conn[c].closed => SameBuffers(c)
        /\ \/ SameLock(c) /\ (IOSection(w)' <=> IOSection(w))
           \/ conn'[c].lock = 0 /\ IOSection(w)
           \/ conn'[c].lock = 1 /\ IOSection(w)'

LEMMA QuietKeeps ==
    ASSUME Structure, Types', NEW w \in IOs, Busy(w), NEW c \in Conns, io[w].conn = c,
           Quiet(w), IOInv(w)'
    PROVE  Structure'
  <1>1. conn[c].ioidx = w /\ ~Released(c) /\ SessionInv(c) /\ LockInv(c) /\ IOInv(w)
    BY BusyConn DEF Structure
  <1>2. \A d \in Conns : (Pooled(d)' <=> Pooled(d)) /\ (Released(d)' <=> Released(d))
    BY DEF Quiet, Pooled, Released, Taken
  <1>3. HandlerOnly(w)
    <2>1. Inj(empty_connections)'
      BY DEF Structure, ListenInv, Quiet, Inj
    <2> QED
      BY <1>2, <2>1 DEF Quiet, HandlerOnly, SameOwner
  <1>4. SessionInv(c)'
    <2>1. /\ conn'[c].fd = conn[c].fd /\ conn'[c].closed = conn[c].closed
          /\ conn'[c].ioidx = conn[c].ioidx /\ conn'[c].submitidx = conn[c].submitidx
          /\ conn'[c].computeidx = conn[c].computeidx
          /\ conn[c].closed => conn'[c].send_queue = conn[c].send_queue
      BY DEF Quiet, SameOwner, SameBuffers
    <2>2. ~conn[c].closed => IsOpen(conn[c].fd)'
      BY <1>1, <2>1 DEF Quiet, SessionInv, IsOpen
    <2>3. \A d \in Conns \ {c} : conn'[d] = conn[d]
      BY DEF Quiet, OnlyConn
    <2> QED
      BY <1>1, <1>2, <2>1, <2>2, <2>3 DEF SessionInv
  <1>5. LockInv(c)'
    <2> SUFFICES ASSUME conn'[c].lock = 1
                 PROVE  \/ \E v \in IOs : IOSection(v)' /\ io'[v].conn = c
                        \/ \E s \in Submitters : SubSection(s)' /\ sub'[s].conn = c
      BY DEF LockInv
    <2>1. CASE IOSection(w)'
      BY <2>1 DEF Quiet
    <2>2. CASE SameLock(c) /\ ~IOSection(w)
      <3>1. ~\E v \in IOs : IOSection(v) /\ io[v].conn = c
        <4> SUFFICES ASSUME NEW v \in IOs, IOSection(v), io[v].conn = c
                     PROVE  FALSE
          OBVIOUS
        <4>1. Busy(v)
          BY DEF IOSection, Busy
        <4>2. v = w
          BY <1>1, <4>1, BusyConn
        <4> QED
          BY <2>2, <4>2
      <3>2. PICK s \in Submitters : SubSection(s) /\ sub[s].conn = c
        BY <1>1, <2>2, <3>1 DEF LockInv, SameLock
      <3>3. SubSection(s)' /\ sub'[s].conn = c
        BY <3>2 DEF Quiet, SubSection
      <3> QED
        BY <3>3
    <2> QED
      BY <2>1, <2>2 DEF Quiet
  <1>6. ASSUME NEW s \in Submitters, sub[s].conn = c
        PROVE  SubmitInv(s)'
    <2>1. SubmitInv(s) /\ sub' = sub
      BY DEF Structure, Quiet
    <2>2. /\ conn'[c].closed = conn[c].closed /\ conn'[c].submitidx = conn[c].submitidx
          /\ conn[c].closed => conn'[c].sendbuf = conn[c].sendbuf
      BY DEF Quiet, SameOwner, SameBuffers
    <2>3. SubSection(s) => conn'[c].lock = 1
      BY <1>1, <1>6, <2>1 DEF Quiet, SameLock, SubmitInv, IOInv
    <2> QED
      BY <1>2, <1>6, <2>1, <2>2, <2>3 DEF SubmitInv, SubSection
  <1> QED
    BY <1>3, <1>4, <1>5, <1>6, HandlerKeeps

\* Nobody else is inside when the lock is free.
LEMMA LockFree ==
    ASSUME Structure, NEW c \in Conns, conn[c].lock = 0
    PROVE  \A s \in Submitters : ~(SubSection(s) /\ sub[s].conn = c)
  BY DEF Structure, SubmitInv

LEMMA RespTakeKeeps ==
    ASSUME Structure, NEW w \in IOs, RespTake(w)
    PROVE  Structure'
  <1> PICK c \in Conns : c = io[w].conn
    BY RespTakeDoes
  <1>1. /\ io[w].pc = "resp" /\ Types' /\ Busy(w) /\ IOInv(w) /\ ~conn[c].closed
        /\ UNCHANGED <<queues, sub, cmp, acc, sock, backlog>>
    BY RespTakeDoes DEF Structure, Busy, IOInv
  <1>2. ~Released(c)' /\ conn[c].ioidx = w
    BY <1>1, BusyConn DEF queues, Released, Pooled, Taken
  <1>3. OnlyConn(c) /\ SameOwner(c) /\ SameLock(c)
    BY <1>1, RespTakeDoes DEF OnlyConn, SameOwner, SameLock
  <1>4. \/ conn'[c].sendbuf # NULL /\ Goes(w, "send")
        \/ conn'[c].sendbuf = NULL /\ Returns(w)
    BY <1>1, RespTakeDoes, Constants
  <1>5. Quiet(w)
    BY <1>1, <1>3, <1>4 DEF Quiet, Goes, Returns, IOSection, queues
  <1>6. IOInv(w)'
    BY <1>1, <1>2, <1>3, <1>4 DEF Goes, Returns, IOInv, IOSection, Busy, SameOwner
  <1> QED
    BY <1>1, <1>5, <1>6, QuietKeeps

LEMMA RespSentKeeps ==
    ASSUME Structure, NEW w \in IOs, RespSent(w)
    PROVE  Structure'
  <1> PICK c \in Conns : c = io[w].conn
    BY RespSentDoes
  <1>1. /\ io[w].pc = "sent" /\ Types' /\ Busy(w) /\ IOInv(w) /\ ~conn[c].closed
        /\ UNCHANGED <<empty_connections, sub, cmp, acc, sock, backlog>>
    BY RespSentDoes DEF Structure, Busy, IOInv
  <1>2. ~Released(c)' /\ conn[c].ioidx = w
    BY <1>1, BusyConn DEF Released, Pooled, Taken
  <1>3. OnlyConn(c) /\ SameOwner(c) /\ SameLock(c) /\ Goes(w, "resp_lock")
    BY RespSentDoes
  <1>4. Quiet(w)
    BY <1>1, <1>3 DEF Quiet, Goes, IOSection
  <1>5. IOInv(w)'
    BY <1>1, <1>2, <1>3 DEF Goes, IOInv, IOSection, Busy, SameOwner
  <1> QED
    BY <1>1, <1>4, <1>5, QuietKeeps

LEMMA RespLockKeeps ==
    ASSUME Structure, NEW w \in IOs, RespLock(w)
    PROVE  Structure'
  <1> PICK c \in Conns : c = io[w].conn
    BY RespLockDoes
  <1>1. /\ io[w].pc = "resp_lock" /\ Types' /\ Busy(w) /\ IOInv(w) /\ ~conn[c].closed
        /\ conn[c].lock = 0 /\ UNCHANGED <<queues, sub, cmp, acc, sock, backlog>>
    BY RespLockDoes DEF Structure, Busy, IOInv
  <1>2. ~Released(c)' /\ conn[c].ioidx = w
    BY <1>1, BusyConn DEF queues, Released, Pooled, Taken
  <1>3. OnlyConn(c) /\ SameOwner(c) /\ conn'[c].lock = 1 /\ Goes(w, "resp_unlock")
    BY RespLockDoes
  <1>4. Quiet(w)
    BY <1>1, <1>3 DEF Quiet, Goes, IOSection, queues
  <1>5. \A s \in Submitters : ~(SubSection(s)' /\ sub'[s].conn = c)
    BY <1>1, LockFree DEF SubSection
  <1>6. IOInv(w)'
    BY <1>1, <1>2, <1>3, <1>5 DEF Goes, IOInv, IOSection, Busy, SameOwner
  <1> QED
    BY <1>1, <1>4, <1>6, QuietKeeps

LEMMA RespUnlockKeeps ==
    ASSUME Structure, NEW w \in IOs, RespUnlock(w)
    PROVE  Structure'
  <1> PICK c \in Conns : c = io[w].conn
    BY RespUnlockDoes
  <1>1. /\ io[w].pc = "resp_unlock" /\ Types' /\ Busy(w) /\ IOInv(w) /\ ~conn[c].closed
        /\ UNCHANGED <<queues, sub, cmp, acc, sock, backlog>>
    BY RespUnlockDoes DEF Structure, Busy, IOInv
  <1>2. ~Released(c)' /\ conn[c].ioidx = w
    BY <1>1, BusyConn DEF queues, Released, Pooled, Taken
  <1>3. OnlyConn(c) /\ SameOwner(c) /\ conn'[c].lock = 0 /\ Goes(w, "resp")
    BY RespUnlockDoes
  <1>4. Quiet(w)
    BY <1>1, <1>3 DEF Quiet, Goes, IOSection, queues
  <1>5. IOInv(w)'
    BY <1>1, <1>2, <1>3 DEF Goes, IOInv, IOSection, Busy, SameOwner
  <1> QED
    BY <1>1, <1>4, <1>5, QuietKeeps

LEMMA SendKeeps ==
    ASSUME Structure, Harmless, NEW w \in IOs, Send(w)
    PROVE  Structure'
  <1> PICK c \in Conns : c = io[w].conn
    BY SendDoes, Zenon
  <1>1. /\ io[w].pc = "send" /\ Types' /\ Busy(w) /\ IOInv(w) /\ ~conn[c].closed
        /\ UNCHANGED <<conn, queues, sub, cmp, acc, backlog>>
    BY SendDoes, Zenon DEF Structure, Busy, IOInv
  <1>2. ~Released(c)' /\ conn[c].ioidx = w
    BY <1>1, BusyConn DEF queues, Released, Pooled, Taken
  <1>3. \/ Goes(w, "finish") /\ SendFails(conn[c].fd)
        \/ Returns(w) \/ Goes(w, "sent") \/ Goes(w, "resp")
    BY <1>1, SendDoes, Zenon
  <1>4. \A k \in Clients : sock'[k].link = sock[k].link
    BY SendDoes, Zenon DEF OnlySock, Structure, Types, SockType
  <1>5. Quiet(w)
    BY <1>1, <1>3, <1>4 DEF Quiet, Goes, Returns, IOSection, queues, OnlyConn, SameOwner,
                            SameBuffers, SameLock
  <1>6. CASE Goes(w, "finish") /\ SendFails(conn[c].fd)
    <2>1. Readahead = 0 /\ conn[c].sendbuf # NULL
      BY <1>1, <1>6 DEF Harmless, IOInv
    <2>2. IOInv(w)'
      BY <1>1, <1>2, <1>6, <2>1 DEF Goes, IOInv, IOSection, Busy
    <2> QED
      BY <1>1, <1>5, <2>2, QuietKeeps
  <1>7. CASE Returns(w) \/ Goes(w, "sent") \/ Goes(w, "resp")
    <2>1. IOInv(w)'
      BY <1>1, <1>2, <1>7 DEF Goes, Returns, IOInv, IOSection, Busy
    <2> QED
      BY <1>1, <1>5, <2>1, QuietKeeps
  <1> QED
    BY <1>3, <1>6, <1>7

\* handle_request of a closed session takes no buffer: it has one response half
\* sent, and so no room to read ahead.
LEMMA ReqClosed ==
    ASSUME Structure, Counting, NEW w \in IOs, io[w].pc = "req",
           NEW c \in Conns, c = io[w].conn, conn[c].closed
    PROVE  Full(c) /\ conn[c].recvbuf = NULL
  <1>1. conn[c].sendbuf # NULL /\ CountInv(c) /\ conn[c] \in ConnType
    BY DEF IOInv, Busy, Counting, Structure, Types
  <1>2. conn[c].sent \in Nat /\ conn[c].received \in Nat
    BY <1>1 DEF ConnType
  <1>3. conn[c].sent < conn[c].received /\ Readahead = 0
    BY <1>1 DEF CountInv
  <1>4. conn[c].recvbuf # NULL => conn[c].received <= conn[c].sent + Readahead
    BY <1>1 DEF CountInv
  <1> QED
    BY <1>2, <1>3, <1>4 DEF Full

LEMMA ReqTakeKeeps ==
    ASSUME Structure, Counting, NEW w \in IOs, ReqTake(w)
    PROVE  Structure'
  <1> PICK c \in Conns : c = io[w].conn
    BY ReqTakeDoes
  <1>1. /\ io[w].pc = "req" /\ Types' /\ Busy(w) /\ IOInv(w)
        /\ UNCHANGED <<empty_connections, sub, cmp, acc, sock, backlog>>
    BY ReqTakeDoes DEF Structure, Busy
  <1>2. ~Released(c)' /\ conn[c].ioidx = w
    BY <1>1, BusyConn DEF Released, Pooled, Taken
  <1>3. conn[c].closed => Full(c) /\ conn[c].recvbuf = NULL
    BY <1>1, ReqClosed
  <1>4. OnlyConn(c) /\ SameOwner(c) /\ SameLock(c) /\ (conn[c].closed => SameBuffers(c))
    BY <1>3, ReqTakeDoes DEF OnlyConn, SameOwner, SameLock, SameBuffers
  <1>5. \/ Goes(w, "recv") /\ conn'[c].recvbuf # NULL /\ ~conn[c].closed
        \/ Returns(w)
    BY <1>3, ReqTakeDoes, Constants
  <1>6. Quiet(w)
    BY <1>1, <1>4, <1>5 DEF Quiet, Goes, Returns, IOSection
  <1>7. IOInv(w)'
    BY <1>1, <1>2, <1>4, <1>5 DEF Goes, Returns, IOInv, IOSection, Busy, SameOwner
  <1> QED
    BY <1>1, <1>6, <1>7, QuietKeeps

LEMMA RecvKeeps ==
    ASSUME Structure, Harmless, NEW w \in IOs, Recv(w)
    PROVE  Structure'
  <1> PICK c \in Conns : c = io[w].conn
    BY RecvDoes
  <1>1. /\ io[w].pc = "recv" /\ Types' /\ Busy(w) /\ IOInv(w) /\ ~conn[c].closed
        /\ UNCHANGED <<conn, queues, sub, cmp, acc, backlog>>
    BY RecvDoes DEF Structure, Busy, IOInv
  <1>2. ~Released(c)' /\ conn[c].ioidx = w
    BY <1>1, BusyConn DEF queues, Released, Pooled, Taken
  <1>3. \/ Goes(w, "finish") /\ RecvEnds(conn[c].fd)
        \/ Returns(w) \/ Goes(w, "req_lock") \/ Goes(w, "req")
    BY <1>1, RecvDoes
  <1>4. \A k \in Clients : sock'[k].link = sock[k].link
    BY RecvDoes DEF OnlySock, Structure, Types, SockType
  <1>5. Quiet(w)
    BY <1>1, <1>3, <1>4 DEF Quiet, Goes, Returns, IOSection, queues, OnlyConn, SameOwner,
                            SameBuffers, SameLock
  <1>6. CASE Goes(w, "finish") /\ RecvEnds(conn[c].fd)
    <2>1. conn[c].sendbuf # NULL => Readahead = 0
      BY <1>1, <1>6 DEF Harmless, IOInv
    <2>2. IOInv(w)'
      BY <1>1, <1>2, <1>6, <2>1 DEF Goes, IOInv, IOSection, Busy
    <2> QED
      BY <1>1, <1>5, <2>2, QuietKeeps
  <1>7. CASE Returns(w) \/ Goes(w, "req_lock") \/ Goes(w, "req")
    <2>1. IOInv(w)'
      BY <1>1, <1>2, <1>7 DEF Goes, Returns, IOInv, IOSection, Busy
    <2> QED
      BY <1>1, <1>5, <2>1, QuietKeeps
  <1> QED
    BY <1>3, <1>6, <1>7

LEMMA ReqLockKeeps ==
    ASSUME Structure, NEW w \in IOs, ReqLock(w)
    PROVE  Structure'
  <1> PICK c \in Conns : c = io[w].conn
    BY ReqLockDoes
  <1>1. /\ io[w].pc = "req_lock" /\ Types' /\ Busy(w) /\ IOInv(w) /\ ~conn[c].closed
        /\ conn[c].lock = 0 /\ UNCHANGED <<queues, sub, cmp, acc, sock, backlog>>
    BY ReqLockDoes DEF Structure, Busy, IOInv
  <1>2. ~Released(c)' /\ conn[c].ioidx = w
    BY <1>1, BusyConn DEF queues, Released, Pooled, Taken
  <1>3. OnlyConn(c) /\ SameOwner(c) /\ SameBuffers(c) /\ conn'[c].lock = 1 /\ Goes(w, "req_put")
    BY ReqLockDoes
  <1>4. Quiet(w)
    BY <1>1, <1>3 DEF Quiet, Goes, IOSection, queues
  <1>5. \A s \in Submitters : ~(SubSection(s)' /\ sub'[s].conn = c)
    BY <1>1, LockFree DEF SubSection
  <1>6. IOInv(w)'
    BY <1>1, <1>2, <1>3, <1>5 DEF Goes, IOInv, IOSection, Busy, SameOwner, SameBuffers
  <1> QED
    BY <1>1, <1>4, <1>6, QuietKeeps

LEMMA ReqPutKeeps ==
    ASSUME Structure, NEW w \in IOs, ReqPut(w)
    PROVE  Structure'
  <1> PICK c \in Conns : c = io[w].conn
    BY ReqPutDoes
  <1>1. /\ io[w].pc = "req_put" /\ Types' /\ Busy(w) /\ IOInv(w) /\ ~conn[c].closed
        /\ UNCHANGED <<empty_connections, sub, cmp, acc, sock, backlog>>
    BY ReqPutDoes DEF Structure, Busy, IOInv
  <1>2. ~Released(c)' /\ conn[c].ioidx = w
    BY <1>1, BusyConn DEF Released, Pooled, Taken
  <1>3. OnlyConn(c) /\ SameOwner(c) /\ SameLock(c) /\ Goes(w, "req_unlock")
    BY ReqPutDoes
  <1>4. Quiet(w)
    BY <1>1, <1>3 DEF Quiet, Goes, IOSection
  <1>5. IOInv(w)'
    BY <1>1, <1>2, <1>3 DEF Goes, IOInv, IOSection, SubSection, Busy, SameOwner, SameLock
  <1> QED
    BY <1>1, <1>4, <1>5, QuietKeeps

LEMMA ReqUnlockKeeps ==
    ASSUME Structure, NEW w \in IOs, ReqUnlock(w)
    PROVE  Structure'
  <1> PICK c \in Conns : c = io[w].conn
    BY ReqUnlockDoes
  <1>1. /\ io[w].pc = "req_unlock" /\ Types' /\ Busy(w) /\ IOInv(w) /\ ~conn[c].closed
        /\ UNCHANGED <<queues, sub, cmp, acc, sock, backlog>>
    BY ReqUnlockDoes DEF Structure, Busy, IOInv
  <1>2. ~Released(c)' /\ conn[c].ioidx = w
    BY <1>1, BusyConn DEF queues, Released, Pooled, Taken
  <1>3. OnlyConn(c) /\ SameOwner(c) /\ conn'[c].lock = 0 /\ Goes(w, "req")
    BY ReqUnlockDoes
  <1>4. Quiet(w)
    BY <1>1, <1>3 DEF Quiet, Goes, IOSection, queues
  <1>5. IOInv(w)'
    BY <1>1, <1>2, <1>3 DEF Goes, IOInv, IOSection, Busy, SameOwner
  <1> QED
    BY <1>1, <1>4, <1>5, QuietKeeps

LEMMA FinishTryKeeps ==
    ASSUME Structure, NEW w \in IOs, FinishTry(w)
    PROVE  Structure'
  <1> PICK c \in Conns : c = io[w].conn
    BY FinishTryDoes
  <1>1. /\ io[w].pc = "finish" /\ Types' /\ Busy(w) /\ IOInv(w) /\ ~conn[c].closed
        /\ UNCHANGED <<queues, sub, cmp, acc, sock, backlog>>
    BY FinishTryDoes DEF Structure, Busy, IOInv
  <1>2. ~Released(c)' /\ conn[c].ioidx = w
    BY <1>1, BusyConn DEF queues, Released, Pooled, Taken
  <1>3. OnlyConn(c) /\ SameOwner(c) /\ SameBuffers(c)
    BY FinishTryDoes DEF OnlyConn, SameOwner, SameBuffers
  <1>4. \/ Returns(w) /\ SameLock(c)
        \/ Goes(w, "fin_drain") /\ conn[c].lock = 0 /\ conn'[c].lock = 1
    BY FinishTryDoes DEF SameLock
  <1>5. Quiet(w)
    BY <1>1, <1>3, <1>4 DEF Quiet, Goes, Returns, IOSection, queues
  <1>6. conn[c].lock = 0 => \A s \in Submitters : ~(SubSection(s)' /\ sub'[s].conn = c)
    BY <1>1, LockFree DEF SubSection
  <1>7. IOInv(w)'
    BY <1>1, <1>2, <1>3, <1>4, <1>6
       DEF Goes, Returns, IOInv, IOSection, Busy, SameOwner, SameBuffers
  <1> QED
    BY <1>1, <1>5, <1>7, QuietKeeps

LEMMA FinishDrainKeeps ==
    ASSUME Structure, Counting, NEW w \in IOs, FinishDrain(w)
    PROVE  Structure'
  <1> PICK c \in Conns : c = io[w].conn
    BY FinishDrainDoes
  <1>1. /\ io[w].pc = "fin_drain" /\ Types' /\ Busy(w) /\ IOInv(w) /\ ~conn[c].closed
        /\ UNCHANGED <<empty_connections, sub, acc, backlog>> /\ Goes(w, "fin_end")
    BY FinishDrainDoes DEF Structure, Busy, IOInv
  <1>2. ~Released(c) /\ ~Released(c)' /\ conn[c].ioidx = w
    BY <1>1, BusyConn DEF Released, Pooled, Taken
  <1>3. /\ OnlyConn(c) /\ SameLock(c) /\ conn'[c].closed /\ conn'[c].send_queue = <<>>
        /\ conn'[c].fd = conn[c].fd /\ conn'[c].ioidx = conn[c].ioidx
        /\ conn'[c].submitidx = conn[c].submitidx /\ conn'[c].computeidx = conn[c].computeidx
        /\ conn'[c].sendbuf = conn[c].sendbuf
    BY FinishDrainDoes
  <1>4. conn'[c].processed = conn'[c].sent + Count(conn'[c].sendbuf)
    <2>1. /\ conn'[c].sent = conn[c].sent + Len(conn[c].send_queue)
          /\ conn'[c].processed = conn[c].processed
      BY FinishDrainDoes
    <2>2. conn[c].processed = conn[c].sent + Len(conn[c].send_queue) + Count(conn[c].sendbuf)
      BY <1>1 DEF Counting, CountInv
    <2> QED
      BY <1>3, <2>1, <2>2
  <1>5. \A s \in Submitters : sub[s].conn = c => sub[s].pc = "try" /\ SubmitInv(s)
    <2> SUFFICES ASSUME NEW s \in Submitters, sub[s].conn = c
                 PROVE  sub[s].pc = "try" /\ SubmitInv(s)
      OBVIOUS
    <2>1. SubmitInv(s) /\ sub[s] \in SubType /\ c # NULL
      BY Constants DEF Structure, Types
    <2>2. ~SubSection(s)
      BY <1>1 DEF IOInv, IOSection
    <2> QED
      BY <1>1, <2>1, <2>2 DEF SubmitInv, SubSection, SubType
  <1>6. HandlerOnly(w)
    <2>1. Inj(empty_connections)'
      BY <1>1 DEF Structure, ListenInv, Inj
    <2>2. \A k \in Clients : sock'[k].link = sock[k].link \/ (~conn[c].closed /\ k = conn[c].fd)
      <3>1. OnlySock(conn[c].fd)
        BY FinishDrainDoes
      <3> QED
        BY <1>1, <3>1 DEF OnlySock
    <2> QED
      BY <1>1, <1>3, <2>1, <2>2 DEF HandlerOnly, Goes, Pooled
  <1>7. SessionInv(c)'
    BY <1>1, <1>2, <1>3 DEF Structure, SessionInv
  <1>8. LockInv(c)'
    BY <1>1 DEF LockInv, IOSection, Goes
  <1>9. IOInv(w)'
    BY <1>1, <1>2, <1>3, <1>4, <1>5 DEF Goes, IOInv, IOSection, SubSection, Busy, SameLock
  <1>10. \A s \in Submitters : sub[s].conn = c => SubmitInv(s)'
    BY <1>1, <1>2, <1>3, <1>5 DEF SubmitInv, SubSection
  <1> QED
    BY <1>1, <1>6, <1>7, <1>8, <1>9, <1>10, HandlerKeeps

\* No buffer of a session is away.
LEMMA NoneAway ==
    ASSUME Structure, Ownership, Counting, NEW c \in Conns, ~Released(c),
           conn[c].received = conn[c].processed
    PROVE  /\ InFlight(c) = {}
           /\ \A s \in Submitters : sub[s].conn = c => sub[s].pc \notin {"try", "put"}
  <1>1. InFlight(c) = {}
    <2>1. conn[c].received = conn[c].processed + Cardinality(InFlight(c))
      BY DEF Counting, CountInv
    <2>2. conn[c].received \in Nat /\ conn[c].processed \in Nat
      BY DEF Structure, Types, ConnType
    <2>3. IsFiniteSet(InFlight(c))
      BY Constants, FS_Subset DEF InFlight
    <2>4. Cardinality(InFlight(c)) \in Nat
      BY <2>3, FS_CardinalityType
    <2>5. Cardinality(InFlight(c)) = 0
      BY <2>1, <2>2, <2>4
    <2> QED
      BY <2>3, <2>5, FS_EmptySet
  <1>2. ASSUME NEW s \in Submitters, sub[s].conn = c, sub[s].pc \in {"try", "put"}
        PROVE  FALSE
    <2> PICK b \in Buffers : b = sub[s].buff
      BY <1>2 DEF Structure, SubmitInv
    <2>1. buf[b].conn = c
      BY <1>2 DEF Ownership, BufferInv
    <2>2. b \in InFlight(c)
      BY <1>2, <2>1 DEF InFlight
    <2> QED
      BY <1>1, <2>2
  <1> QED
    BY <1>1, <1>2

LEMMA FinishEndKeeps ==
    ASSUME Structure, Ownership, Counting, NEW w \in IOs, FinishEnd(w)
    PROVE  Structure'
  <1> PICK c \in Conns : c = io[w].conn
    BY FinishEndDoes
  <1>1. /\ io[w].pc = "fin_end" /\ Types' /\ Busy(w) /\ IOInv(w) /\ conn[c].closed
        /\ UNCHANGED <<sub, acc, sock, backlog>> /\ Returns(w)
    BY FinishEndDoes DEF Structure, Busy, IOInv
  <1>2. ~Released(c) /\ conn[c].ioidx = w /\ SessionInv(c)
    BY <1>1, BusyConn DEF Structure
  <1>3. CASE NoneInFlight(c) /\ UNCHANGED conn /\ empty_connections' = Append(empty_connections, c)
    <2>1. conn[c].sendbuf = NULL /\ conn[c].received = conn[c].processed
      <3>1. conn[c].sent \in Nat /\ conn[c].received \in Nat /\ conn[c].processed \in Nat
        BY DEF Structure, Types, ConnType
      <3>2. conn[c].processed = conn[c].sent + Count(conn[c].sendbuf)
        BY <1>1 DEF IOInv
      <3>3. conn[c].sendbuf # NULL => conn[c].sent < conn[c].received
        BY <1>1 DEF Counting, CountInv
      <3> QED
        BY <1>3, <3>1, <3>2, <3>3 DEF NoneInFlight, Count
    <2>2. \A s \in Submitters : sub[s].conn # c
      BY <1>1, <1>2, <2>1, NoneAway DEF IOInv
    <2>3. /\ Inj(empty_connections)'
          /\ \A d \in Conns : Pooled(d)' <=> Pooled(d) \/ d = c
      <3>1. empty_connections \in Seq(Conns) /\ Inj(empty_connections)
        BY DEF Structure, Types, ListenInv
      <3>2. c \notin Elems(empty_connections)
        BY <1>2 DEF Released, Pooled
      <3>3. /\ Elems(Append(empty_connections, c)) = Elems(empty_connections) \cup {c}
            /\ Inj(Append(empty_connections, c))
        BY <3>1, <3>2, AppendElems
      <3> QED
        BY <1>3, <3>3 DEF Pooled, Inj, Elems
    <2>4. ~io[w].in
      BY <1>1, <2>1 DEF IOInv
    <2>5. HandlerOnly(w)
      BY <1>1, <1>3, <2>3 DEF HandlerOnly, OnlyConn, Returns
    <2>6. Released(c)'
      BY <2>3 DEF Released
    <2>7. SessionInv(c)'
      BY <1>1, <1>2, <1>3, <2>1, <2>6 DEF SessionInv
    <2>8. LockInv(c)'
      BY <2>6 DEF LockInv
    <2>9. IOInv(w)'
      BY <1>1, <2>4 DEF Returns, IOInv, IOSection, Busy
    <2> QED
      BY <1>1, <2>2, <2>5, <2>7, <2>8, <2>9, HandlerKeeps
  <1>4. CASE /\ OnlyConn(c) /\ SameOwner(c) /\ SameBuffers(c) /\ conn'[c].lock = 0
             /\ UNCHANGED empty_connections
    <2>1. ~Released(c)'
      BY <1>1, <1>2, <1>4 DEF Released, Pooled, Taken
    <2>2. Quiet(w)
      BY <1>1, <1>4 DEF Quiet, Returns, IOSection
    <2>3. IOInv(w)'
      BY <1>1, <1>2, <1>4, <2>1 DEF Returns, IOInv, IOSection, Busy, SameOwner, SameBuffers
    <2> QED
      BY <1>1, <2>2, <2>3, QuietKeeps
  <1> QED
    BY <1>3, <1>4, FinishEndDoes

----------------------------------------------------------------------------
\* epoll_wait and the dispatch of its events: nothing changes but the thread

\* What such a step changes.
PollOnly(w) ==
    /\ UNCHANGED <<conn, empty_connections, sub, acc, sock, backlog>>
    /\ \A v \in IOs \ {w} : io'[v] = io[v]
    /\ ~Busy(w)

LEMMA PollKeeps ==
    ASSUME Structure, Types', NEW w \in IOs, PollOnly(w), IOInv(w)', EventInv(w)'
    PROVE  Structure'
  <1>1. \A d \in Conns : (Pooled(d)' <=> Pooled(d)) /\ (Released(d)' <=> Released(d))
    BY DEF PollOnly, Pooled, Released, Taken
  <1>2. \A a \in Acceptors : AcceptInv(a)'
    BY <1>1 DEF PollOnly, Structure, AcceptInv, Pooled, IsOpen
  <1>3. ListenInv'
    BY DEF PollOnly, Structure, ListenInv, Inj
  <1>4. ASSUME NEW c \in Conns PROVE SessionInv(c)' /\ LockInv(c)'
    <2>1. SessionInv(c) /\ LockInv(c)
      BY DEF Structure
    <2>2. SessionInv(c)'
      BY <1>1, <2>1 DEF PollOnly, SessionInv, IsOpen
    <2>3. \A v \in IOs : IOSection(v) => IOSection(v)' /\ io'[v].conn = io[v].conn
      BY DEF PollOnly, IOSection, Busy
    <2>4. LockInv(c)'
      BY <1>1, <2>1, <2>3 DEF PollOnly, LockInv, SubSection
    <2> QED
      BY <2>2, <2>4
  <1>5. ASSUME NEW v \in IOs \ {w} PROVE IOInv(v)' /\ EventInv(v)'
    <2>1. IOInv(v) /\ EventInv(v) /\ io'[v] = io[v]
      BY DEF Structure, PollOnly
    <2>2. io[v].conn \in Conns \cup {NULL} /\ \A e \in io[v].events : e.conn \in Conns
      BY DEF Structure, Types, IOType, EventType
    <2>3. IOInv(v)'
      <3>1. CASE Busy(v)
        <4> PICK d \in Conns : d = io[v].conn
          BY <2>1, <3>1 DEF IOInv
        <4> QED
          BY <1>1, <2>1 DEF PollOnly, IOInv, IOSection, SubSection, Busy
      <3>2. CASE ~Busy(v)
        BY <2>1, <3>2 DEF IOInv, IOSection, Busy
      <3> QED
        BY <3>1, <3>2
    <2>4. EventInv(v)'
      BY <1>1, <2>1, <2>2 DEF PollOnly, EventInv, Busy
    <2> QED
      BY <2>3, <2>4
  <1>6. \A s \in Submitters : SubmitInv(s)'
    <2> SUFFICES ASSUME NEW s \in Submitters PROVE SubmitInv(s)'
      OBVIOUS
    <2>1. SubmitInv(s) /\ sub[s].conn \in Conns \cup {NULL}
      BY DEF Structure, Types, SubType
    <2>2. CASE sub[s].conn = NULL
      BY <2>1, <2>2 DEF PollOnly, SubmitInv, SubSection
    <2>3. CASE sub[s].conn # NULL
      <3> PICK d \in Conns : d = sub[s].conn
        BY <2>1, <2>3
      <3> QED
        BY <1>1, <2>1 DEF PollOnly, SubmitInv, SubSection
    <2> QED
      BY <2>1, <2>2, <2>3
  <1> QED
    BY <1>2, <1>3, <1>4, <1>5, <1>6 DEF Structure

LEMMA EpollWaitKeeps ==
    ASSUME Structure, Harmless, NEW w \in IOs, EpollWait(w)
    PROVE  Structure'
  <1>1. /\ io[w].pc = "wait" /\ Types'
        /\ UNCHANGED <<conn, buf, queues, sub, cmp, acc, sock, backlog, life>>
        /\ \A v \in IOs \ {w} : io'[v] = io[v]
        /\ io'[w].pc = "dispatch" /\ io'[w].in = io[w].in /\ io'[w].conn = io[w].conn
    BY EpollWaitDoes
  <1>2. PollOnly(w)
    BY <1>1 DEF PollOnly, queues, Busy
  <1>3. IOInv(w)'
    BY <1>1 DEF IOInv, IOSection, Busy
  <1>4. ASSUME NEW e \in io'[w].events
        PROVE  /\ conn[e.conn].ioidx = w /\ ~Released(e.conn)' /\ ~conn[e.conn].closed
               /\ \A f \in io'[w].events : f.conn = e.conn => f = e
               /\ e.err => Readahead = 0
    <2>1. \A f \in io'[w].events :
            /\ f.conn \in Conns /\ f = Event(f.conn)
            /\ conn[f.conn].ioidx = w /\ Registered(f.conn)
      BY EpollWaitDoes
    <2> PICK d \in Conns : d = e.conn
      BY <2>1
    <2>2. conn[d].ioidx = w /\ ~conn[d].closed /\ ~Taken(d) /\ Registered(d)
      BY <2>1 DEF Registered
    <2>3. ~Pooled(d)
      BY <2>2 DEF Structure, SessionInv
    <2>4. ~Released(d)'
      BY <1>1, <2>2, <2>3 DEF Released, Pooled, Taken, queues
    <2>5. \A f \in io'[w].events : f.conn = d => f = e
      BY <2>1
    <2>6. e.err => Readahead = 0
      <3>1. e.err = sock[conn[d].fd].err
        BY <2>1 DEF Event
      <3> QED
        BY <2>2, <3>1 DEF Harmless
    <2> QED
      BY <2>2, <2>4, <2>5, <2>6
  <1>5. EventInv(w)'
    BY <1>1, <1>4 DEF EventInv, Busy
  <1> QED
    BY <1>1, <1>2, <1>3, <1>5, PollKeeps

LEMMA DispatchKeeps ==
    ASSUME Structure, NEW w \in IOs, Dispatch(w)
    PROVE  Structure'
  <1>1. /\ io[w].pc = "dispatch" /\ Types'
        /\ UNCHANGED <<conn, buf, queues, sub, cmp, acc, sock, backlog>>
        /\ \A v \in IOs \ {w} : io'[v] = io[v]
    BY DispatchDoes
  <1>2. PollOnly(w) /\ \A d \in Conns : Released(d)' <=> Released(d)
    BY <1>1 DEF PollOnly, queues, Busy, Released, Pooled, Taken
  <1>3. EventInv(w) /\ \A e \in io[w].events : e.conn \in Conns
    BY DEF Structure, Types, IOType, EventType
  <1>4. CASE io'[w].pc = "wait" /\ io'[w].events = io[w].events
    <2>1. IOInv(w)'
      BY <1>4 DEF IOInv, IOSection, Busy
    <2>2. EventInv(w)'
      BY <1>1, <1>2, <1>3, <1>4 DEF EventInv, Busy
    <2> QED
      BY <1>1, <1>2, <2>1, <2>2, PollKeeps
  <1>5. ASSUME NEW e \in io[w].events, e \in EventType, io'[w].pc = Handlers(e).first,
               io'[w].in = Handlers(e).in, io'[w].conn = e.conn,
               io'[w].events = io[w].events \ {e}
        PROVE  Structure'
    <2> PICK d \in Conns : d = e.conn
      BY <1>3
    <2>1. conn[d].ioidx = w /\ ~Released(d)' /\ ~conn[d].closed /\ conn' = conn
      BY <1>1, <1>2, <1>3 DEF EventInv
    <2>2. \/ io'[w].pc = "finish" /\ ~io'[w].in /\ e.err
          \/ io'[w].pc = "resp"
          \/ io'[w].pc = "req" /\ ~io'[w].in
      BY <1>5 DEF Handlers
    <2>3. e.err => Readahead = 0
      BY <1>3 DEF EventInv
    <2>4. IOInv(w)'
      BY <1>5, <2>1, <2>2, <2>3 DEF IOInv, IOSection, Busy
    <2>5. EventInv(w)'
      <3> SUFFICES ASSUME NEW f \in io[w].events \ {e}
                   PROVE  /\ conn'[f.conn].ioidx = w /\ ~Released(f.conn)' /\ ~conn'[f.conn].closed
                          /\ ~(Busy(w)' /\ io'[w].conn = f.conn)
                          /\ \A g \in io[w].events \ {e} : g.conn = f.conn => g = f
                          /\ f.err => Readahead = 0
        BY <1>5 DEF EventInv
      <3>1. /\ f.conn \in Conns /\ conn[f.conn].ioidx = w /\ ~Released(f.conn)
            /\ ~conn[f.conn].closed
            /\ \A g \in io[w].events : g.conn = f.conn => g = f
        BY <1>3 DEF EventInv
      <3>2. f.err => Readahead = 0
        BY <1>3 DEF EventInv
      <3>3. f.conn # e.conn
        BY <3>1
      <3>4. ~Released(f.conn)'
        BY <1>2, <3>1
      <3> QED
        BY <1>5, <2>1, <3>1, <3>2, <3>3, <3>4
    <2> QED
      BY <1>1, <1>2, <2>4, <2>5, PollKeeps
  <1> QED
    BY <1>4, <1>5, DispatchDoes

----------------------------------------------------------------------------
\* Submit threads

\* What a step of a submit thread may change outside its thread and session.
SubmitterOnly(s, c) ==
    /\ OnlyConn(c) /\ SameOwner(c) /\ OnlySub(s)
    /\ sub[s].conn \in {c, NULL} /\ sub'[s].conn \in {c, NULL}
    /\ UNCHANGED <<io, acc, sock, backlog>>
    /\ Inj(empty_connections)'
    /\ \A d \in Conns \ {c} : Pooled(d)' <=> Pooled(d)
    /\ Pooled(c)' => conn[c].closed

LEMMA SubmitterKeeps ==
    ASSUME Structure, Types', NEW s \in Submitters, NEW c \in Conns, SubmitterOnly(s, c),
           ~Released(c), conn[c].submitidx = s, SessionInv(c)', LockInv(c)', SubmitInv(s)',
           \A w \in IOs : Busy(w) /\ io[w].conn = c => IOInv(w)'
    PROVE  Structure'
  <1>1. \A d \in Conns \ {c} : conn'[d] = conn[d] /\ (Released(d)' <=> Released(d))
    BY DEF SubmitterOnly, OnlyConn, Released, Taken
  <1>2. /\ conn'[c].fd = conn[c].fd /\ conn'[c].closed = conn[c].closed
        /\ conn'[c].ioidx = conn[c].ioidx /\ conn'[c].submitidx = conn[c].submitidx
    BY DEF SubmitterOnly, SameOwner
  <1>3. \A d \in Conns : conn'[d].closed = conn[d].closed /\ (conn'[d].fd = conn[d].fd)
    BY <1>1, <1>2
  <1>4. ASSUME NEW a \in Acceptors
        PROVE  AcceptInv(a)'
    <2>1. AcceptInv(a) /\ acc' = acc /\ acc[a].conn \in Conns \cup {NULL} /\ sock' = sock
      BY DEF SubmitterOnly, Structure, Types, AccType
    <2>2. acc[a].conn # c
      BY DEF Released, Taken
    <2>3. CASE acc[a].conn = NULL
      BY <1>3, <2>1, <2>3 DEF AcceptInv, IsOpen
    <2>4. CASE acc[a].conn # NULL
      <3> PICK d \in Conns \ {c} : d = acc[a].conn
        BY <2>1, <2>2, <2>4
      <3>1. Pooled(d)' <=> Pooled(d)
        BY DEF SubmitterOnly
      <3>2. ~Pooled(d)
        BY <2>1, <2>4 DEF AcceptInv, Pooled
      <3> QED
        BY <1>3, <2>1, <3>1, <3>2 DEF AcceptInv, IsOpen
    <2> QED
      BY <2>3, <2>4
  <1>5. ListenInv'
    BY DEF SubmitterOnly, Structure, ListenInv
  <1>6. ASSUME NEW d \in Conns
        PROVE  SessionInv(d)' /\ LockInv(d)'
    <2>1. CASE d = c
      BY <2>1
    <2>2. CASE d # c
      <3>1. conn'[d] = conn[d] /\ (Released(d)' <=> Released(d)) /\ (Pooled(d)' <=> Pooled(d))
        BY <1>1, <2>2 DEF SubmitterOnly
      <3>2. SessionInv(d) /\ LockInv(d) /\ io' = io /\ sock' = sock
        BY DEF Structure, SubmitterOnly
      <3>3. SessionInv(d)'
        BY <1>3, <3>1, <3>2 DEF SessionInv, IsOpen
      <3>4. \A t \in Submitters : SubSection(t) /\ sub[t].conn = d => sub'[t] = sub[t]
        BY <2>2, Constants DEF SubmitterOnly, OnlySub
      <3>5. LockInv(d)'
        BY <3>1, <3>2, <3>4 DEF LockInv, IOSection, SubSection
      <3> QED
        BY <3>3, <3>5
    <2> QED
      BY <2>1, <2>2
  <1>7. ASSUME NEW w \in IOs
        PROVE  IOInv(w)' /\ EventInv(w)'
    <2>1. IOInv(w) /\ EventInv(w) /\ io' = io
      BY DEF Structure, SubmitterOnly
    <2>2. IOInv(w)'
      <3>1. CASE ~Busy(w)
        BY <2>1, <3>1 DEF IOInv, IOSection, Busy
      <3>2. CASE Busy(w) /\ io[w].conn = c
        BY <3>2
      <3>3. CASE Busy(w) /\ io[w].conn # c
        <4> PICK d \in Conns \ {c} : d = io[w].conn
          BY <3>3, BusyConn
        <4>1. conn'[d] = conn[d] /\ (Released(d)' <=> Released(d))
          BY <1>1
        <4>2. \A t \in Submitters : sub'[t].conn = d => sub'[t] = sub[t]
          BY Constants DEF SubmitterOnly, OnlySub
        <4> QED
          BY <2>1, <4>1, <4>2 DEF IOInv, IOSection, SubSection, Busy
      <3> QED
        BY <3>1, <3>2, <3>3
    <2>3. ASSUME NEW e \in io[w].events
          PROVE  conn'[e.conn].ioidx = w /\ ~Released(e.conn)' /\ ~conn'[e.conn].closed
      <3>1. /\ e.conn \in Conns /\ conn[e.conn].ioidx = w /\ ~Released(e.conn)
            /\ ~conn[e.conn].closed
        BY <2>1 DEF Structure, EventInv, Types, IOType, EventType
      <3>2. CASE e.conn = c
        <4>1. ~Pooled(c)'
          BY <3>1, <3>2 DEF SubmitterOnly
        <4>2. ~Released(c)'
          BY <4>1 DEF SubmitterOnly, Released, Taken
        <4> QED
          BY <1>2, <3>1, <3>2, <4>2
      <3>3. CASE e.conn # c
        BY <1>1, <3>1, <3>3
      <3> QED
        BY <3>2, <3>3
    <2>4. EventInv(w)'
      BY <2>1, <2>3 DEF EventInv, Busy
    <2> QED
      BY <2>2, <2>4
  <1>8. ASSUME NEW t \in Submitters
        PROVE  SubmitInv(t)'
    <2>1. CASE t = s
      BY <2>1
    <2>2. CASE t # s
      <3>1. sub'[t] = sub[t] /\ SubmitInv(t) /\ sub[t].conn \in Conns \cup {NULL}
        BY <2>2 DEF SubmitterOnly, OnlySub, Structure, Types, SubType
      <3>2. CASE sub[t].conn = NULL
        BY <3>1, <3>2 DEF SubmitInv, SubSection
      <3>3. CASE sub[t].conn # NULL
        <4> PICK d \in Conns : d = sub[t].conn
          BY <3>1, <3>3
        <4>1. d # c
          BY <2>2, <3>1, <3>3 DEF SubmitInv
        <4>2. conn'[d] = conn[d] /\ (Released(d)' <=> Released(d))
          BY <1>1, <4>1
        <4> QED
          BY <3>1, <4>2 DEF SubmitInv, SubSection
      <3> QED
        BY <3>1, <3>2, <3>3
    <2> QED
      BY <2>1, <2>2
  <1> QED
    BY <1>4, <1>5, <1>6, <1>7, <1>8 DEF Structure

\* A step that closes and releases nothing, and keeps the lock, takes it when
\* it is free, or gives it back.
SubmitQuiet(s, c) ==
    /\ OnlyConn(c) /\ SameOwner(c) /\ OnlySub(s)
    /\ conn'[c].recvbuf = conn[c].recvbuf /\ conn'[c].sendbuf = conn[c].sendbuf
    /\ conn[c].closed => conn'[c].send_queue = conn[c].send_queue
    /\ sub[s].conn \in {c, NULL} /\ sub'[s].conn \in {c, NULL}
    /\ UNCHANGED <<io, acc, sock, backlog, empty_connections>>
    /\ \/ SameLock(c) /\ (SubSection(s)' <=> SubSection(s)) /\ (SubSection(s)' => sub'[s].conn = c)
       \/ conn'[c].lock = 0 /\ SubSection(s)
       \/ conn[c].lock = 0 /\ conn'[c].lock = 1 /\ SubSection(s)' /\ sub'[s].conn = c
    /\ sub'[s].conn = c => sub'[s].pc = "try" \/ SubSection(s) \/ SubSection(s)'
    /\ SameCounts(c) \/ SubSection(s)

LEMMA SubmitQuietKeeps ==
    ASSUME Structure, Types', NEW s \in Submitters, NEW c \in Conns, SubmitQuiet(s, c),
           ~Released(c), conn[c].submitidx = s, SubmitInv(s)'
    PROVE  Structure'
  <1>1. SessionInv(c) /\ LockInv(c) /\ SubmitInv(s)
    BY DEF Structure
  <1>2. /\ conn'[c].fd = conn[c].fd /\ conn'[c].closed = conn[c].closed
        /\ conn'[c].ioidx = conn[c].ioidx /\ conn'[c].submitidx = conn[c].submitidx
        /\ conn'[c].computeidx = conn[c].computeidx
    BY DEF SubmitQuiet, SameOwner
  <1>3. \A d \in Conns : (Pooled(d)' <=> Pooled(d)) /\ (Released(d)' <=> Released(d))
    BY DEF SubmitQuiet, Pooled, Released, Taken
  <1>4. SubmitterOnly(s, c)
    <2>1. Inj(empty_connections)' /\ ~Pooled(c)'
      BY <1>3 DEF Structure, ListenInv, SubmitQuiet, Inj, Released
    <2> QED
      BY <1>3, <2>1 DEF SubmitQuiet, SubmitterOnly
  <1>5. SessionInv(c)'
    BY <1>1, <1>2, <1>3 DEF SubmitQuiet, OnlyConn, SessionInv, IsOpen
  <1>6. sub[s].conn = NULL => ~SubSection(s)
    BY <1>1 DEF SubmitInv, SubSection
  <1>7. LockInv(c)'
    <2> SUFFICES ASSUME conn'[c].lock = 1
                 PROVE  \/ \E v \in IOs : IOSection(v)' /\ io'[v].conn = c
                        \/ \E t \in Submitters : SubSection(t)' /\ sub'[t].conn = c
      BY DEF LockInv
    <2>1. CASE SubSection(s)' /\ sub'[s].conn = c
      BY <2>1
    <2>2. CASE SameLock(c) /\ ~SubSection(s)
      <3>1. \/ \E v \in IOs : IOSection(v) /\ io[v].conn = c
            \/ \E t \in Submitters : SubSection(t) /\ sub[t].conn = c
        BY <1>1, <2>2 DEF LockInv, SameLock
      <3>2. CASE \E v \in IOs : IOSection(v) /\ io[v].conn = c
        BY <3>2 DEF SubmitQuiet, IOSection
      <3>3. CASE \E t \in Submitters : SubSection(t) /\ sub[t].conn = c
        BY <2>2, <3>3 DEF SubmitQuiet, OnlySub, SubSection
      <3> QED
        BY <3>1, <3>2, <3>3
    <2> QED
      BY <2>1, <2>2 DEF SubmitQuiet
  <1>8. ASSUME NEW w \in IOs, Busy(w), io[w].conn = c
        PROVE  IOInv(w)'
    <2>1. IOInv(w) /\ io' = io
      BY DEF Structure, SubmitQuiet
    <2>2. CASE ~IOSection(w)
      BY <1>2, <1>3, <1>8, <2>1, <2>2 DEF SubmitQuiet, IOInv, IOSection, Busy
    <2>3. CASE IOSection(w)
      <3>1. /\ conn[c].lock = 1
            /\ \A t \in Submitters : ~(SubSection(t) /\ sub[t].conn = c)
        BY <1>8, <2>1, <2>3 DEF IOInv
      <3>2. SameLock(c) /\ ~SubSection(s) /\ ~SubSection(s)'
        BY <1>6, <3>1 DEF SubmitQuiet
      <3>3. \A t \in Submitters : ~(SubSection(t)' /\ sub'[t].conn = c)
        BY <3>1, <3>2 DEF SubmitQuiet, OnlySub, SubSection
      <3>4. io[w].pc = "fin_end" =>
              /\ conn[c].closed
              /\ conn'[c].processed = conn'[c].sent + Count(conn[c].sendbuf)
              /\ \A t \in Submitters : sub'[t].conn = c => sub'[t].pc = "try"
        BY <1>8, <2>1, <3>2 DEF SubmitQuiet, OnlySub, IOInv, SameCounts
      <3> QED
        BY <1>2, <1>3, <1>8, <2>1, <3>1, <3>2, <3>3, <3>4
           DEF SubmitQuiet, IOInv, IOSection, Busy, SameLock
    <2> QED
      BY <2>2, <2>3
  <1> QED
    BY <1>4, <1>5, <1>7, <1>8, SubmitterKeeps

LEMMA SubmitGetKeeps ==
    ASSUME Structure, Ownership, NEW s \in Submitters, SubmitGet(s)
    PROVE  Structure'
  <1> PICK b \in Buffers : b = Head(submitter_inbox[s])
    BY SubmitGetDoes
  <1>1. /\ sub[s].pc = "get" /\ submitter_inbox[s] # <<>> /\ Types'
        /\ UNCHANGED <<conn, empty_connections, io, acc, sock, backlog>>
        /\ OnlySub(s) /\ sub'[s].pc = "try" /\ sub'[s].buff = b /\ sub'[s].conn = buf[b].conn
    BY SubmitGetDoes
  <1>2. AtSubmitter(b, s)
    <2>1. submitter_inbox[s] \in Seq(Buffers)
      BY DEF Structure, Types
    <2>2. b \in Elems(submitter_inbox[s])
      BY <1>1, <2>1, TailElems
    <2> QED
      BY <2>2 DEF AtSubmitter
  <1> PICK c \in Conns : c = buf[b].conn
    BY <1>2 DEF Ownership, BufferInv, Pipelined
  <1>3. ~Released(c) /\ conn[c].submitidx = s
    BY <1>2 DEF Ownership, BufferInv, Pipelined
  <1>4. sub[s].conn = NULL
    BY <1>1 DEF Structure, SubmitInv
  <1>5. SubmitQuiet(s, c)
    BY <1>1, <1>4 DEF SubmitQuiet, OnlyConn, SameOwner, SameLock, SameCounts, SubSection
  <1>6. ~Released(c)'
    BY <1>1, <1>3 DEF Released, Pooled, Taken
  <1>7. SubmitInv(s)'
    BY <1>1, <1>3, <1>6, Constants DEF SubmitInv, SubSection
  <1> QED
    BY <1>1, <1>3, <1>5, <1>7, SubmitQuietKeeps

\* The session of a submit thread between two calls of queue_get.
LEMMA SubmitterConn ==
    ASSUME Structure, NEW s \in Submitters, sub[s].pc # "get"
    PROVE  /\ sub[s].conn \in Conns /\ conn[sub[s].conn].submitidx = s
           /\ ~Released(sub[s].conn) /\ SubmitInv(s)
  BY DEF Structure, Types, SubType, SubmitInv

LEMMA SubmitTryKeeps ==
    ASSUME Structure, NEW s \in Submitters, SubmitTry(s)
    PROVE  Structure'
  <1> PICK c \in Conns : c = sub[s].conn
    BY SubmitTryDoes
  <1>1. /\ sub[s].pc = "try" /\ Types' /\ OnlySub(s)
        /\ UNCHANGED <<empty_connections, io, acc, sock, backlog>>
    BY SubmitTryDoes
  <1>2. conn[c].submitidx = s /\ ~Released(c) /\ SubmitInv(s)
    BY <1>1, SubmitterConn
  <1>3. ~Released(c)'
    BY <1>1, <1>2 DEF Released, Pooled, Taken
  <1>4. CASE UNCHANGED conn /\ sub'[s].pc = "get" /\ sub'[s].conn = NULL
    <2>1. SubmitQuiet(s, c)
      BY <1>1, <1>4, Constants DEF SubmitQuiet, OnlyConn, SameOwner, SameLock, SameCounts, SubSection
    <2>2. SubmitInv(s)'
      BY <1>4 DEF SubmitInv, SubSection
    <2> QED
      BY <1>1, <1>2, <2>1, <2>2, SubmitQuietKeeps
  <1>5. CASE /\ conn[c].lock = 0 /\ OnlyConn(c) /\ SameOwner(c) /\ SameBuffers(c)
             /\ SameCounts(c) /\ conn'[c].lock = 1
             /\ sub'[s].pc = "put" /\ sub'[s].buff = sub[s].buff /\ sub'[s].conn = c
    <2>1. SubmitQuiet(s, c)
      BY <1>1, <1>5 DEF SubmitQuiet, SameBuffers, SubSection
    <2>2. SubmitInv(s)'
      BY <1>1, <1>2, <1>3, <1>5, Constants DEF SubmitInv, SubSection, SameOwner
    <2> QED
      BY <1>1, <1>2, <2>1, <2>2, SubmitQuietKeeps
  <1> QED
    BY <1>4, <1>5, SubmitTryDoes

LEMMA SubmitPutKeeps ==
    ASSUME Structure, Ownership, Counting, NEW s \in Submitters, SubmitPut(s)
    PROVE  Structure'
  <1> PICK c \in Conns : c = sub[s].conn
    BY SubmitPutDoes
  <1>1. /\ sub[s].pc = "put" /\ Types' /\ OnlySub(s)
        /\ UNCHANGED <<empty_connections, io, acc, sock, backlog>>
        /\ OnlyConn(c) /\ SameOwner(c) /\ SameLock(c)
        /\ conn'[c].recvbuf = conn[c].recvbuf /\ conn'[c].sendbuf = conn[c].sendbuf
        /\ sub'[s].conn = c
    BY SubmitPutDoes
  <1>2. \/ conn[c].closed /\ conn'[c].send_queue = conn[c].send_queue /\ sub'[s].pc = "dispose"
        \/ ~conn[c].closed /\ sub'[s].pc = "arm"
    BY SubmitPutDoes
  <1>3. conn[c].submitidx = s /\ ~Released(c) /\ SubmitInv(s)
    BY <1>1, SubmitterConn
  <1>4. ~Released(c)'
    BY <1>1, <1>3 DEF Released, Pooled, Taken
  <1>5. SubmitQuiet(s, c)
    BY <1>1, <1>2 DEF SubmitQuiet, SubSection
  <1>6. conn[c].closed => conn[c].sendbuf = NULL
    <2>1. conn[c].closed /\ conn[c].sendbuf # NULL => conn[c].received = conn[c].processed
      BY DEF Counting, CountInv
    <2> QED
      BY <1>1, <1>3, <2>1, NoneAway
  <1>7. SubmitInv(s)'
    BY <1>1, <1>2, <1>3, <1>4, <1>6, Constants DEF SubmitInv, SubSection, SameOwner, SameLock
  <1> QED
    BY <1>1, <1>3, <1>5, <1>7, SubmitQuietKeeps

LEMMA SubmitArmKeeps ==
    ASSUME Structure, NEW s \in Submitters, SubmitArm(s)
    PROVE  Structure'
  <1> PICK c \in Conns : c = sub[s].conn
    BY SubmitArmDoes
  <1>1. /\ sub[s].pc = "arm" /\ Types' /\ OnlySub(s)
        /\ UNCHANGED <<queues, io, acc, sock, backlog>>
        /\ OnlyConn(c) /\ SameOwner(c) /\ SameBuffers(c) /\ SameCounts(c) /\ SameLock(c)
        /\ sub'[s].pc = "unlock" /\ sub'[s].conn = c
    BY SubmitArmDoes
  <1>2. conn[c].submitidx = s /\ ~Released(c) /\ SubmitInv(s)
    BY <1>1, SubmitterConn
  <1>3. ~Released(c)'
    BY <1>1, <1>2 DEF queues, Released, Pooled, Taken
  <1>4. SubmitQuiet(s, c)
    BY <1>1 DEF queues, SubmitQuiet, SameBuffers, SubSection
  <1>5. SubmitInv(s)'
    BY <1>1, <1>2, <1>3, Constants DEF SubmitInv, SubSection, SameOwner, SameLock
  <1> QED
    BY <1>1, <1>2, <1>4, <1>5, SubmitQuietKeeps

LEMMA SubmitUnlockKeeps ==
    ASSUME Structure, NEW s \in Submitters, SubmitUnlock(s)
    PROVE  Structure'
  <1> PICK c \in Conns : c = sub[s].conn
    BY SubmitUnlockDoes
  <1>1. /\ Types' /\ OnlySub(s) /\ UNCHANGED <<queues, io, acc, sock, backlog>>
        /\ OnlyConn(c) /\ SameOwner(c) /\ SameBuffers(c) /\ SameCounts(c) /\ conn'[c].lock = 0
    BY SubmitUnlockDoes
  <1>2. \/ sub[s].pc = "unlock" /\ sub'[s].pc = "get" /\ sub'[s].conn = NULL
        \/ sub[s].pc = "dispose" /\ sub'[s].pc = "last" /\ sub'[s].conn = c
    BY SubmitUnlockDoes
  <1>3. conn[c].submitidx = s /\ ~Released(c) /\ SubmitInv(s)
    BY <1>2, SubmitterConn
  <1>4. ~Released(c)'
    BY <1>1, <1>3 DEF queues, Released, Pooled, Taken
  <1>5. SubmitQuiet(s, c)
    BY <1>1, <1>2 DEF queues, SubmitQuiet, SameBuffers, SubSection
  <1>6. SubmitInv(s)'
    BY <1>1, <1>2, <1>3, <1>4, Constants DEF SubmitInv, SubSection, SameOwner, SameBuffers
  <1> QED
    BY <1>1, <1>3, <1>5, <1>6, SubmitQuietKeeps

\* A submit thread releases a session only when no other thread has it.
LEMMA SubmitLastKeeps ==
    ASSUME Structure, Ownership, Counting, NEW s \in Submitters, SubmitLast(s)
    PROVE  Structure'
  <1> PICK c \in Conns : c = sub[s].conn
    BY SubmitLastDoes
  <1>1. /\ sub[s].pc = "last" /\ Types' /\ OnlySub(s)
        /\ UNCHANGED <<conn, io, acc, sock, backlog>>
        /\ sub'[s].pc = "get" /\ sub'[s].conn = NULL
    BY SubmitLastDoes
  <1>2. conn[c].submitidx = s /\ ~Released(c) /\ SubmitInv(s)
    BY <1>1, SubmitterConn
  <1>3. conn[c].closed /\ conn[c].sendbuf = NULL /\ SessionInv(c)
    BY <1>1, <1>2 DEF Structure, SubmitInv
  <1>4. SubmitInv(s)'
    BY <1>1 DEF SubmitInv, SubSection
  <1>5. CASE UNCHANGED empty_connections
    <2>1. SubmitQuiet(s, c)
      BY <1>1, <1>5, Constants DEF SubmitQuiet, OnlyConn, SameOwner, SameLock, SameCounts, SubSection
    <2> QED
      BY <1>1, <1>2, <1>4, <2>1, SubmitQuietKeeps
  <1>6. CASE LastInFlight(c) /\ empty_connections' = Append(empty_connections, c)
    <2>1. /\ Inj(empty_connections)'
          /\ \A d \in Conns : Pooled(d)' <=> Pooled(d) \/ d = c
      <3>1. empty_connections \in Seq(Conns) /\ Inj(empty_connections)
        BY DEF Structure, Types, ListenInv
      <3>2. c \notin Elems(empty_connections)
        BY <1>2 DEF Released, Pooled
      <3>3. /\ Elems(Append(empty_connections, c)) = Elems(empty_connections) \cup {c}
            /\ Inj(Append(empty_connections, c))
        BY <3>1, <3>2, AppendElems
      <3> QED
        BY <1>6, <3>3 DEF Pooled, Inj, Elems
    <2>2. SubmitterOnly(s, c)
      BY <1>1, <1>3, <2>1 DEF SubmitterOnly, OnlyConn, SameOwner
    <2>3. Released(c)'
      BY <2>1 DEF Released
    <2>4. SessionInv(c)' /\ LockInv(c)'
      BY <1>1, <1>3, <2>3 DEF SessionInv, LockInv
    <2>5. ASSUME NEW w \in IOs, Busy(w), io[w].conn = c
          PROVE  FALSE
      <3>1. IOInv(w)
        BY DEF Structure
      <3>2. io[w].pc = "fin_end"
        BY <1>3, <2>5, <3>1 DEF IOInv
      <3> QED
        BY <1>1, <2>5, <3>1, <3>2 DEF IOInv
    <2> QED
      BY <1>1, <1>2, <1>4, <2>2, <2>4, <2>5, SubmitterKeeps
  <1> QED
    BY <1>5, <1>6, SubmitLastDoes

----------------------------------------------------------------------------
\* Compute threads, and what changes no session, no IO and no submit thread

\* Such a step may change the state of sockets that no session and no accept
\* thread has, and an accept thread may wait.
OthersOnly ==
    /\ UNCHANGED <<conn, empty_connections, io, sub>>
    /\ \A a \in Acceptors : Waits(a)
    /\ \A k \in Clients : IsOpen(k) => IsOpen(k)'

LEMMA OthersKeep ==
    ASSUME Structure, Types', OthersOnly, ListenInv'
    PROVE  Structure'
  <1>1. \A d \in Conns : (Pooled(d)' <=> Pooled(d)) /\ (Released(d)' <=> Released(d))
    BY DEF OthersOnly, Waits, Pooled, Released, Taken
  <1>2. \A a \in Acceptors : AcceptInv(a)'
    <2> SUFFICES ASSUME NEW a \in Acceptors PROVE AcceptInv(a)'
      OBVIOUS
    <2>1. AcceptInv(a) /\ conn' = conn /\ \A b \in Acceptors : Waits(b)
      BY DEF Structure, OthersOnly
    <2>2. acc[a].conn # NULL => ~Pooled(acc[a].conn)'
      BY <2>1 DEF AcceptInv, Pooled, OthersOnly, Waits
    <2>3. acc[a].pc = "init" => IsOpen(acc[a].fd)'
      BY <2>1 DEF AcceptInv, OthersOnly, Waits
    <2>4. \A b \in Acceptors : acc'[b].pc = "init" => acc[b].pc = "init"
      BY <2>1 DEF Waits
    <2>5. /\ (acc'[a].pc \in {"wait", "get"}) <=> (acc[a].pc \in {"wait", "get"})
          /\ acc'[a].pc \in {"accept", "init"} => acc[a].pc \in {"accept", "init"}
      BY <2>1 DEF Waits
    <2>6. \A b \in Acceptors : acc'[b].conn = acc[b].conn /\ acc'[b].fd = acc[b].fd
      BY <2>1 DEF Waits
    <2> QED
      BY <2>1, <2>2, <2>3, <2>4, <2>5, <2>6 DEF AcceptInv
  <1>3. ASSUME NEW c \in Conns PROVE SessionInv(c)' /\ LockInv(c)'
    <2>1. SessionInv(c) /\ LockInv(c) /\ UNCHANGED <<conn, io, sub>>
      BY DEF Structure, OthersOnly
    <2>2. ~conn[c].closed => IsOpen(conn[c].fd)'
      BY <2>1 DEF SessionInv, OthersOnly
    <2> QED
      BY <1>1, <2>1, <2>2 DEF SessionInv, LockInv, IOSection, SubSection
  <1>4. ASSUME NEW w \in IOs PROVE IOInv(w)' /\ EventInv(w)'
    <2>1. IOInv(w) /\ EventInv(w) /\ UNCHANGED <<conn, io, sub>>
      BY DEF Structure, OthersOnly
    <2>2. \A e \in io[w].events : e.conn \in Conns
      BY DEF Structure, Types, IOType, EventType
    <2>3. IOInv(w)'
      BY <1>1, <2>1 DEF IOInv, IOSection, SubSection, Busy
    <2>4. EventInv(w)'
      BY <1>1, <2>1, <2>2 DEF EventInv, Busy
    <2> QED
      BY <2>3, <2>4
  <1>5. ASSUME NEW s \in Submitters PROVE SubmitInv(s)'
    <2>1. SubmitInv(s) /\ UNCHANGED <<conn, sub>> /\ sub[s].conn \in Conns \cup {NULL}
      BY DEF Structure, OthersOnly, Types, SubType
    <2> QED
      BY <1>1, <2>1 DEF SubmitInv, SubSection
  <1> QED
    BY <1>2, <1>3, <1>4, <1>5 DEF Structure

LEMMA ComputeKeeps ==
    ASSUME Structure, Ownership, NEW x \in Computes, ComputeGet(x) \/ ComputePut(x)
    PROVE  Structure'
  <1>1. Types' /\ UNCHANGED <<conn, empty_connections, io, sub, acc, sock, backlog>>
    <2>1. CASE ComputeGet(x)
      BY <2>1, ComputeGetDoes
    <2>2. CASE ComputePut(x)
      <3>1. cmp[x] \in Buffers
        BY <2>2 DEF Structure, Types, ComputePut
      <3>2. BufferInv(cmp[x])
        BY <3>1 DEF Ownership
      <3> QED
        BY <2>2, <3>2, ComputePutDoes
    <2> QED
      BY <2>1, <2>2
  <1>2. OthersOnly /\ ListenInv'
    BY <1>1 DEF OthersOnly, Waits, IsOpen, Structure, ListenInv, Inj
  <1> QED
    BY <1>1, <1>2, OthersKeep

LEMMA ClientKeeps ==
    ASSUME Structure, NEW k \in Clients, ClientStep(k) \/ ClientShutdown(k)
    PROVE  Structure'
  <1>1. CASE Connect(k)
    <2>1. /\ sock[k].link = "none" /\ Types' /\ UNCHANGED server /\ OnlySock(k)
          /\ sock'[k].link = "backlog" /\ backlog' = Append(backlog, k)
      BY <1>1, ConnectDoes
    <2>2. OthersOnly
      <3>1. \A j \in Clients : IsOpen(j) => IsOpen(j)'
        BY <2>1 DEF OnlySock, IsOpen
      <3> QED
        BY <2>1, <3>1 DEF OthersOnly, Waits, server, queues, threads
    <2>3. ListenInv'
      <3>1. backlog \in Seq(Clients) /\ Inj(backlog) /\ Inj(empty_connections)
        BY DEF Structure, Types, ListenInv
      <3>2. \A i \in DOMAIN backlog : backlog[i] \in Clients /\ sock[backlog[i]].link = "backlog"
        BY <3>1 DEF Structure, ListenInv
      <3>3. k \notin Elems(backlog)
        BY <2>1, <3>2 DEF Elems
      <3>4. Inj(Append(backlog, k))
        BY <3>1, <3>3, AppendElems
      <3>5. \A i \in DOMAIN backlog' : sock'[backlog'[i]].link = "backlog"
        <4> SUFFICES ASSUME NEW i \in DOMAIN backlog'
                     PROVE  sock'[backlog'[i]].link = "backlog"
          OBVIOUS
        <4>1. backlog'[i] = k \/ (i \in DOMAIN backlog /\ backlog'[i] = backlog[i])
          BY <2>1, <3>1
        <4>2. CASE backlog'[i] = k
          BY <2>1, <4>2
        <4>3. CASE backlog'[i] # k
          BY <2>1, <3>2, <4>1, <4>3 DEF OnlySock
        <4> QED
          BY <4>2, <4>3
      <3> QED
        BY <2>1, <3>1, <3>4, <3>5 DEF server, queues, ListenInv, Inj
    <2> QED
      BY <2>1, <2>2, <2>3, OthersKeep
  <1>2. CASE ClientWrite(k) \/ ClientRead(k) \/ ClientClose(k) \/ ClientShutdown(k)
    <2>1. Types' /\ UNCHANGED <<server, backlog>> /\ OnlySock(k) /\ sock'[k].link = sock[k].link
      <3>1. CASE ClientWrite(k)
        BY <3>1, ClientWriteDoes
      <3>2. CASE ClientRead(k)
        BY <3>2, ClientReadDoes
      <3>3. CASE ClientClose(k)
        BY <3>3, ClientCloseDoes
      <3>4. CASE ClientShutdown(k)
        BY <3>4, ClientShutdownDoes
      <3> QED
        BY <1>2, <3>1, <3>2, <3>3, <3>4
    <2>2. \A j \in Clients : sock'[j].link = sock[j].link
      BY <2>1 DEF OnlySock
    <2>3. OthersOnly
      BY <2>1, <2>2 DEF OthersOnly, Waits, server, queues, threads, IsOpen
    <2>4. ListenInv'
      <3>1. ListenInv /\ \A i \in DOMAIN backlog : backlog[i] \in Clients
        BY DEF Structure, Types
      <3>2. UNCHANGED <<empty_connections, backlog>>
        BY <2>1 DEF server, queues
      <3> QED
        BY <2>2, <3>1, <3>2 DEF ListenInv, Inj
    <2> QED
      BY <2>1, <2>3, <2>4, OthersKeep
  <1> QED
    BY <1>1, <1>2 DEF ClientStep

----------------------------------------------------------------------------
\* Accept threads

\* The session an accept thread has is no other thread's business.
LEMMA SessionsKeep ==
    ASSUME Structure, Types', NEW c \in Conns, Released(c), OnlyConn(c), UNCHANGED <<io, sub>>,
           \A d \in Conns \ {c} : (Released(d)' <=> Released(d)) /\ (Pooled(d)' => Pooled(d)),
           \A k \in Clients : IsOpen(k) => IsOpen(k)',
           conn'[c] = conn[c] \/ \A d \in Conns : ~conn[d].closed => conn[d].fd # conn'[c].fd,
           SessionInv(c)', LockInv(c)'
    PROVE  /\ \A d \in Conns : SessionInv(d)' /\ LockInv(d)'
           /\ \A w \in IOs : IOInv(w)' /\ EventInv(w)'
           /\ \A s \in Submitters : SubmitInv(s)'
  <1>1. ASSUME NEW d \in Conns PROVE SessionInv(d)' /\ LockInv(d)'
    <2>1. CASE d = c
      BY <2>1
    <2>2. CASE d # c
      <3>1. /\ conn'[d] = conn[d] /\ (Released(d)' <=> Released(d)) /\ (Pooled(d)' => Pooled(d))
            /\ SessionInv(d) /\ LockInv(d)
        BY <2>2 DEF OnlyConn, Structure
      <3>2. ~conn[d].closed => IsOpen(conn[d].fd)'
        BY <3>1 DEF SessionInv
      <3>3. ~conn[d].closed => \A f \in Conns : ~conn'[f].closed /\ conn'[f].fd = conn[d].fd => f = d
        <4> SUFFICES ASSUME ~conn[d].closed, NEW f \in Conns, ~conn'[f].closed,
                            conn'[f].fd = conn[d].fd
                     PROVE  f = d
          OBVIOUS
        <4>1. CASE f = c
          BY <2>2, <3>1, <4>1 DEF SessionInv
        <4>2. CASE f # c
          BY <3>1, <4>2 DEF SessionInv, OnlyConn
        <4> QED
          BY <4>1, <4>2
      <3>4. SessionInv(d)'
        BY <3>1, <3>2, <3>3 DEF SessionInv
      <3>5. LockInv(d)'
        BY <3>1 DEF LockInv, IOSection, SubSection
      <3> QED
        BY <3>4, <3>5
    <2> QED
      BY <2>1, <2>2
  <1>2. ASSUME NEW w \in IOs PROVE IOInv(w)' /\ EventInv(w)'
    <2>1. IOInv(w) /\ EventInv(w)
      BY DEF Structure
    <2>2. IOInv(w)'
      <3>1. CASE Busy(w)
        <4> PICK d \in Conns \ {c} : d = io[w].conn
          BY <3>1, BusyConn
        <4>1. conn'[d] = conn[d] /\ (Released(d)' <=> Released(d))
          BY DEF OnlyConn
        <4> QED
          BY <2>1, <4>1 DEF IOInv, IOSection, SubSection, Busy
      <3>2. CASE ~Busy(w)
        BY <2>1, <3>2 DEF IOInv, IOSection, Busy
      <3> QED
        BY <3>1, <3>2
    <2>3. \A e \in io[w].events : e.conn \in Conns \ {c}
      BY <2>1 DEF Structure, EventInv, Types, IOType, EventType
    <2>4. \A e \in io[w].events : conn'[e.conn] = conn[e.conn] /\ ~Released(e.conn)'
      BY <2>1, <2>3 DEF OnlyConn, EventInv
    <2>5. EventInv(w)'
      BY <2>1, <2>4 DEF EventInv, Busy
    <2> QED
      BY <2>2, <2>5
  <1>3. ASSUME NEW s \in Submitters PROVE SubmitInv(s)'
    <2>1. SubmitInv(s) /\ sub[s].conn \in Conns \cup {NULL}
      BY DEF Structure, Types, SubType
    <2>2. CASE sub[s].conn = NULL
      BY <2>1, <2>2 DEF SubmitInv, SubSection
    <2>3. CASE sub[s].conn # NULL
      <3> PICK d \in Conns \ {c} : d = sub[s].conn
        BY <2>1, <2>3 DEF SubmitInv
      <3>1. conn'[d] = conn[d] /\ (Released(d)' <=> Released(d))
        BY DEF OnlyConn
      <3> QED
        BY <2>1, <3>1 DEF SubmitInv, SubSection
    <2> QED
      BY <2>2, <2>3
  <1> QED
    BY <1>1, <1>2, <1>3

\* What an accept thread leaves alone.
LEMMA OtherAcceptors ==
    ASSUME Structure, NEW a \in Acceptors, OnlyAcc(a), NEW b \in Acceptors \ {a},
           \A d \in Conns : d = acc[b].conn => conn'[d] = conn[d] /\ ~Pooled(d)',
           \A k \in Clients : IsOpen(k) => IsOpen(k)',
           acc'[a].conn = NULL \/ acc'[a].conn # acc[b].conn,
           acc[b].pc = "init" =>
             /\ \A d \in Conns : ~conn'[d].closed => conn'[d].fd # acc[b].fd
             /\ ~(acc'[a].pc = "init" /\ acc'[a].fd = acc[b].fd)
    PROVE  AcceptInv(b)'
  <1>1. AcceptInv(b) /\ acc'[b] = acc[b] /\ acc[b].conn \in Conns \cup {NULL}
    BY DEF Structure, OnlyAcc, Types, AccType
  <1>2. \A e \in Acceptors : acc'[e] = acc[e] \/ e = a
    BY DEF OnlyAcc
  <1>3. acc[b].pc = "init" =>
          /\ acc[b].fd \in Clients /\ IsOpen(acc[b].fd)'
          /\ \A e \in Acceptors : acc'[e].pc = "init" /\ acc'[e].fd = acc[b].fd => e = b
    BY <1>1, <1>2 DEF AcceptInv
  <1>4. CASE acc[b].conn = NULL
    BY <1>1, <1>3, <1>4 DEF AcceptInv
  <1>5. CASE acc[b].conn # NULL
    <2> PICK d \in Conns : d = acc[b].conn
      BY <1>1, <1>5
    <2>1. conn'[d] = conn[d] /\ ~Pooled(d)'
      OBVIOUS
    <2>2. \A e \in Acceptors : acc'[e].conn = d => e = b
      BY <1>1, <1>2, <1>5 DEF AcceptInv
    <2> QED
      BY <1>1, <1>3, <1>5, <2>1, <2>2 DEF AcceptInv
  <1> QED
    BY <1>4, <1>5

LEMMA AcceptGetKeeps ==
    ASSUME Structure, NEW a \in Acceptors, AcceptGet(a)
    PROVE  Structure'
  <1> PICK c \in Conns : c = Head(empty_connections)
    BY AcceptGetDoes
  <1>1. /\ acc[a].pc = "get" /\ empty_connections # <<>> /\ Types'
        /\ UNCHANGED <<conn, io, sub, sock, backlog>>
        /\ empty_connections' = Tail(empty_connections)
        /\ OnlyAcc(a) /\ acc'[a].pc = "accept" /\ acc'[a].conn = c
    BY AcceptGetDoes
  <1>2. empty_connections \in Seq(Conns) /\ Inj(empty_connections) /\ AcceptInv(a)
    BY DEF Structure, Types, ListenInv
  <1>3. Inj(empty_connections)' /\ Pooled(c) /\ \A d \in Conns : Pooled(d)' <=> Pooled(d) /\ d # c
    <2>1. /\ Elems(empty_connections) = Elems(Tail(empty_connections)) \cup {c}
          /\ Inj(Tail(empty_connections)) /\ c \notin Elems(Tail(empty_connections))
      BY <1>1, <1>2, TailElems
    <2> QED
      BY <1>1, <2>1 DEF Pooled, Inj, Elems
  <1>4. \A b \in Acceptors : acc[b].conn # c
    BY <1>3, Constants DEF Structure, AcceptInv
  <1>5. \A d \in Conns : Released(d)' <=> Released(d)
    <2> SUFFICES ASSUME NEW d \in Conns PROVE Released(d)' <=> Released(d)
      OBVIOUS
    <2>1. CASE d = c
      BY <1>1, <1>3, <2>1 DEF Released, Taken
    <2>2. CASE d # c
      <3>1. acc[a].conn # d /\ acc'[a].conn # d
        BY <1>1, <1>2, <2>2, Constants DEF AcceptInv
      <3>2. Taken(d)' <=> Taken(d)
        BY <1>1, <3>1 DEF Taken, OnlyAcc
      <3> QED
        BY <1>3, <2>2, <3>2 DEF Released
    <2> QED
      BY <2>1, <2>2
  <1>6. AcceptInv(a)'
    <2>1. conn[c].closed
      BY <1>3 DEF Structure, SessionInv
    <2>2. ~Pooled(c)'
      BY <1>3
    <2>3. \A b \in Acceptors : acc'[b].conn = c => b = a
      BY <1>1, <1>4 DEF OnlyAcc
    <2> QED
      BY <1>1, <2>1, <2>2, <2>3, Constants DEF AcceptInv
  <1>7. ASSUME NEW b \in Acceptors \ {a} PROVE AcceptInv(b)'
    <2>1. AcceptInv(b)
      BY DEF Structure
    <2>2. \A d \in Conns : d = acc[b].conn => conn'[d] = conn[d] /\ ~Pooled(d)'
      BY <1>1, <1>3, <2>1, Constants DEF AcceptInv, Pooled
    <2>3. acc'[a].conn # acc[b].conn /\ acc'[a].pc # "init"
      BY <1>1, <1>4
    <2>4. \A k \in Clients : IsOpen(k) => IsOpen(k)'
      BY <1>1 DEF IsOpen
    <2>5. acc[b].pc = "init" => \A d \in Conns : ~conn'[d].closed => conn'[d].fd # acc[b].fd
      BY <1>1, <2>1 DEF AcceptInv
    <2> QED
      BY <1>1, <2>2, <2>3, <2>4, <2>5, OtherAcceptors
  <1>8. ListenInv'
    BY <1>1, <1>3 DEF Structure, ListenInv, Inj
  <1>9. SessionInv(c)' /\ LockInv(c)'
    <2>1. Released(c)' /\ SessionInv(c) /\ Released(c) /\ ~Pooled(c)'
      BY <1>3, <1>5 DEF Structure, Released
    <2> QED
      BY <1>1, <2>1 DEF SessionInv, LockInv, IsOpen
  <1>10. /\ \A d \in Conns : SessionInv(d)' /\ LockInv(d)'
         /\ \A w \in IOs : IOInv(w)' /\ EventInv(w)'
         /\ \A s \in Submitters : SubmitInv(s)'
    <2>1. Released(c) /\ OnlyConn(c) /\ \A k \in Clients : IsOpen(k) => IsOpen(k)'
      BY <1>1, <1>3 DEF Released, OnlyConn, IsOpen
    <2> QED
      BY <1>1, <1>3, <1>5, <1>9, <2>1, SessionsKeep
  <1> QED
    BY <1>1, <1>6, <1>7, <1>8, <1>10 DEF Structure

LEMMA AcceptFdKeeps ==
    ASSUME Structure, NEW a \in Acceptors, AcceptFd(a)
    PROVE  Structure'
  <1> PICK k \in Clients : k = Head(backlog)
    BY AcceptFdDoes
  <1>1. /\ acc[a].pc = "accept" /\ backlog # <<>> /\ Types'
        /\ UNCHANGED <<conn, queues, io, sub>> /\ backlog' = Tail(backlog)
        /\ OnlyAcc(a) /\ acc'[a].pc = "init" /\ acc'[a].conn = acc[a].conn /\ acc'[a].fd = k
        /\ OnlySock(k) /\ sock'[k].link = "open"
    BY AcceptFdDoes
  <1>2. /\ backlog \in Seq(Clients) /\ Inj(backlog) /\ Inj(empty_connections) /\ AcceptInv(a)
        /\ acc[a].conn \in Conns \cup {NULL} /\ SessionInv(acc[a].conn)
    BY <1>1 DEF Structure, Types, ListenInv, AccType, AcceptInv
  <1>3. /\ Inj(Tail(backlog)) /\ Elems(backlog) = Elems(Tail(backlog)) \cup {k}
        /\ k \notin Elems(Tail(backlog)) /\ Tail(backlog) \in Seq(Clients)
    BY <1>1, <1>2, TailElems
  <1>4. \A j \in Elems(backlog) : sock[j].link = "backlog"
    BY DEF Structure, ListenInv, Elems
  <1>5. ~IsOpen(k)
    BY <1>3, <1>4 DEF IsOpen
  <1>6. \A j \in Clients : IsOpen(j) => IsOpen(j)'
    BY <1>1 DEF OnlySock, IsOpen
  <1>7. \A d \in Conns : (Pooled(d)' <=> Pooled(d)) /\ (Released(d)' <=> Released(d))
    BY <1>1 DEF queues, Pooled, Released, Taken, OnlyAcc
  <1> PICK c \in Conns : c = acc[a].conn
    BY <1>1, <1>2 DEF AcceptInv
  <1>8. AcceptInv(a)'
    <2>1. ~Pooled(c)' /\ conn'[c].closed /\ \A b \in Acceptors : acc'[b].conn = c => b = a
      BY <1>1, <1>2, <1>7, Constants DEF AcceptInv, OnlyAcc
    <2>2. \A d \in Conns : ~conn'[d].closed => conn'[d].fd # k
      BY <1>1, <1>5 DEF Structure, SessionInv
    <2>3. \A b \in Acceptors : acc'[b].pc = "init" /\ acc'[b].fd = k => b = a
      BY <1>1, <1>5 DEF Structure, AcceptInv, OnlyAcc
    <2>4. IsOpen(k)'
      BY <1>1 DEF IsOpen
    <2> QED
      BY <1>1, <2>1, <2>2, <2>3, <2>4, Constants DEF AcceptInv
  <1>9. ASSUME NEW b \in Acceptors \ {a} PROVE AcceptInv(b)'
    <2>1. AcceptInv(b)
      BY DEF Structure
    <2>2. \A d \in Conns : d = acc[b].conn => conn'[d] = conn[d] /\ ~Pooled(d)'
      BY <1>1, <1>7, <2>1, Constants DEF AcceptInv, Pooled
    <2>3. acc'[a].conn # acc[b].conn
      BY <1>1, <1>2, <2>1, Constants DEF AcceptInv
    <2>4. acc[b].pc = "init" => /\ \A d \in Conns : ~conn'[d].closed => conn'[d].fd # acc[b].fd
                                /\ acc[b].fd # k
      BY <1>1, <1>5, <2>1 DEF AcceptInv
    <2> QED
      BY <1>1, <1>6, <2>2, <2>3, <2>4, OtherAcceptors
  <1>10. ListenInv'
    <2>1. \A j \in Elems(backlog') : sock'[j].link = "backlog"
      BY <1>1, <1>3, <1>4 DEF OnlySock, Elems
    <2>2. Inj(backlog)' /\ Inj(empty_connections)'
      BY <1>1, <1>2, <1>3 DEF queues, Inj
    <2> QED
      BY <2>1, <2>2 DEF ListenInv, Elems
  <1>11. SessionInv(c)' /\ LockInv(c)'
    <2>1. SessionInv(c) /\ Released(c) /\ conn[c].closed
      BY <1>1, <1>2 DEF AcceptInv, Released, Taken
    <2> QED
      BY <1>1, <1>7, <2>1 DEF SessionInv, LockInv, IsOpen
  <1>12. /\ \A d \in Conns : SessionInv(d)' /\ LockInv(d)'
         /\ \A w \in IOs : IOInv(w)' /\ EventInv(w)'
         /\ \A s \in Submitters : SubmitInv(s)'
    <2>1. Released(c) /\ OnlyConn(c)
      BY <1>1 DEF Released, Taken, OnlyConn
    <2> QED
      BY <1>1, <1>6, <1>7, <1>11, <2>1, SessionsKeep
  <1> QED
    BY <1>1, <1>8, <1>9, <1>10, <1>12 DEF Structure

LEMMA AcceptFailKeeps ==
    ASSUME Structure, NEW a \in Acceptors, AcceptFail(a)
    PROVE  Structure'
  <1>1. /\ acc[a].pc = "accept" /\ Types' /\ UNCHANGED <<conn, queues, io, sub, sock, backlog>>
        /\ OnlyAcc(a) /\ acc'[a].pc = "failed" /\ acc'[a].conn = acc[a].conn
    BY AcceptFailDoes
  <1>2. AcceptInv(a) /\ acc[a].conn \in Conns \cup {NULL}
    BY DEF Structure, Types, AccType
  <1> PICK c \in Conns : c = acc[a].conn
    BY <1>1, <1>2 DEF AcceptInv
  <1>3. \A d \in Conns : (Pooled(d)' <=> Pooled(d)) /\ (Released(d)' <=> Released(d))
    BY <1>1 DEF queues, Pooled, Released, Taken, OnlyAcc
  <1>4. \A j \in Clients : IsOpen(j) => IsOpen(j)'
    BY <1>1 DEF IsOpen
  <1>5. AcceptInv(a)'
    <2>1. ~Pooled(c)' /\ \A b \in Acceptors : acc'[b].conn = c => b = a
      BY <1>1, <1>2, <1>3, Constants DEF AcceptInv, OnlyAcc
    <2> QED
      BY <1>1, <2>1, Constants DEF AcceptInv
  <1>6. ASSUME NEW b \in Acceptors \ {a} PROVE AcceptInv(b)'
    <2>1. AcceptInv(b)
      BY DEF Structure
    <2>2. \A d \in Conns : d = acc[b].conn => conn'[d] = conn[d] /\ ~Pooled(d)'
      BY <1>1, <1>3, <2>1, Constants DEF AcceptInv, Pooled
    <2>3. acc'[a].conn # acc[b].conn
      BY <1>1, <1>2, <2>1, Constants DEF AcceptInv
    <2>4. acc[b].pc = "init" => \A d \in Conns : ~conn'[d].closed => conn'[d].fd # acc[b].fd
      BY <1>1, <2>1 DEF AcceptInv
    <2> QED
      BY <1>1, <1>4, <2>2, <2>3, <2>4, OtherAcceptors
  <1>7. ListenInv'
    BY <1>1 DEF queues, Structure, ListenInv, Inj
  <1>8. SessionInv(c)' /\ LockInv(c)'
    <2>1. SessionInv(c) /\ LockInv(c)
      BY DEF Structure
    <2> QED
      BY <1>1, <1>3, <2>1 DEF SessionInv, LockInv, IsOpen, IOSection, SubSection
  <1>9. /\ \A d \in Conns : SessionInv(d)' /\ LockInv(d)'
        /\ \A w \in IOs : IOInv(w)' /\ EventInv(w)'
        /\ \A s \in Submitters : SubmitInv(s)'
    <2>1. Released(c) /\ OnlyConn(c)
      BY <1>1 DEF Released, Taken, OnlyConn
    <2> QED
      BY <1>1, <1>3, <1>4, <1>8, <2>1, SessionsKeep
  <1> QED
    BY <1>1, <1>5, <1>6, <1>7, <1>9 DEF Structure

\* handle_accept shares the session it set up, or fails to and ends with it.
LEMMA AcceptInitKeeps ==
    ASSUME Structure, NEW a \in Acceptors, AcceptInit(a) \/ AcceptCtlFail(a)
    PROVE  Structure'
  <1> PICK c \in Conns : c = acc[a].conn
    BY AcceptInitDoes, AcceptCtlFailDoes
  <1> PICK k \in Clients : k = acc[a].fd
    BY AcceptInitDoes, AcceptCtlFailDoes
  <1>1. /\ acc[a].pc = "init" /\ Types' /\ UNCHANGED <<queues, io, sub, sock, backlog>>
        /\ OnlyConn(c) /\ Fresh(c, k) /\ OnlyAcc(a)
    BY AcceptInitDoes, AcceptCtlFailDoes
  <1>2. \/ acc'[a].pc = "wait" /\ acc'[a].conn = NULL
        \/ acc'[a].pc = "failed" /\ acc'[a].conn = c
    BY AcceptInitDoes, AcceptCtlFailDoes
  <1>3. /\ ~Pooled(c) /\ Released(c) /\ IsOpen(k)
        /\ \A b \in Acceptors : acc[b].conn = c => b = a
        /\ \A d \in Conns : ~conn[d].closed => conn[d].fd # k
        /\ \A b \in Acceptors : acc[b].pc = "init" /\ acc[b].fd = k => b = a
    BY <1>1, Constants DEF Structure, AcceptInv, Released, Taken
  <1>4. /\ \A d \in Conns : Pooled(d)' <=> Pooled(d)
        /\ \A d \in Conns \ {c} : Released(d)' <=> Released(d)
    <2>1. \A d \in Conns : Pooled(d)' <=> Pooled(d)
      BY <1>1 DEF queues, Pooled
    <2>2. ASSUME NEW d \in Conns \ {c} PROVE Taken(d)' <=> Taken(d)
      <3>1. acc[a].conn # d /\ acc'[a].conn # d
        BY <1>2, Constants
      <3> QED
        BY <1>1, <3>1 DEF Taken, OnlyAcc
    <2> QED
      BY <2>1, <2>2 DEF Released
  <1>5. \A j \in Clients : IsOpen(j) => IsOpen(j)'
    BY <1>1 DEF IsOpen
  <1>6. AcceptInv(a)'
    <2>1. ~Pooled(c)'
      BY <1>3, <1>4
    <2>2. \A b \in Acceptors : b # a => acc'[b].conn # c
      BY <1>1, <1>3 DEF OnlyAcc
    <2> QED
      BY <1>2, <2>1, <2>2, Constants DEF AcceptInv
  <1>7. ASSUME NEW b \in Acceptors \ {a} PROVE AcceptInv(b)'
    <2>1. AcceptInv(b) /\ acc[b].conn # c
      BY <1>3 DEF Structure
    <2>2. \A d \in Conns : d = acc[b].conn => conn'[d] = conn[d] /\ ~Pooled(d)'
      BY <1>1, <1>4, <2>1, Constants DEF AcceptInv, Pooled, OnlyConn
    <2>3. acc'[a].conn = NULL \/ acc'[a].conn # acc[b].conn
      BY <1>2, <2>1
    <2>4. acc[b].pc = "init" =>
            /\ \A d \in Conns : ~conn'[d].closed => conn'[d].fd # acc[b].fd
            /\ acc'[a].pc # "init"
      <3> SUFFICES ASSUME acc[b].pc = "init"
                   PROVE  /\ \A d \in Conns : ~conn'[d].closed => conn'[d].fd # acc[b].fd
                          /\ acc'[a].pc # "init"
        OBVIOUS
      <3>1. acc[b].fd # k
        BY <1>3
      <3>2. \A d \in Conns : conn'[d] = conn[d] \/ conn'[d].fd = k
        BY <1>1 DEF OnlyConn, Fresh
      <3> QED
        BY <1>2, <2>1, <3>1, <3>2 DEF AcceptInv
    <2> QED
      BY <1>1, <1>5, <2>2, <2>3, <2>4, OtherAcceptors
  <1>8. ListenInv'
    BY <1>1 DEF queues, Structure, ListenInv, Inj
  <1>9. SessionInv(c)' /\ LockInv(c)'
    <2>1. \A d \in Conns : ~conn'[d].closed /\ conn'[d].fd = k => d = c
      BY <1>1, <1>3 DEF OnlyConn
    <2>2. IsOpen(k)' /\ k \in Clients
      BY <1>3, <1>5
    <2>3. conn'[c].sendbuf = NULL
      BY <1>1, <1>3 DEF Fresh, Structure, SessionInv
    <2> QED
      BY <1>1, <1>3, <1>4, <2>1, <2>2, <2>3 DEF Fresh, SessionInv, LockInv
  <1>10. /\ \A d \in Conns : SessionInv(d)' /\ LockInv(d)'
         /\ \A w \in IOs : IOInv(w)' /\ EventInv(w)'
         /\ \A s \in Submitters : SubmitInv(s)'
    <2>1. conn'[c].fd = k
      BY <1>1 DEF Fresh
    <2> QED
      BY <1>1, <1>3, <1>4, <1>5, <1>9, <2>1, SessionsKeep
  <1> QED
    BY <1>1, <1>6, <1>7, <1>8, <1>10 DEF Structure

----------------------------------------------------------------------------
\* All steps

\* The steps that change only who has returned, and whether to.
LEMMA IdleKeeps ==
    ASSUME Structure, UNCHANGED <<conn, buf, queues, threads, sock, backlog>>
    PROVE  Structure'
  <1>1. Types'
    BY DEF Structure, Types, queues, threads
  <1>2. OthersOnly /\ ListenInv'
    BY DEF OthersOnly, Waits, queues, threads, IsOpen, Structure, ListenInv, Inj
  <1> QED
    BY <1>1, <1>2, OthersKeep

LEMMA AcceptWaitKeeps ==
    ASSUME Structure, NEW a \in Acceptors, AcceptWait(a) \/ AcceptMiss(a)
    PROVE  Structure'
  <1>1. /\ Types' /\ UNCHANGED <<conn, queues, io, sub, sock, backlog>>
        /\ \A b \in Acceptors : Waits(b)
    BY AcceptWaitDoes
  <1>2. OthersOnly /\ ListenInv'
    BY <1>1 DEF OthersOnly, queues, IsOpen, Structure, ListenInv, Inj
  <1> QED
    BY <1>1, <1>2, OthersKeep

LEMMA StructureStep ==
    ASSUME Structure, Ownership, Counting, Harmless, [Next]_vars
    PROVE  Structure'
  <1>1. ASSUME NEW a \in Acceptors, AcceptStep(a) PROVE Structure'
    BY <1>1, AcceptWaitKeeps, AcceptGetKeeps, AcceptFdKeeps, AcceptFailKeeps, AcceptInitKeeps,
       IdleKeeps DEF AcceptStep, AcceptIdle, IdleReturn
  <1>2. ASSUME NEW w \in IOs, IOStep(w) PROVE Structure'
    <2>1. CASE EpollWait(w) \/ Dispatch(w) \/ IOIdle(w)
      BY <2>1, EpollWaitKeeps, DispatchKeeps, IdleKeeps DEF IOIdle, IdleReturn
    <2>2. CASE RespTake(w) \/ Send(w) \/ RespSent(w) \/ RespLock(w) \/ RespUnlock(w)
      BY <2>2, RespTakeKeeps, SendKeeps, RespSentKeeps, RespLockKeeps, RespUnlockKeeps
    <2>3. CASE ReqTake(w) \/ Recv(w) \/ ReqLock(w) \/ ReqPut(w) \/ ReqUnlock(w)
      BY <2>3, ReqTakeKeeps, RecvKeeps, ReqLockKeeps, ReqPutKeeps, ReqUnlockKeeps
    <2>4. CASE FinishTry(w) \/ FinishDrain(w) \/ FinishEnd(w)
      BY <2>4, FinishTryKeeps, FinishDrainKeeps, FinishEndKeeps
    <2> QED
      BY <1>2, <2>1, <2>2, <2>3, <2>4 DEF IOStep
  <1>3. ASSUME NEW x \in Computes, ComputeStep(x) PROVE Structure'
    BY <1>3, ComputeKeeps, IdleKeeps DEF ComputeStep, ComputeIdle, IdleReturn
  <1>4. ASSUME NEW s \in Submitters, SubmitStep(s) PROVE Structure'
    BY <1>4, SubmitGetKeeps, SubmitTryKeeps, SubmitPutKeeps, SubmitArmKeeps, SubmitUnlockKeeps,
       SubmitLastKeeps, IdleKeeps DEF SubmitStep, SubmitIdle, IdleReturn
  <1>5. ASSUME NEW k \in Clients, ClientStep(k) \/ ClientShutdown(k) PROVE Structure'
    BY <1>5, ClientKeeps
  <1>6. CASE Stop \/ Over \/ UNCHANGED vars
    BY <1>6, IdleKeeps DEF Stop, Over, vars
  <1> QED
    BY <1>1, <1>2, <1>3, <1>4, <1>5, <1>6 DEF Next
=============================================================================

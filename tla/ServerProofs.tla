---------------------------- MODULE ServerProofs -----------------------------
(***************************************************************************)
(* The last part of ServerInvariant, Bytes: what has gone over a socket is *)
(* what the counters and buffers of its session say.  It tells which       *)
(* sessions can end with a response half sent, on which Structure depends; *)
(* with it the invariant is complete, and the properties of Server follow. *)
(***************************************************************************)
EXTENDS ServerOwnership

----------------------------------------------------------------------------
\* Messages of equal length, in bytes

LEMMA TimesMono ==
    ASSUME NEW m \in Nat, NEW n \in Nat, m <= n, NEW q \in Nat
    PROVE  m * q <= n * q
  OBVIOUS

LEMMA TimesNext ==
    ASSUME NEW m \in Nat, NEW q \in Nat
    PROVE  (m + 1) * q = m * q + q /\ m * q \in Nat
  OBVIOUS

LEMMA TimesLess ==
    ASSUME NEW m \in Nat, NEW n \in Nat, NEW q \in Nat \ {0}, m * q <= n * q
    PROVE  m <= n
  <1> SUFFICES ASSUME n + 1 <= m PROVE FALSE
    OBVIOUS
  <1>1. (n + 1) * q <= m * q
    BY TimesMono
  <1>2. (n + 1) * q = n * q + q
    BY TimesNext
  <1> DEFINE x == m * q
             y == n * q
  <1>3. x \in Nat /\ y \in Nat /\ y + q <= x /\ x <= y
    BY <1>1, <1>2, TimesNext
  <1> HIDE DEF x, y
  <1> QED
    BY <1>3

\* sent responses and x bytes of the next are no more than is due for the
\* requests received.
LEMMA WithinDue ==
    ASSUME NEW received \in Nat, NEW sent \in Nat, NEW q \in Nat, NEW p \in Nat,
           NEW a \in Nat, NEW x \in 0 .. p, sent <= received,
           x = 0 \/ sent + 1 <= received
    PROVE  (sent * p + x) * q <= (received * q + a) * p
  <1> DEFINE n == IF x = 0 THEN sent ELSE sent + 1
  <1>1. n \in Nat /\ n <= received
    OBVIOUS
  <1>2. sent * p + x <= n * p /\ sent * p + x \in Nat /\ n * p \in Nat
    BY TimesNext
  <1> HIDE DEF n
  <1>3. (sent * p + x) * q <= (n * p) * q
    BY <1>2, TimesMono
  <1>4. (n * p) * q = (n * q) * p
    BY <1>1
  <1>5. n * q <= received * q + a /\ n * q \in Nat /\ received * q + a \in Nat
    BY <1>1, TimesMono, TimesNext
  <1>6. (n * q) * p <= (received * q + a) * p
    BY <1>5, TimesMono
  <1> DEFINE r == (sent * p + x) * q
             s == (n * p) * q
             t == (received * q + a) * p
  <1>7. r \in Nat /\ s \in Nat /\ t \in Nat /\ r <= s /\ s <= t
    BY <1>2, <1>3, <1>4, <1>5, <1>6
  <1> HIDE DEF r, s, t
  <1>8. r <= t
    BY <1>7
  <1> QED
    BY <1>8 DEF r, t

\* A client whose next response is not complete is not through.
LEMMA Unanswered ==
    ASSUME NEW received \in Nat, NEW sent \in Nat, NEW q \in Nat \ {0}, NEW p \in Nat \ {0},
           NEW a \in Nat, NEW x \in Nat, x < p, sent + 1 <= received,
           NEW wrote \in Nat, received * q + a <= wrote,
           NEW got \in Nat, got <= sent * p + x
    PROVE  wrote * p # got * q
  <1>1. (sent + 1) * q <= received * q /\ received * q \in Nat /\ (sent + 1) * q \in Nat
    BY TimesMono, TimesNext
  <1>2. (sent + 1) * q <= wrote
    <2> DEFINE r == received * q
               s == (sent + 1) * q
    <2>1. r \in Nat /\ s \in Nat /\ s <= r /\ r + a <= wrote
      BY <1>1
    <2> HIDE DEF r, s
    <2>2. s <= wrote
      BY <2>1
    <2> QED
      BY <2>2 DEF s
  <1>3. ((sent + 1) * q) * p <= wrote * p
    BY <1>1, <1>2, TimesMono
  <1>4. got + 1 <= (sent + 1) * p /\ (sent + 1) * p \in Nat
    <2>1. (sent + 1) * p = sent * p + p /\ sent * p \in Nat
      BY TimesNext
    <2> DEFINE r == sent * p
    <2>2. r \in Nat /\ got <= r + x /\ (sent + 1) * p = r + p
      BY <2>1
    <2> HIDE DEF r
    <2> QED
      BY <2>2
  <1>5. (got + 1) * q <= ((sent + 1) * p) * q
    BY <1>4, TimesMono
  <1>6. ((sent + 1) * p) * q = ((sent + 1) * q) * p
    OBVIOUS
  <1>7. (got + 1) * q = got * q + q
    BY TimesNext
  <1> DEFINE r == wrote * p
             s == got * q
             t == ((sent + 1) * q) * p
  <1>8. r \in Nat /\ s \in Nat /\ t \in Nat /\ t <= r /\ s + q <= t
    BY <1>1, <1>3, <1>5, <1>6, <1>7, TimesNext
  <1> HIDE DEF r, s, t
  <1>9. r # s
    BY <1>8
  <1> QED
    BY <1>9 DEF r, s

----------------------------------------------------------------------------
\* Sessions and their sockets

\* The bytes received and sent of the messages under way.
LEMMA WireTypes ==
    ASSUME Structure, Bytes, NEW c \in Conns, ~conn[c].closed
    PROVE  LET k == conn[c].fd
           IN  /\ k \in Clients /\ IsOpen(k)
               /\ conn[c].recvbuf \in Buffers \cup {NULL} /\ conn[c].sendbuf \in Buffers \cup {NULL}
               /\ ReqBytes(conn[c].recvbuf) \in 0 .. ReqLen
               /\ RespBytes(conn[c].sendbuf) \in 0 .. RespLen
               /\ conn[c].received \in Nat /\ conn[c].sent \in Nat
               /\ sock[k].wrote \in Nat /\ sock[k].got \in Nat /\ sock[k].consumed \in Nat
               /\ Len(sock[k].stream) \in Nat
  <1>1. conn[c] \in ConnType /\ SessionInv(c) /\ WireInv(c)
    BY DEF Structure, Types, Bytes
  <1>2. conn[c].fd \in Clients /\ IsOpen(conn[c].fd)
    BY <1>1 DEF SessionInv
  <1>3. sock[conn[c].fd] \in SockType
    BY <1>2 DEF Structure, Types
  <1>4. conn[c].recvbuf \in Buffers \cup {NULL} /\ conn[c].sendbuf \in Buffers \cup {NULL}
    BY <1>1 DEF ConnType
  <1>5. /\ conn[c].recvbuf # NULL => buf[conn[c].recvbuf].left \in 0 .. ReqLen
        /\ conn[c].sendbuf # NULL => buf[conn[c].sendbuf].left \in 0 .. RespLen
    BY <1>1 DEF WireInv
  <1>6. /\ ReqBytes(conn[c].recvbuf) \in 0 .. ReqLen
        /\ RespBytes(conn[c].sendbuf) \in 0 .. RespLen
    BY <1>5, Constants DEF ReqBytes, RespBytes
  <1>7. conn[c].received \in Nat /\ conn[c].sent \in Nat
    BY <1>1 DEF ConnType
  <1>8. /\ sock[conn[c].fd].wrote \in Nat /\ sock[conn[c].fd].got \in Nat
        /\ sock[conn[c].fd].consumed \in Nat /\ sock[conn[c].fd].stream \in Seq(Msg)
    BY <1>3 DEF SockType
  <1>9. Len(sock[conn[c].fd].stream) \in Nat
    BY <1>8
  <1> QED
    BY <1>2, <1>4, <1>6, <1>7, <1>8, <1>9

\* A response is sent only for a request received.
LEMMA SendingAnswers ==
    ASSUME Structure, Counting, NEW c \in Conns, ~conn[c].closed, ~Released(c)
    PROVE  /\ conn[c].sent <= conn[c].received
           /\ conn[c].sendbuf # NULL => conn[c].sent + 1 <= conn[c].received
           /\ conn[c].sendbuf # NULL /\ conn[c].recvbuf # NULL => Readahead # 0
  <1>1. /\ conn[c].received \in Nat /\ conn[c].processed \in Nat /\ conn[c].sent \in Nat
        /\ Len(conn[c].send_queue) \in Nat /\ Cardinality(InFlight(c)) \in Nat
    BY CountTypes
  <1>2. CountInv(c)
    BY DEF Counting
  <1>3. /\ conn[c].received = conn[c].processed + Cardinality(InFlight(c))
        /\ conn[c].processed = conn[c].sent + Len(conn[c].send_queue) + Count(conn[c].sendbuf)
        /\ conn[c].recvbuf # NULL => conn[c].received <= conn[c].sent + Readahead
    BY <1>2 DEF CountInv
  <1>4. conn[c].sendbuf # NULL => Count(conn[c].sendbuf) = 1
    BY DEF Count
  <1>5. conn[c].sendbuf = NULL => Count(conn[c].sendbuf) = 0
    BY DEF Count
  <1>6. /\ conn[c].sent <= conn[c].received
        /\ conn[c].sendbuf # NULL => conn[c].sent + 1 <= conn[c].received
    <2> DEFINE r == conn[c].received
               p == conn[c].processed
               s == conn[c].sent
               n == Len(conn[c].send_queue)
               f == Cardinality(InFlight(c))
               x == Count(conn[c].sendbuf)
    <2>1. r \in Nat /\ p \in Nat /\ s \in Nat /\ n \in Nat /\ f \in Nat
      BY <1>1
    <2>2. r = p + f /\ p = s + n + x /\ (x = 0 \/ x = 1)
      BY <1>3, <1>4, <1>5
    <2>3. conn[c].sendbuf # NULL => x = 1
      BY <1>4
    <2> HIDE DEF r, p, s, n, f, x
    <2>4. s <= r /\ (x = 1 => s + 1 <= r)
      BY <2>1, <2>2
    <2> QED
      BY <2>3, <2>4 DEF r, s
  <1>7. conn[c].sendbuf # NULL /\ conn[c].recvbuf # NULL => Readahead # 0
    <2>1. conn[c].recvbuf # NULL => conn[c].received <= conn[c].sent + Readahead
      BY <1>3
    <2>2. conn[c].received \in Nat /\ conn[c].sent \in Nat
      BY <1>1
    <2> QED
      BY <1>6, <2>1, <2>2
  <1> QED
    BY <1>6, <1>7

\* Only one IO thread is busy with a session.
LEMMA OneBusy ==
    ASSUME Structure, NEW v \in IOs, NEW w \in IOs, Busy(v), Busy(w), io[v].conn = io[w].conn
    PROVE  v = w
  BY BusyConn

\* A client that keeps the contract, or shuts down early, does not close while
\* a response is half sent.
LEMMA NotThrough ==
    ASSUME Structure, Counting, Bytes, NEW c \in Conns, ~conn[c].closed, ~Released(c),
           conn[c].sendbuf # NULL, NEW w \in IOs, Busy(w), io[w].conn = c, io[w].pc # "sent",
           "abort" \notin Closing
    PROVE  sock[conn[c].fd].peer # "closed"
  <1> DEFINE k == conn[c].fd
             b == conn[c].sendbuf
  <1>1. /\ k \in Clients /\ sock[k].link # "shut" /\ b \in Buffers
        /\ ReqBytes(conn[c].recvbuf) \in Nat /\ RespBytes(b) \in Nat
        /\ conn[c].received \in Nat /\ conn[c].sent \in Nat
        /\ sock[k].wrote \in Nat /\ sock[k].got \in Nat /\ Len(sock[k].stream) \in Nat
    BY WireTypes DEF IsOpen
  <1>2. WireInv(c) /\ SocketInv(k)
    BY <1>1 DEF Bytes
  <1>3. buf[b].left # 0
    <2> SUFFICES ASSUME buf[b].left = 0 PROVE FALSE
      OBVIOUS
    <2>1. PICK v \in IOs : io[v].pc = "sent" /\ io[v].conn = c
      BY <1>2 DEF WireInv
    <2>2. v = w
      BY <2>1, OneBusy DEF Busy
    <2> QED
      BY <2>1, <2>2
  <1>4. RespBytes(b) < RespLen
    <2>1. buf[b].left \in 0 .. RespLen
      BY <1>2 DEF WireInv
    <2> QED
      BY <1>3, <2>1, Constants DEF RespBytes
  <1>5. /\ conn[c].received * ReqLen + ReqBytes(conn[c].recvbuf) <= sock[k].wrote
        /\ sock[k].got <= conn[c].sent * RespLen + RespBytes(b)
    <2>1. /\ sock[k].consumed = conn[c].received * ReqLen + ReqBytes(conn[c].recvbuf)
          /\ Len(sock[k].stream) = conn[c].sent * RespLen + RespBytes(b)
      BY <1>2 DEF WireInv
    <2>2. sock[k].consumed <= sock[k].wrote /\ sock[k].got <= Len(sock[k].stream)
      BY <1>2 DEF SocketInv
    <2> QED
      BY <2>1, <2>2
  <1>6. conn[c].sent + 1 <= conn[c].received
    BY SendingAnswers
  <1>7. sock[k].wrote * RespLen # sock[k].got * ReqLen
    <2> DEFINE m == conn[c].received
               n == conn[c].sent
               x == RespBytes(b)
               a == ReqBytes(conn[c].recvbuf)
               u == sock[k].wrote
               g == sock[k].got
               q == ReqLen
               p == RespLen
    <2>1. /\ m \in Nat /\ n \in Nat /\ x \in Nat /\ a \in Nat /\ u \in Nat /\ g \in Nat
          /\ q \in Nat \ {0} /\ p \in Nat \ {0} /\ x < p /\ n + 1 <= m
          /\ m * q + a <= u /\ g <= n * p + x
      BY <1>1, <1>4, <1>5, <1>6, Constants
    <2> HIDE DEF m, n, x, a, u, g, q, p
    <2>2. u * p # g * q
      BY ONLY <2>1, Unanswered
    <2> QED
      BY <2>2 DEF u, p, g, q
  <1> QED
    BY <1>1, <1>2, <1>7 DEF SocketInv, AllAnswered

\* A session ends with a response half sent only when a client may reset the
\* connection, and then it reads one request at a time.
LEMMA EndsIdle ==
    ASSUME Structure, Counting, Bytes, NEW w \in IOs, NEW c \in Conns, io[w].conn = c,
           "abort" \notin Closing,
           \/ io[w].pc = "send" /\ SendFails(conn[c].fd)
           \/ io[w].pc = "recv" /\ RecvEnds(conn[c].fd)
    PROVE  /\ io[w].pc = "recv" /\ conn[c].sendbuf = NULL
           /\ sock[conn[c].fd].peer # "open"
  <1> DEFINE k == conn[c].fd
  <1>1. Busy(w) /\ IOInv(w) /\ ~Released(c)
    BY BusyConn DEF Busy, Structure
  <1>2. /\ ~conn[c].closed
        /\ io[w].pc = "send" => conn[c].sendbuf # NULL
        /\ io[w].pc = "recv" => conn[c].recvbuf # NULL
    BY <1>1 DEF IOInv
  <1>3. k \in Clients /\ IsOpen(k)
    BY <1>2, WireTypes
  <1>4. sock[k] \in SockType /\ SocketInv(k) /\ FillInv(c)
    BY <1>3 DEF Structure, Types, Bytes
  <1>5. conn[c].sendbuf # NULL => sock[k].peer # "closed"
    BY <1>1, <1>2, NotThrough
  <1>6. CASE io[w].pc = "send"
    BY <1>2, <1>3, <1>5, <1>6 DEF SendFails
  <1>7. CASE io[w].pc = "recv"
    <2>1. sock[k].peer # "open"
      BY <1>3, <1>7 DEF RecvEnds
    <2>2. conn[c].sendbuf = NULL
      <3> SUFFICES ASSUME conn[c].sendbuf # NULL PROVE FALSE
        OBVIOUS
      <3>1. Readahead # 0
        BY <1>1, <1>2, <1>7, SendingAnswers
      <3>2. sock[k].peer = "half"
        BY <1>4, <1>5, <2>1 DEF SockType
      <3>3. Closing # {}
        BY <1>4, <3>2 DEF SocketInv
      <3>4. PICK v \in IOs : io[v].pc \in {"resp", "send", "sent"} /\ io[v].conn = c
        BY <1>2, <1>4, <3>1, <3>3 DEF FillInv
      <3>5. v = w
        BY <1>1, <3>4, OneBusy DEF Busy
      <3> QED
        BY <1>7, <3>4, <3>5
    <2> QED
      BY <1>7, <2>1, <2>2
  <1> QED
    BY <1>6, <1>7

LEMMA HarmlessNow ==
    ASSUME Structure, Counting, Bytes, Orderly
    PROVE  Harmless
  <1>1. "abort" \in Closing => Readahead = 0
    BY DEF Orderly
  <1>2. ASSUME NEW w \in IOs, NEW c, c = io[w].conn
        PROVE  /\ io[w].pc = "send" /\ SendFails(conn[c].fd) => Readahead = 0
               /\ io[w].pc = "recv" /\ RecvEnds(conn[c].fd) /\ conn[c].sendbuf # NULL
                    => Readahead = 0
    <2>1. io[w].pc \in {"send", "recv"} => c \in Conns
      BY <1>2, BusyConn DEF Busy
    <2> QED
      BY <1>1, <1>2, <2>1, EndsIdle
  <1>3. ASSUME NEW c \in Conns, Registered(c), sock[conn[c].fd].err
        PROVE  Readahead = 0
    <2>1. conn[c].fd \in Clients /\ IsOpen(conn[c].fd)
      BY <1>3 DEF Registered, Structure, SessionInv
    <2>2. SocketInv(conn[c].fd)
      BY <2>1 DEF Bytes
    <2> QED
      BY <1>1, <1>3, <2>1, <2>2 DEF SocketInv, IsOpen
  <1> QED
    BY <1>2, <1>3 DEF Harmless

----------------------------------------------------------------------------
\* Handlers of an IO thread

\* Buffers of open sessions are used by nobody else.
LEMMA OwnBuffer ==
    ASSUME Ownership, NEW b \in Buffers, NEW p \in PlaceKinds, NEW i \in PlaceIds, At(b, p, i),
           NEW d \in Conns, ~conn[d].closed
    PROVE  /\ conn[d].recvbuf = b => p = "recvbuf" /\ i = d
           /\ conn[d].sendbuf = b => p = "sendbuf" /\ i = d
  <1>1. Located(b) /\ d \in PlaceIds /\ "recvbuf" \in PlaceKinds /\ "sendbuf" \in PlaceKinds
    BY DEF Ownership, PlaceIds, PlaceKinds
  <1>2. /\ conn[d].recvbuf = b => At(b, "recvbuf", d)
        /\ conn[d].sendbuf = b => At(b, "sendbuf", d)
    BY DEF At
  <1> QED
    BY <1>1, <1>2, OnePlace

\* What a handler may do to the wire fields of other sessions: nothing.
LEMMA HandlerBytes ==
    ASSUME Structure, Bytes, NEW w \in IOs, Busy(w), NEW c \in Conns, io[w].conn = c,
           OnlyConn(c), conn'[c].fd = conn[c].fd, io'[w].conn = c, UNCHANGED acc,
           \A v \in IOs \ {w} : io'[v] = io[v],
           \A d \in Conns \ {c} : ~conn[d].closed =>
             \A b \in Buffers : b \in {conn[d].recvbuf, conn[d].sendbuf} => buf'[b].left = buf[b].left,
           \A k \in Clients : \/ sock'[k] = sock[k]
                              \/ ~conn[c].closed /\ k = conn[c].fd /\ SocketInv(k)' /\ SamePeer(k),
           WireInv(c)', FillInv(c)', IOWireInv(w)'
    PROVE  Bytes'
  <1>1. conn[c].ioidx = w /\ ~Released(c)
    BY BusyConn
  <1>2. ASSUME NEW k \in Clients PROVE SocketInv(k)'
    <2>1. CASE sock'[k] = sock[k]
      <3>1. SocketInv(k)
        BY DEF Bytes
      <3> QED
        BY <2>1, <3>1 DEF SocketInv, AllAnswered
    <2> QED
      BY <2>1
  <1>3. ASSUME NEW d \in Conns \ {c} PROVE WireInv(d)' /\ FillInv(d)'
    <2>1. conn'[d] = conn[d] /\ WireInv(d) /\ FillInv(d)
      BY DEF OnlyConn, Bytes
    <2>2. \A v \in IOs : io[v].conn = d => io'[v] = io[v]
      OBVIOUS
    <2>3. FillInv(d)'
      BY <2>1, <2>2 DEF FillInv
    <2>4. CASE conn[d].closed
      BY <2>1, <2>3, <2>4 DEF WireInv
    <2>5. CASE ~conn[d].closed
      <3> DEFINE k == conn[d].fd
                 r == conn[d].recvbuf
                 s == conn[d].sendbuf
      <3>1. k \in Clients /\ r \in Buffers \cup {NULL} /\ s \in Buffers \cup {NULL}
        BY <2>5, WireTypes
      <3>2. ~(~conn[c].closed /\ k = conn[c].fd)
        BY <2>5 DEF Structure, SessionInv
      <3>3. sock'[k] = sock[k]
        BY <3>1, <3>2
      <3>4. /\ r # NULL => buf'[r].left = buf[r].left
            /\ s # NULL => buf'[s].left = buf[s].left
        BY <2>5, <3>1
      <3>5. ReqBytes(r)' = ReqBytes(r) /\ RespBytes(s)' = RespBytes(s)
        BY <2>1, <3>4 DEF ReqBytes, RespBytes
      <3>6. WireInv(d)'
        BY <2>1, <2>2, <2>5, <3>3, <3>4, <3>5 DEF WireInv
      <3> QED
        BY <2>3, <3>6
    <2> QED
      BY <2>4, <2>5
  <1>4. ASSUME NEW v \in IOs \ {w} PROVE IOWireInv(v)'
    <2>1. io'[v] = io[v] /\ IOWireInv(v) /\ IOInv(v)
      BY DEF Bytes, Structure
    <2>2. CASE ~Busy(v)
      BY <2>1, <2>2 DEF IOWireInv, Busy
    <2>3. CASE Busy(v)
      <3> PICK d \in Conns : d = io[v].conn
        BY <2>3, BusyConn
      <3>1. d # c /\ conn'[d] = conn[d]
        BY <2>3, OneBusy DEF OnlyConn
      <3>2. conn[d] \in ConnType
        BY DEF Structure, Types
      <3>3. /\ io[v].pc \in {"req_lock", "req_put"} =>
                 ~conn[d].closed /\ conn[d].recvbuf \in Buffers
            /\ io[v].pc = "sent" => ~conn[d].closed /\ conn[d].sendbuf \in Buffers
            /\ io[v].pc \in {"finish", "fin_drain"} => ~conn[d].closed
        BY <2>1, <2>3, <3>2 DEF IOInv, ConnType
      <3>4. /\ io[v].pc \in {"req_lock", "req_put"} => buf'[conn[d].recvbuf].left = 0
            /\ io[v].pc = "sent" => buf'[conn[d].sendbuf].left = 0
        BY <2>1, <3>1, <3>3 DEF IOWireInv
      <3>5. ~conn[d].closed => sock'[conn[d].fd].peer = sock[conn[d].fd].peer
        <4> SUFFICES ASSUME ~conn[d].closed
                     PROVE  sock'[conn[d].fd].peer = sock[conn[d].fd].peer
          OBVIOUS
        <4>1. conn[d].fd \in Clients
          BY WireTypes
        <4> QED
          BY <4>1 DEF SamePeer
      <3> QED
        BY <2>1, <3>1, <3>3, <3>4, <3>5 DEF IOWireInv
    <2> QED
      BY <2>2, <2>3
  <1> QED
    BY <1>2, <1>3, <1>4 DEF Bytes

\* The fields of a session that Bytes is about.
SameWire(c) ==
    /\ conn'[c].fd = conn[c].fd /\ conn'[c].closed = conn[c].closed
    /\ conn'[c].recvbuf = conn[c].recvbuf /\ conn'[c].sendbuf = conn[c].sendbuf
    /\ conn'[c].received = conn[c].received /\ conn'[c].sent = conn[c].sent

\* A handler that moves no byte.
LEMMA QuietBytes ==
    ASSUME Structure, Bytes, NEW w \in IOs, Busy(w), NEW c \in Conns, io[w].conn = c,
           OnlyConn(c), SameWire(c), Goes(w, io'[w].pc) \/ Returns(w), UNCHANGED <<buf, acc, sock>>,
           io'[w].pc \in {"req_lock", "req_put"} <=> io[w].pc \in {"req_lock", "req_put"},
           io'[w].pc = "sent" <=> io[w].pc = "sent",
           io'[w].pc \in {"finish", "fin_drain"} /\ "abort" \notin Closing =>
             \/ io[w].pc \in {"finish", "fin_drain"}
             \/ sock[conn[c].fd].peer # "open" /\ conn[c].sendbuf = NULL,
           Closing # {} /\ Readahead # 0 /\ ~conn[c].closed /\ conn[c].sendbuf # NULL
             /\ io[w].pc \in {"resp", "send", "sent"} => io'[w].pc \in {"resp", "send", "sent"}
    PROVE  Bytes'
  <1>1. /\ io'[w].conn = c /\ io'[w].events = io[w].events
        /\ \A v \in IOs \ {w} : io'[v] = io[v]
    BY DEF Goes, Returns
  <1>2. WireInv(c) /\ FillInv(c) /\ IOWireInv(w)
    BY DEF Bytes
  <1>3. \A v \in IOs : io[v].conn = c => io'[v].conn = c
    BY <1>1
  <1>4. \A v \in IOs : io'[v].pc \in {"req_lock", "req_put"} <=> io[v].pc \in {"req_lock", "req_put"}
    BY <1>1
  <1>5. \A v \in IOs : io'[v].pc = "sent" <=> io[v].pc = "sent"
    BY <1>1
  <1>6. WireInv(c)'
    BY <1>2, <1>3, <1>4, <1>5 DEF WireInv, SameWire, ReqBytes, RespBytes
  <1>7. FillInv(c)'
    BY <1>1, <1>2 DEF FillInv, SameWire
  <1>8. IOWireInv(w)'
    BY <1>1, <1>2 DEF IOWireInv, SameWire
  <1>9. conn'[c].fd = conn[c].fd
    BY DEF SameWire
  <1> QED
    BY <1>1, <1>6, <1>7, <1>8, <1>9, HandlerBytes

LEMMA LockBytes ==
    ASSUME Structure, Counting, Bytes, NEW w \in IOs,
           \/ RespLock(w) \/ RespUnlock(w) \/ ReqLock(w) \/ ReqUnlock(w)
           \/ FinishTry(w) \/ FinishEnd(w)
    PROVE  Bytes'
  <1> PICK c \in Conns : c = io[w].conn
    BY RespLockDoes, RespUnlockDoes, ReqLockDoes, ReqUnlockDoes, FinishTryDoes, FinishEndDoes
  <1>1. CASE RespLock(w)
    BY <1>1, RespLockDoes, QuietBytes
       DEF SameWire, SameOwner, SameBuffers, SameCounts, Goes, Busy, queues
  <1>2. CASE RespUnlock(w)
    BY <1>2, RespUnlockDoes, QuietBytes
       DEF SameWire, SameOwner, SameBuffers, SameCounts, Goes, Busy, queues
  <1>3. CASE ReqLock(w)
    BY <1>3, ReqLockDoes, QuietBytes
       DEF SameWire, SameOwner, SameBuffers, SameCounts, Goes, Busy, queues
  <1>4. CASE ReqUnlock(w)
    BY <1>4, ReqUnlockDoes, QuietBytes
       DEF SameWire, SameOwner, SameBuffers, SameCounts, Goes, Busy, queues
  <1>5. CASE FinishTry(w)
    <2>1. /\ io[w].pc = "finish" /\ Busy(w) /\ UNCHANGED <<buf, acc, sock>>
          /\ OnlyConn(c) /\ SameWire(c)
          /\ (Goes(w, io'[w].pc) /\ io'[w].pc = "fin_drain") \/ Returns(w)
      BY <1>5, FinishTryDoes
         DEF OnlyConn, SameWire, SameOwner, SameBuffers, SameCounts, Goes, Busy
    <2> QED
      BY <2>1, QuietBytes DEF Returns
  <1>6. CASE FinishEnd(w)
    <2>1. /\ io[w].pc = "fin_end" /\ Busy(w) /\ UNCHANGED <<buf, acc, sock>>
          /\ OnlyConn(c) /\ SameWire(c) /\ Returns(w)
      BY <1>6, FinishEndDoes
         DEF OnlyConn, SameWire, SameOwner, SameBuffers, SameCounts, Busy
    <2> QED
      BY <2>1, QuietBytes DEF Returns
  <1> QED
    BY <1>1, <1>2, <1>3, <1>4, <1>5, <1>6

\* The two directions of a session.
Receiving(c) ==
    LET r == conn[c].recvbuf
    IN  /\ sock[conn[c].fd].consumed = conn[c].received * ReqLen + ReqBytes(r)
        /\ r # NULL => buf[r].left \in 0 .. ReqLen
        /\ r # NULL /\ buf[r].left = 0 =>
             \E w \in IOs : io[w].pc \in {"req_lock", "req_put"} /\ io[w].conn = c
Sending(c) ==
    LET s == conn[c].sendbuf
    IN  /\ Len(sock[conn[c].fd].stream) = conn[c].sent * RespLen + RespBytes(s)
        /\ s # NULL => buf[s].left \in 0 .. RespLen
        /\ s # NULL /\ buf[s].left = 0 => \E w \in IOs : io[w].pc = "sent" /\ io[w].conn = c

LEMMA BothWays ==
    ASSUME NEW c \in Conns
    PROVE  /\ WireInv(c) <=> conn[c].closed \/ (Receiving(c) /\ Sending(c))
           /\ WireInv(c)' <=> conn'[c].closed \/ (Receiving(c)' /\ Sending(c)')
  BY DEF WireInv, Receiving, Sending

\* The direction that a handler does not deal with.
LEMMA ReceivingSame ==
    ASSUME NEW c \in Conns, Receiving(c), conn'[c].fd = conn[c].fd,
           conn'[c].recvbuf = conn[c].recvbuf, conn'[c].received = conn[c].received,
           sock'[conn[c].fd].consumed = sock[conn[c].fd].consumed,
           conn[c].recvbuf # NULL => buf'[conn[c].recvbuf].left = buf[conn[c].recvbuf].left,
           \A v \in IOs : io[v].pc \in {"req_lock", "req_put"} /\ io[v].conn = c => io'[v] = io[v]
    PROVE  Receiving(c)'
  <1> PICK r : r = conn[c].recvbuf
    OBVIOUS
  <1>1. conn'[c].recvbuf = r /\ (r # NULL => buf'[r].left = buf[r].left)
    OBVIOUS
  <1>2. ReqBytes(r)' = ReqBytes(r)
    BY <1>1 DEF ReqBytes
  <1> QED
    BY <1>1, <1>2 DEF Receiving

LEMMA SendingSame ==
    ASSUME NEW c \in Conns, Sending(c), conn'[c].fd = conn[c].fd,
           conn'[c].sendbuf = conn[c].sendbuf, conn'[c].sent = conn[c].sent,
           sock'[conn[c].fd].stream = sock[conn[c].fd].stream,
           conn[c].sendbuf # NULL => buf'[conn[c].sendbuf].left = buf[conn[c].sendbuf].left,
           \A v \in IOs : io[v].pc = "sent" /\ io[v].conn = c => io'[v] = io[v]
    PROVE  Sending(c)'
  <1> PICK s : s = conn[c].sendbuf
    OBVIOUS
  <1>1. conn'[c].sendbuf = s /\ (s # NULL => buf'[s].left = buf[s].left)
    OBVIOUS
  <1>2. RespBytes(s)' = RespBytes(s)
    BY <1>1 DEF RespBytes
  <1> QED
    BY <1>1, <1>2 DEF Sending

\* A handler that changes the bytes left of one buffer, which is its session's.
LEMMA OthersLeft ==
    ASSUME Ownership, NEW b \in Buffers, NEW p \in PlaceKinds, NEW i \in PlaceIds, At(b, p, i),
           OnlyBuf(b), NEW d \in Conns, ~conn[d].closed, i # d
    PROVE  \A x \in Buffers : x \in {conn[d].recvbuf, conn[d].sendbuf} => buf'[x].left = buf[x].left
  BY OwnBuffer DEF OnlyBuf

LEMMA RespTakeBytes ==
    ASSUME Structure, Ownership, Bytes, NEW w \in IOs, RespTake(w)
    PROVE  Bytes'
  <1> PICK c \in Conns : c = io[w].conn
    BY RespTakeDoes
  <1>1. /\ io[w].pc = "resp" /\ Busy(w) /\ ~conn[c].closed /\ UNCHANGED <<acc, sock>>
    BY RespTakeDoes DEF Busy, Structure, IOInv
  <1>2. CASE UNCHANGED <<conn, buf>>
    <2>1. OnlyConn(c) /\ SameWire(c)
      BY <1>2 DEF OnlyConn, SameWire
    <2>2. \/ Goes(w, io'[w].pc) /\ io'[w].pc = "send"
          \/ Returns(w) /\ conn[c].sendbuf = NULL
      BY <1>2, RespTakeDoes, Constants DEF Goes
    <2> QED
      BY <1>1, <1>2, <2>1, <2>2, QuietBytes DEF Returns
  <1>3. CASE conn[c].sendbuf = NULL /\ conn[c].send_queue # <<>>
    <2> PICK b \in Buffers : b = Head(conn[c].send_queue)
      BY <1>3, RespTakeDoes
    <2>1. /\ OnlyConn(c) /\ SameOwner(c) /\ SameCounts(c) /\ conn'[c].sendbuf = b
          /\ conn'[c].recvbuf = conn[c].recvbuf /\ OnlyBuf(b) /\ buf'[b].left = RespLen
          /\ Goes(w, "send")
      BY <1>3, RespTakeDoes
    <2>2. At(b, "queue", c) /\ c \in PlaceIds /\ "queue" \in PlaceKinds
      <3>1. conn[c].send_queue \in Seq(Buffers)
        BY CountTypes
      <3>2. Elems(conn[c].send_queue) = Elems(Tail(conn[c].send_queue)) \cup {b}
        BY <1>3, <3>1, TailElems
      <3> QED
        BY <3>2 DEF At, PlaceIds, PlaceKinds
    <2>3. \A d \in Conns \ {c} : ~conn[d].closed =>
            \A x \in Buffers : x \in {conn[d].recvbuf, conn[d].sendbuf} => buf'[x].left = buf[x].left
      BY <2>1, <2>2, OthersLeft
    <2>4. Receiving(c) /\ Sending(c) /\ conn[c].recvbuf \in Buffers \cup {NULL}
      BY <1>1, BothWays, WireTypes DEF Bytes
    <2>5. Receiving(c)'
      <3>1. conn[c].recvbuf # NULL => buf'[conn[c].recvbuf].left = buf[conn[c].recvbuf].left
        BY <1>1, <2>1, <2>2, <2>4, OwnBuffer DEF OnlyBuf
      <3>2. \A v \in IOs : io[v].pc \in {"req_lock", "req_put"} /\ io[v].conn = c => io'[v] = io[v]
        BY <1>1, <2>1 DEF Goes
      <3> QED
        BY <1>1, <2>1, <2>4, <3>1, <3>2, ReceivingSame DEF SameOwner, SameCounts
    <2>6. Sending(c)'
      <3>1. RespBytes(b)' = 0 /\ RespBytes(conn[c].sendbuf) = 0
        BY <1>3, <2>1, Constants DEF RespBytes
      <3>2. buf'[b].left \in 0 .. RespLen /\ buf'[b].left # 0
        BY <2>1, Constants
      <3> QED
        BY <1>1, <2>1, <2>4, <3>1, <3>2 DEF Sending, SameOwner, SameCounts
    <2>7. FillInv(c)' /\ IOWireInv(w)'
      BY <2>1 DEF FillInv, IOWireInv, Goes, Bytes
    <2> QED
      BY <1>1, <2>1, <2>3, <2>5, <2>6, <2>7, BothWays, HandlerBytes DEF Goes, SameOwner
  <1> QED
    BY <1>2, <1>3, RespTakeDoes

LEMMA RespSentBytes ==
    ASSUME Structure, Bytes, NEW w \in IOs, RespSent(w)
    PROVE  Bytes'
  <1> PICK c \in Conns : c = io[w].conn
    BY RespSentDoes
  <1>1. /\ io[w].pc = "sent" /\ Busy(w) /\ ~conn[c].closed /\ UNCHANGED <<buf, acc, sock>>
        /\ OnlyConn(c) /\ SameOwner(c) /\ conn'[c].sendbuf = NULL
        /\ conn'[c].recvbuf = conn[c].recvbuf /\ conn'[c].sent = conn[c].sent + 1
        /\ conn'[c].received = conn[c].received /\ Goes(w, "resp_lock")
        /\ conn[c].sendbuf \in Buffers
    BY RespSentDoes DEF Busy, Structure, IOInv
  <1>2. Receiving(c) /\ Sending(c) /\ IOWireInv(w)
    BY <1>1, BothWays DEF Bytes
  <1>3. Receiving(c)'
    <2>1. \A v \in IOs : io[v].pc \in {"req_lock", "req_put"} /\ io[v].conn = c => io'[v] = io[v]
      BY <1>1 DEF Goes
    <2> QED
      BY <1>1, <1>2, <2>1, ReceivingSame DEF SameOwner
  <1>4. Sending(c)'
    <2>1. RespBytes(conn[c].sendbuf) = RespLen
      BY <1>1, <1>2, Constants DEF IOWireInv, RespBytes
    <2>2. Len(sock[conn[c].fd].stream) = (conn[c].sent + 1) * RespLen
      BY <1>1, <1>2, <2>1, WireTypes, Constants, TimesNext DEF Sending
    <2>3. (conn[c].sent + 1) * RespLen = (conn[c].sent + 1) * RespLen + 0
      BY <1>1, WireTypes, Constants, TimesNext
    <2>4. RespBytes(NULL)' = 0
      BY DEF RespBytes
    <2> QED
      BY <1>1, <2>2, <2>3, <2>4 DEF Sending, SameOwner
  <1>5. FillInv(c)' /\ IOWireInv(w)'
    BY <1>1, <1>2 DEF FillInv, IOWireInv, Goes
  <1> QED
    BY <1>1, <1>3, <1>4, <1>5, BothWays, HandlerBytes DEF Goes, SameOwner

LEMMA ReqPutBytes ==
    ASSUME Structure, Bytes, NEW w \in IOs, ReqPut(w)
    PROVE  Bytes'
  <1> PICK c \in Conns : c = io[w].conn
    BY ReqPutDoes
  <1>1. /\ io[w].pc = "req_put" /\ Busy(w) /\ ~conn[c].closed /\ UNCHANGED <<buf, acc, sock>>
        /\ OnlyConn(c) /\ SameOwner(c) /\ conn'[c].recvbuf = NULL
        /\ conn'[c].sendbuf = conn[c].sendbuf /\ conn'[c].sent = conn[c].sent
        /\ conn'[c].received = conn[c].received + 1 /\ Goes(w, "req_unlock")
        /\ conn[c].recvbuf \in Buffers
    BY ReqPutDoes DEF Busy, Structure, IOInv
  <1>2. Receiving(c) /\ Sending(c) /\ IOWireInv(w) /\ FillInv(c)
    BY <1>1, BothWays DEF Bytes
  <1>3. Sending(c)'
    <2>1. \A v \in IOs : io[v].pc = "sent" /\ io[v].conn = c => io'[v] = io[v]
      BY <1>1 DEF Goes
    <2> QED
      BY <1>1, <1>2, <2>1, SendingSame DEF SameOwner
  <1>4. Receiving(c)'
    <2>1. ReqBytes(conn[c].recvbuf) = ReqLen
      BY <1>1, <1>2, Constants DEF IOWireInv, ReqBytes
    <2>2. sock[conn[c].fd].consumed = (conn[c].received + 1) * ReqLen
      BY <1>1, <1>2, <2>1, WireTypes, Constants, TimesNext, SMTT(20) DEF Receiving
    <2>3. (conn[c].received + 1) * ReqLen = (conn[c].received + 1) * ReqLen + 0
      BY <1>1, WireTypes, Constants, TimesNext
    <2>4. ReqBytes(NULL)' = 0
      BY DEF ReqBytes
    <2> QED
      BY <1>1, <2>2, <2>3, <2>4 DEF Receiving, SameOwner
  <1>5. IOWireInv(w)'
    BY <1>1, <1>2 DEF IOWireInv, Goes
  <1>6. FillInv(c)'
    <2>1. \A v \in IOs : io[v].pc \in {"resp", "send", "sent"} => io'[v] = io[v]
      BY <1>1 DEF Goes
    <2> QED
      BY <1>1, <1>2, <2>1 DEF FillInv, SameOwner
  <1> QED
    BY <1>1, <1>3, <1>4, <1>5, <1>6, BothWays, HandlerBytes DEF Goes, SameOwner

LEMMA FinishDrainBytes ==
    ASSUME Structure, Bytes, NEW w \in IOs, FinishDrain(w)
    PROVE  Bytes'
  <1> PICK c \in Conns : c = io[w].conn
    BY FinishDrainDoes
  <1> PICK k \in Clients : k = conn[c].fd
    BY FinishDrainDoes
  <1>1. /\ io[w].pc = "fin_drain" /\ Busy(w) /\ ~conn[c].closed /\ UNCHANGED <<buf, acc>>
        /\ OnlyConn(c) /\ conn'[c].fd = k /\ conn'[c].closed /\ Goes(w, "fin_end")
        /\ OnlySock(k) /\ SameServed(k) /\ SamePeer(k) /\ sock'[k].link = "shut"
    BY FinishDrainDoes, Zenon DEF Busy, Structure, IOInv
  <1>2. SocketInv(k) /\ IOWireInv(w)
    BY DEF Bytes
  <1>3. SocketInv(k)'
    BY <1>1, <1>2, Zenon DEF SocketInv, SameServed, SamePeer, AllAnswered
  <1>4. WireInv(c)' /\ FillInv(c)' /\ IOWireInv(w)'
    BY <1>1, <1>2 DEF WireInv, FillInv, IOWireInv, Goes
  <1>5. \A j \in Clients \ {k} : sock'[j] = sock[j]
    BY <1>1 DEF OnlySock
  <1> QED
    BY <1>1, <1>3, <1>4, <1>5, HandlerBytes DEF Goes

LEMMA ReqTakeBytes ==
    ASSUME Structure, Ownership, Counting, Bytes, NEW w \in IOs, ReqTake(w)
    PROVE  Bytes'
  <1> PICK c \in Conns : c = io[w].conn
    BY ReqTakeDoes
  <1>1. io[w].pc = "req" /\ Busy(w) /\ UNCHANGED <<acc, sock>>
    BY ReqTakeDoes DEF Busy
  <1>2. CASE UNCHANGED <<conn, buf>>
    <2>1. OnlyConn(c) /\ SameWire(c)
      BY <1>2 DEF OnlyConn, SameWire
    <2>2. \/ Goes(w, io'[w].pc) /\ io'[w].pc = "recv"
          \/ Returns(w)
      BY <1>2, ReqTakeDoes, Constants DEF Goes
    <2> QED
      BY <1>1, <1>2, <2>1, <2>2, QuietBytes DEF Returns
  <1>3. CASE conn[c].recvbuf = NULL /\ ~Full(c) /\ empty_buffers # <<>> /\ ~UNCHANGED <<conn, buf>>
    <2> PICK b \in Buffers : b = Head(empty_buffers)
      BY <1>3, ReqTakeDoes
    <2>1. /\ OnlyConn(c) /\ SameOwner(c) /\ SameCounts(c) /\ conn'[c].recvbuf = b
          /\ conn'[c].sendbuf = conn[c].sendbuf /\ OnlyBuf(b) /\ buf'[b].left = ReqLen
          /\ Goes(w, "recv") /\ ~conn[c].closed
      BY <1>1, <1>3, ReqTakeDoes, ReqClosed
    <2>2. At(b, "pool", NULL) /\ NULL \in PlaceIds /\ "pool" \in PlaceKinds
      <3>1. empty_buffers \in Seq(Buffers)
        BY DEF Structure, Types
      <3>2. Elems(empty_buffers) = Elems(Tail(empty_buffers)) \cup {b}
        BY <1>3, <3>1, TailElems
      <3> QED
        BY <3>2 DEF At, PlaceIds, PlaceKinds
    <2>3. \A d \in Conns \ {c} : ~conn[d].closed =>
            \A x \in Buffers : x \in {conn[d].recvbuf, conn[d].sendbuf} => buf'[x].left = buf[x].left
      BY <2>1, <2>2, OthersLeft, Constants
    <2>4. Receiving(c) /\ Sending(c) /\ conn[c].sendbuf \in Buffers \cup {NULL} /\ FillInv(c)
      BY <2>1, BothWays, WireTypes DEF Bytes
    <2>5. Sending(c)'
      <3>1. conn[c].sendbuf # NULL => buf'[conn[c].sendbuf].left = buf[conn[c].sendbuf].left
        BY <2>1, <2>2, <2>4, OwnBuffer DEF OnlyBuf
      <3>2. \A v \in IOs : io[v].pc = "sent" /\ io[v].conn = c => io'[v] = io[v]
        BY <1>1, <2>1 DEF Goes
      <3> QED
        BY <1>1, <2>1, <2>4, <3>1, <3>2, SendingSame DEF SameOwner, SameCounts
    <2>6. Receiving(c)'
      <3>1. ReqBytes(b)' = 0 /\ ReqBytes(conn[c].recvbuf) = 0
        BY <1>3, <2>1, Constants DEF ReqBytes
      <3>2. buf'[b].left \in 0 .. ReqLen /\ buf'[b].left # 0
        BY <2>1, Constants
      <3> QED
        BY <1>1, <2>1, <2>4, <3>1, <3>2 DEF Receiving, SameOwner, SameCounts
    <2>7. FillInv(c)'
      <3>1. \A v \in IOs : io[v].pc \in {"resp", "send", "sent"} => io'[v] = io[v]
        BY <1>1, <2>1 DEF Goes
      <3> QED
        BY <2>1, <2>4, <3>1 DEF FillInv, SameOwner
    <2>8. IOWireInv(w)'
      BY <2>1 DEF IOWireInv, Goes, Bytes
    <2> QED
      BY <1>1, <2>1, <2>3, <2>5, <2>6, <2>7, <2>8, BothWays, HandlerBytes DEF Goes, SameOwner
  <1> QED
    BY <1>2, <1>3, ReqTakeDoes

\* A client that may leave early finds room for every response due.
LEMMA RoomForAll ==
    ASSUME Structure, Counting, Bytes, Orderly, NEW c \in Conns, ~conn[c].closed, ~Released(c),
           conn[c].sendbuf # NULL, Closing # {}, Readahead # 0
    PROVE  buf[conn[c].sendbuf].left <= Room(conn[c].fd)
  <1> PICK k \in Clients : k = conn[c].fd
    BY WireTypes
  <1> PICK b \in Buffers : b = conn[c].sendbuf
    BY WireTypes
  <1> DEFINE m == conn[c].received
             n == conn[c].sent
             a == ReqBytes(conn[c].recvbuf)
             u == sock[k].wrote
             g == sock[k].got
             l == buf[b].left
             t == Len(sock[k].stream)
             q == ReqLen
             p == RespLen
  <1>1. /\ m \in Nat /\ n \in Nat /\ a \in Nat /\ u \in Nat /\ g \in Nat /\ t \in Nat
        /\ q \in Nat \ {0} /\ p \in Nat \ {0} /\ MaxRequests \in Nat /\ SockBuf \in Nat
    BY WireTypes, Constants
  <1>2. n + 1 <= m /\ MaxRequests * p <= SockBuf
    BY SendingAnswers DEF Orderly
  <1>3. WireInv(c) /\ SocketInv(k)
    BY DEF Bytes
  <1>4. /\ sock[k].consumed = m * q + a /\ t = n * p + RespBytes(b)
        /\ l \in 0 .. p
    BY <1>3 DEF WireInv
  <1>5. RespBytes(b) = p - l
    BY Constants DEF RespBytes
  <1>6. sock[k].consumed <= u /\ u <= MaxRequests * q
    BY <1>3 DEF SocketInv
  <1>7. Room(k) = SockBuf - (t - g)
    BY DEF Room, Unread
  <1> HIDE DEF m, n, a, u, g, l, t, q, p
  <1>8. m <= MaxRequests
    <2>1. m * q + a <= MaxRequests * q
      <3>1. m * q \in Nat /\ MaxRequests * q \in Nat
        BY <1>1, TimesNext
      <3> DEFINE x == m * q
                 y == MaxRequests * q
      <3>2. x \in Nat /\ y \in Nat /\ x + a <= u /\ u <= y
        BY <1>4, <1>6, <3>1
      <3> HIDE DEF x, y
      <3>3. x + a <= y
        BY <1>1, <3>2
      <3> QED
        BY <3>3 DEF x, y
    <2>2. m * q <= MaxRequests * q
      <3>1. m * q \in Nat /\ MaxRequests * q \in Nat
        BY <1>1, TimesNext
      <3> DEFINE x == m * q
                 y == MaxRequests * q
      <3>2. x \in Nat /\ y \in Nat /\ x + a <= y
        BY <2>1, <3>1
      <3> HIDE DEF x, y
      <3>3. x <= y
        BY <1>1, <3>2
      <3> QED
        BY <3>3 DEF x, y
    <2> QED
      BY <1>1, <2>2, TimesLess
  <1>9. (n + 1) * p <= MaxRequests * p /\ (n + 1) * p = n * p + p
    BY <1>1, <1>2, <1>8, TimesMono, TimesNext
  <1>10. l <= SockBuf - (t - g)
    <2> DEFINE x == n * p
               y == MaxRequests * p
    <2>1. x \in Nat /\ y \in Nat /\ x + p <= y /\ y <= SockBuf /\ t = x + (p - l) /\ l \in 0 .. p
      BY <1>1, <1>2, <1>4, <1>5, <1>9, TimesNext
    <2> HIDE DEF x, y
    <2> QED
      BY <1>1, <2>1
  <1> QED
    BY <1>7, <1>10 DEF l

LEMMA SendQuiet ==
    ASSUME Structure, Counting, Bytes, Orderly, NEW w \in IOs, Send(w), UNCHANGED <<buf, sock>>
    PROVE  Bytes'
  <1> PICK c \in Conns : c = io[w].conn
    BY SendDoes, Zenon
  <1>1. /\ io[w].pc = "send" /\ Busy(w) /\ ~conn[c].closed /\ ~Released(c)
        /\ UNCHANGED <<conn, acc>> /\ conn[c].sendbuf \in Buffers /\ conn[c].sendbuf # NULL
    BY SendDoes, BusyConn, Zenon DEF Busy, Structure, IOInv
  <1>2. OnlyConn(c) /\ SameWire(c)
    BY <1>1 DEF OnlyConn, SameWire
  <1>3. CASE SendFails(conn[c].fd) /\ Goes(w, "finish")
    <2>1. "abort" \in Closing
      BY <1>1, <1>3, EndsIdle
    <2>2. Readahead = 0
      BY <2>1 DEF Orderly
    <2>3. io'[w].pc = "finish" /\ Goes(w, io'[w].pc)
      BY <1>3 DEF Goes
    <2> QED
      BY <1>1, <1>2, <2>1, <2>2, <2>3, QuietBytes
  <1>4. CASE min(IoSize(conn[c].sendbuf), Room(conn[c].fd)) = 0 /\ Returns(w)
    <2> PICK b \in Buffers : b = conn[c].sendbuf
      BY <1>1
    <2>1. buf[b].left \in 0 .. RespLen /\ buf[b].left # 0
      <3>1. Sending(c)
        BY <1>1, BothWays DEF Bytes
      <3>2. buf[b].left \in 0 .. RespLen
        BY <1>1, <3>1 DEF Sending
      <3>3. buf[b].left # 0
        <4> SUFFICES ASSUME buf[b].left = 0 PROVE FALSE
          OBVIOUS
        <4>1. PICK v \in IOs : io[v].pc = "sent" /\ io[v].conn = c
          BY <1>1, <3>1 DEF Sending
        <4>2. v = w
          BY <1>1, <4>1, OneBusy DEF Busy
        <4> QED
          BY <1>1, <4>1, <4>2
      <3> QED
        BY <3>2, <3>3
    <2>2. Room(conn[c].fd) \in Int
      BY <1>1, WireTypes, RoomType
    <2>3. ~(buf[b].left <= Room(conn[c].fd))
      BY <1>4, <2>1, <2>2, Constants DEF IoSize, min
    <2>4. Closing = {} \/ Readahead = 0
      BY <1>1, <2>3, RoomForAll
    <2>5. io'[w].pc \in {"req", "dispatch"}
      BY <1>4 DEF Returns
    <2> QED
      BY <1>1, <1>2, <1>4, <2>4, <2>5, QuietBytes
  <1>5. CASE ~(SendFails(conn[c].fd) /\ Goes(w, "finish"))
             /\ ~(min(IoSize(conn[c].sendbuf), Room(conn[c].fd)) = 0 /\ Returns(w))
    <2> PICK b \in Buffers : b = conn[c].sendbuf
      BY <1>1
    <2>1. /\ min(IoSize(b), Room(conn[c].fd)) > 0
          /\ buf'[b].left = buf[b].left - min(IoSize(b), Room(conn[c].fd))
      BY <1>5, SendDoes, Zenon
    <2>2. buf[b].left \in Nat
      BY DEF Structure, Types, BufType
    <2>3. Room(conn[c].fd) \in Int
      BY <1>1, WireTypes, RoomType
    <2>4. min(IoSize(b), Room(conn[c].fd)) \in Int
      BY <2>2, <2>3, Constants DEF min, IoSize
    <2> QED
      BY <2>1, <2>2, <2>4
  <1> QED
    BY <1>3, <1>4, <1>5

\* len bytes of the response go out: the last of it, or as many as max_io_size or
\* the socket allows.
Sends(w, c, len) ==
    LET b == conn[c].sendbuf
        k == conn[c].fd
    IN  /\ len <= buf[b].left /\ len <= Room(k)
        /\ OnlyBuf(b) /\ buf'[b].left = buf[b].left - len
        /\ OnlySock(k) /\ SamePeer(k) /\ sock'[k].link = sock[k].link
        /\ sock'[k].consumed = sock[k].consumed
        /\ Len(sock'[k].stream) = Len(sock[k].stream) + len
        /\ \A v \in IOs \ {w} : io'[v] = io[v]
        /\ io'[w].conn = c /\ io'[w].events = io[w].events
        /\ io'[w].pc \in {"req", "dispatch", "sent", "resp"}
        /\ io'[w].pc = "sent" <=> buf[b].left = len
        /\ io'[w].pc \in {"req", "dispatch"} => Room(k) < buf[b].left

LEMMA SendSome ==
    ASSUME Structure, NEW w \in IOs, Send(w), NEW c \in Conns, c = io[w].conn,
           ~UNCHANGED <<buf, sock>>
    PROVE  \E len \in Nat \ {0} : Sends(w, c, len)
  <1> PICK b \in Buffers : b = conn[c].sendbuf
    BY SendDoes, Zenon
  <1> PICK k \in Clients : k = conn[c].fd
    BY SendDoes, Zenon
  <1>1. /\ min(IoSize(b), Room(k)) > 0 /\ OnlyBuf(b)
        /\ buf'[b].left = buf[b].left - min(IoSize(b), Room(k))
        /\ OnlySock(k) /\ SamePeer(k) /\ sock'[k].link = sock[k].link
        /\ sock'[k].consumed = sock[k].consumed
        /\ sock'[k].stream = sock[k].stream \o Copies(buf[b].msg, min(IoSize(b), Room(k)))
        /\ \/ min(IoSize(b), Room(k)) < IoSize(b) /\ Returns(w)
           \/ /\ min(IoSize(b), Room(k)) = IoSize(b) /\ buf[b].left = min(IoSize(b), Room(k))
              /\ Goes(w, "sent")
           \/ /\ min(IoSize(b), Room(k)) = IoSize(b) /\ buf[b].left # min(IoSize(b), Room(k))
              /\ Goes(w, "resp")
    BY SendDoes, Zenon
  <1>2. buf[b] \in BufType /\ sock[k] \in SockType /\ Room(k) \in Int
    BY RoomType DEF Structure, Types
  <1>3. buf[b].left \in Nat /\ buf[b].msg \in Msg /\ sock[k].stream \in Seq(Msg)
    BY <1>2 DEF BufType, SockType
  <1>4. IoSize(b) \in Nat /\ IoSize(b) <= buf[b].left
    BY <1>3, IoSizeFits
  <1>5. /\ min(IoSize(b), Room(k)) \in Nat \ {0}
        /\ min(IoSize(b), Room(k)) <= IoSize(b) /\ min(IoSize(b), Room(k)) <= Room(k)
        /\ min(IoSize(b), Room(k)) < IoSize(b) => Room(k) < IoSize(b)
    <2>1. /\ min(IoSize(b), Room(k)) \in Int
          /\ min(IoSize(b), Room(k)) <= IoSize(b) /\ min(IoSize(b), Room(k)) <= Room(k)
          /\ min(IoSize(b), Room(k)) < IoSize(b) => Room(k) < IoSize(b)
      BY <1>2, <1>4 DEF min
    <2>2. min(IoSize(b), Room(k)) > 0
      BY <1>1, Zenon
    <2> QED
      BY <2>1, <2>2
  <1>6. PICK len \in Nat \ {0} : len = min(IoSize(b), Room(k))
    BY <1>5
  <1>7. Len(sock'[k].stream) = Len(sock[k].stream) + len
    <2>1. Copies(buf[b].msg, len) \in Seq(Msg) /\ Len(Copies(buf[b].msg, len)) = len
      BY <1>3 DEF Copies
    <2>2. sock'[k].stream = sock[k].stream \o Copies(buf[b].msg, len)
      BY <1>1, <1>6, Zenon
    <2> PICK s \in Seq(Msg), t \in Seq(Msg) : s = sock[k].stream /\ t = Copies(buf[b].msg, len)
      BY <1>3, <2>1
    <2>3. Len(s \o t) = Len(s) + Len(t)
      BY ConcatElems
    <2> QED
      BY <2>1, <2>2, <2>3, Zenon
  <1>8. len <= IoSize(b) /\ len <= Room(k) /\ (len < IoSize(b) => Room(k) < IoSize(b))
    BY <1>5, <1>6
  <1>9. \/ len < IoSize(b) /\ Returns(w)
        \/ len = IoSize(b) /\ buf[b].left = len /\ Goes(w, "sent")
        \/ len = IoSize(b) /\ buf[b].left # len /\ Goes(w, "resp")
    BY <1>1, <1>6, Zenon
  <1>10. /\ \A v \in IOs \ {w} : io'[v] = io[v]
         /\ io'[w].conn = c /\ io'[w].events = io[w].events
         /\ io'[w].pc \in {"req", "dispatch", "sent", "resp"}
    BY <1>9 DEF Goes, Returns
  <1>11. /\ len <= buf[b].left /\ (buf[b].left = len => len = IoSize(b))
         /\ Room(k) < IoSize(b) => Room(k) < buf[b].left
    BY <1>2, <1>3, <1>4, <1>8
  <1>12. /\ io'[w].pc = "sent" <=> buf[b].left = len
         /\ io'[w].pc \in {"req", "dispatch"} => Room(k) < buf[b].left
    <2>1. CASE len < IoSize(b) /\ Returns(w)
      <3>1. io'[w].pc \in {"req", "dispatch"}
        BY <2>1 DEF Returns
      <3>2. len # IoSize(b)
        BY <1>4, <2>1
      <3> QED
        BY <1>8, <1>11, <2>1, <3>1, <3>2
    <2>2. CASE len = IoSize(b) /\ buf[b].left = len /\ Goes(w, "sent")
      BY <2>2 DEF Goes
    <2>3. CASE len = IoSize(b) /\ buf[b].left # len /\ Goes(w, "resp")
      BY <2>3 DEF Goes
    <2> QED
      BY <1>9, <2>1, <2>2, <2>3
  <1>13. buf'[b].left = buf[b].left - len
    BY <1>1, <1>6, Zenon
  <1>14. Sends(w, c, len)
    BY <1>1, <1>7, <1>8, <1>10, <1>11, <1>12, <1>13, Zenon DEF Sends
  <1> QED
    BY <1>14

LEMMA SendMoves ==
    ASSUME Structure, Ownership, Counting, Bytes, Orderly, NEW w \in IOs, Send(w),
           ~UNCHANGED <<buf, sock>>
    PROVE  Bytes'
  <1> PICK c \in Conns : c = io[w].conn
    BY SendDoes, Zenon
  <1> PICK b \in Buffers : b = conn[c].sendbuf
    BY SendDoes, Zenon
  <1> PICK k \in Clients : k = conn[c].fd
    BY SendDoes, Zenon
  <1>0. PICK len \in Nat \ {0} : Sends(w, c, len)
    BY SendSome
  <1>1. /\ io[w].pc = "send" /\ Busy(w) /\ ~conn[c].closed /\ ~Released(c)
        /\ UNCHANGED <<conn, acc>> /\ b # NULL
    BY SendDoes, BusyConn, Zenon DEF Busy, Structure, IOInv
  <1>2. /\ len <= buf[b].left /\ len <= Room(k)
        /\ OnlyBuf(b) /\ buf'[b].left = buf[b].left - len
        /\ OnlySock(k) /\ SamePeer(k) /\ sock'[k].link = sock[k].link
        /\ sock'[k].consumed = sock[k].consumed
        /\ Len(sock'[k].stream) = Len(sock[k].stream) + len
    BY <1>0 DEF Sends
  <1>3. /\ \A v \in IOs \ {w} : io'[v] = io[v]
        /\ io'[w].conn = c /\ io'[w].events = io[w].events
        /\ io'[w].pc \in {"req", "dispatch", "sent", "resp"}
        /\ io'[w].pc = "sent" <=> buf[b].left = len
        /\ io'[w].pc \in {"req", "dispatch"} => Room(k) < buf[b].left
    BY <1>0 DEF Sends
  <1>4. /\ Receiving(c) /\ Sending(c) /\ SocketInv(k) /\ IOWireInv(w)
        /\ IsOpen(k) /\ conn[c].recvbuf \in Buffers \cup {NULL}
    BY <1>1, BothWays, WireTypes DEF Bytes
  <1>5. buf[b].left \in 0 .. RespLen /\ Room(k) \in Int
    BY <1>1, <1>4, RoomType DEF Sending
  <1>6. Len(sock[k].stream) \in Nat
    BY <1>1, WireTypes
  <1>7. buf'[b].left \in 0 .. RespLen /\ (buf'[b].left = 0 <=> buf[b].left = len)
    <2>1. len <= buf[b].left /\ buf'[b].left = buf[b].left - len
      BY <1>2
    <2> QED
      BY <1>5, <2>1, Constants
  <1>8. buf'[b].left = 0 <=> io'[w].pc = "sent"
    BY <1>3, <1>7
  <1>9. RespBytes(b)' = RespBytes(b) + len
    <2>1. RespBytes(b) = RespLen - buf[b].left /\ RespBytes(b)' = RespLen - buf'[b].left
      BY <1>1 DEF RespBytes
    <2>2. buf'[b].left = buf[b].left - len
      BY <1>2
    <2> DEFINE left == buf[b].left
    <2>3. left \in 0 .. RespLen /\ RespLen \in Nat
      BY <1>5, Constants
    <2> HIDE DEF left
    <2>4. RespLen - (left - len) = (RespLen - left) + len
      BY <2>3
    <2> QED
      BY <2>1, <2>2, <2>4 DEF left
  <1>10. \A d \in Conns \ {c} : ~conn[d].closed =>
            \A x \in Buffers : x \in {conn[d].recvbuf, conn[d].sendbuf} => buf'[x].left = buf[x].left
    <2>1. At(b, "sendbuf", c) /\ c \in PlaceIds /\ "sendbuf" \in PlaceKinds
      BY <1>1 DEF At, PlaceIds, PlaceKinds
    <2> QED
      BY <1>2, <2>1, OthersLeft
  <1>11. Receiving(c)'
    <2>1. At(b, "sendbuf", c) /\ c \in PlaceIds /\ "sendbuf" \in PlaceKinds
      BY <1>1 DEF At, PlaceIds, PlaceKinds
    <2>2. conn[c].recvbuf # b
      BY <1>1, <2>1, OwnBuffer
    <2>3. conn[c].recvbuf # NULL => buf'[conn[c].recvbuf].left = buf[conn[c].recvbuf].left
      BY <1>2, <1>4, <2>2 DEF OnlyBuf
    <2>4. \A v \in IOs : io[v].pc \in {"req_lock", "req_put"} /\ io[v].conn = c => io'[v] = io[v]
      BY <1>1, <1>3
    <2> QED
      BY <1>1, <1>2, <1>4, <2>3, <2>4, ReceivingSame, Zenon
  <1>12. Sending(c)'
    <2>1. Len(sock[k].stream) = conn[c].sent * RespLen + RespBytes(b)
      BY <1>4 DEF Sending
    <2>2. /\ conn[c].sent * RespLen \in Nat /\ RespBytes(b) \in Nat
      BY <1>1, WireTypes, Constants, TimesNext
    <2>3. Len(sock'[k].stream) = conn[c].sent * RespLen + RespBytes(b)'
      <3> DEFINE x == conn[c].sent * RespLen
                 y == RespBytes(b)
                 z == RespBytes(b)'
                 s == Len(sock[k].stream)
                 t == Len(sock'[k].stream)
      <3>1. x \in Nat /\ y \in Nat /\ s = x + y /\ t = s + len /\ z = y + len /\ len \in Nat
        BY <1>2, <1>9, <2>1, <2>2
      <3> HIDE DEF x, y, z, s, t
      <3>2. t = x + z
        BY <3>1
      <3> QED
        BY <3>2 DEF t, x, z
    <2>4. buf'[b].left = 0 => \E v \in IOs : io'[v].pc = "sent" /\ io'[v].conn = c
      BY <1>3, <1>8
    <2>5. conn' = conn
      BY <1>1
    <2> QED
      BY <1>7, <2>3, <2>4, <2>5 DEF Sending
  <1>13. FillInv(c)'
    <2> SUFFICES ASSUME Closing # {}, Readahead # 0
                 PROVE  io'[w].pc \in {"resp", "send", "sent"}
      BY <1>3 DEF FillInv
    <2>1. buf[b].left <= Room(k)
      BY <1>1, RoomForAll
    <2>2. ~(Room(k) < buf[b].left)
      BY <1>5, <2>1
    <2> QED
      BY <1>3, <2>2
  <1>14. IOWireInv(w)'
    <2>1. \A e \in io'[w].events : e.err => "abort" \in Closing
      BY <1>3, <1>4 DEF IOWireInv
    <2>2. io'[w].pc = "sent" => buf'[conn'[io'[w].conn].sendbuf].left = 0
      BY <1>1, <1>3, <1>8
    <2> QED
      BY <1>3, <2>1, <2>2 DEF IOWireInv
  <1>15. SocketInv(k)'
    <2> DEFINE s == Len(sock[k].stream)
               t == Len(sock'[k].stream)
               g == sock[k].got
    <2>1. s \in Nat /\ g \in Nat /\ t = s + len /\ g <= s
      BY <1>1, <1>2, <1>4, <1>6, WireTypes, Zenon DEF SocketInv
    <2>2. t <= g + SockBuf
      <3>1. len <= SockBuf - (s - g)
        BY <1>2 DEF Room, Unread
      <3> HIDE DEF s, t, g
      <3> QED
        BY <2>1, <3>1, Constants
    <2>3. t * ReqLen <= sock'[k].consumed * RespLen
      <3> DEFINE m == conn[c].received
                 n == conn[c].sent
                 a == ReqBytes(conn[c].recvbuf)
                 x == RespBytes(b)'
                 u == sock[k].consumed
                 q == ReqLen
                 p == RespLen
      <3>1. n + 1 <= m
        BY <1>1, SendingAnswers
      <3>2. m \in Nat /\ n \in Nat /\ a \in Nat /\ q \in Nat \ {0} /\ p \in Nat \ {0}
        BY <1>1, WireTypes, Constants
      <3>3. x \in 0 .. p
        BY <1>1, <1>7, Constants DEF RespBytes
      <3>4. t = n * p + x
        BY <1>1, <1>12 DEF Sending
      <3>5. u = m * q + a
        BY <1>4 DEF Receiving
      <3>6. sock'[k].consumed = u
        BY <1>2
      <3> HIDE DEF m, n, a, x, u, q, p, t
      <3>7. (n * p + x) * q <= (m * q + a) * p
        BY ONLY <3>1, <3>2, <3>3, WithinDue
      <3>8. t * q <= u * p
        BY <3>4, <3>5, <3>7
      <3> QED
        BY <3>6, <3>8 DEF q, p
    <2>4. \A a \in Acceptors : ~(acc[a].pc = "init" /\ acc[a].fd = k)
      BY <1>1 DEF Structure, AcceptInv
    <2>5. /\ SocketInv(k) /\ sock'[k].link = sock[k].link /\ sock[k].link = "open"
          /\ sock'[k].consumed = sock[k].consumed /\ SamePeer(k) /\ acc' = acc
      BY <1>1, <1>2, <1>4 DEF IsOpen
    <2>6. AllAnswered(k)' <=> AllAnswered(k)
      BY <2>5 DEF AllAnswered, SamePeer
    <2>7. g <= t
      BY <2>1
    <2> HIDE DEF s
    <2> QED
      BY <2>2, <2>3, <2>4, <2>5, <2>6, <2>7, Zenon DEF SocketInv, SamePeer
  <1> QED
    BY <1>1, <1>2, <1>3, <1>10, <1>11, <1>12, <1>13, <1>14, <1>15, BothWays, HandlerBytes, Zenon
       DEF OnlyConn, OnlySock

LEMMA RecvQuiet ==
    ASSUME Structure, Counting, Bytes, Orderly, NEW w \in IOs, Recv(w), UNCHANGED <<buf, sock>>
    PROVE  Bytes'
  <1> PICK c \in Conns : c = io[w].conn
    BY RecvDoes
  <1> PICK b \in Buffers : b = conn[c].recvbuf
    BY RecvDoes
  <1> PICK k \in Clients : k = conn[c].fd
    BY RecvDoes
  <1>1. io[w].pc = "recv" /\ Busy(w) /\ UNCHANGED <<conn, acc>>
    BY RecvDoes DEF Busy
  <1>2. OnlyConn(c) /\ SameWire(c)
    BY <1>1 DEF OnlyConn, SameWire
  <1>3. CASE RecvEnds(k) /\ Goes(w, "finish")
    <2>1. io'[w].pc = "finish" /\ Goes(w, io'[w].pc)
      BY <1>3 DEF Goes
    <2>2. "abort" \in Closing \/ (sock[k].peer # "open" /\ conn[c].sendbuf = NULL)
      BY <1>1, <1>3, EndsIdle
    <2> QED
      BY <1>1, <1>2, <2>1, <2>2, QuietBytes
  <1>4. CASE Returns(w)
    <2>1. io'[w].pc \in {"req", "dispatch"}
      BY <1>4 DEF Returns
    <2> QED
      BY <1>1, <1>2, <1>4, <2>1, QuietBytes
  <1>5. CASE ~(RecvEnds(k) /\ Goes(w, "finish")) /\ ~Returns(w)
    <2>1. sock'[k].consumed = sock[k].consumed + min(IoSize(b), Avail(k))
          /\ min(IoSize(b), Avail(k)) > 0
      BY <1>5, RecvDoes
    <2>2. sock[k].consumed \in Nat /\ buf[b].left \in Nat
      BY DEF Structure, Types, SockType, BufType
    <2>3. Avail(k) \in Int
      BY RoomType
    <2>4. min(IoSize(b), Avail(k)) \in Int
      BY <2>2, <2>3, Constants DEF min, IoSize
    <2>5. sock'[k].consumed = sock[k].consumed
      OBVIOUS
    <2> QED
      BY <2>1, <2>2, <2>4, <2>5
  <1> QED
    BY <1>3, <1>4, <1>5

\* len bytes of a request come in.
Receives(w, c, len) ==
    LET b == conn[c].recvbuf
        k == conn[c].fd
    IN  /\ len <= buf[b].left /\ len <= Avail(k)
        /\ OnlyBuf(b) /\ buf'[b].left = buf[b].left - len
        /\ OnlySock(k) /\ SamePeer(k) /\ sock'[k].link = sock[k].link
        /\ sock'[k].stream = sock[k].stream
        /\ sock'[k].consumed = sock[k].consumed + len
        /\ \A v \in IOs \ {w} : io'[v] = io[v]
        /\ io'[w].conn = c /\ io'[w].events = io[w].events
        /\ io'[w].pc \in {"req", "req_lock"}
        /\ io'[w].pc = "req_lock" <=> buf[b].left = len

LEMMA RecvSome ==
    ASSUME Structure, NEW w \in IOs, Recv(w), NEW c \in Conns, c = io[w].conn,
           ~UNCHANGED <<buf, sock>>
    PROVE  \E len \in Nat \ {0} : Receives(w, c, len)
  <1> PICK b \in Buffers : b = conn[c].recvbuf
    BY RecvDoes
  <1> PICK k \in Clients : k = conn[c].fd
    BY RecvDoes
  <1>1. /\ min(IoSize(b), Avail(k)) > 0 /\ OnlyBuf(b)
        /\ buf'[b].left = buf[b].left - min(IoSize(b), Avail(k))
        /\ OnlySock(k) /\ SamePeer(k) /\ sock'[k].link = sock[k].link
        /\ sock'[k].stream = sock[k].stream
        /\ sock'[k].consumed = sock[k].consumed + min(IoSize(b), Avail(k))
        /\ \/ buf[b].left = min(IoSize(b), Avail(k)) /\ Goes(w, "req_lock")
           \/ buf[b].left # min(IoSize(b), Avail(k)) /\ Goes(w, "req")
    BY RecvDoes
  <1>2. buf[b] \in BufType /\ Avail(k) \in Int
    BY RoomType DEF Structure, Types
  <1>3. buf[b].left \in Nat
    BY <1>2 DEF BufType
  <1>4. IoSize(b) \in Nat /\ IoSize(b) <= buf[b].left
    BY <1>3, IoSizeFits
  <1>5. /\ min(IoSize(b), Avail(k)) \in Nat \ {0}
        /\ min(IoSize(b), Avail(k)) <= IoSize(b) /\ min(IoSize(b), Avail(k)) <= Avail(k)
    <2>1. /\ min(IoSize(b), Avail(k)) \in Int
          /\ min(IoSize(b), Avail(k)) <= IoSize(b) /\ min(IoSize(b), Avail(k)) <= Avail(k)
      BY <1>2, <1>4 DEF min
    <2>2. min(IoSize(b), Avail(k)) > 0
      BY <1>1
    <2> QED
      BY <2>1, <2>2
  <1>6. PICK len \in Nat \ {0} : len = min(IoSize(b), Avail(k))
    BY <1>5
  <1>7. len <= buf[b].left /\ len <= Avail(k)
    <2>1. len <= IoSize(b) /\ len <= Avail(k)
      BY <1>5, <1>6
    <2> QED
      BY <1>3, <1>4, <2>1
  <1>8. \/ buf[b].left = len /\ Goes(w, "req_lock")
        \/ buf[b].left # len /\ Goes(w, "req")
    BY <1>1, <1>6
  <1>9. /\ \A v \in IOs \ {w} : io'[v] = io[v]
        /\ io'[w].conn = c /\ io'[w].events = io[w].events
        /\ io'[w].pc \in {"req", "req_lock"}
        /\ io'[w].pc = "req_lock" <=> buf[b].left = len
    BY <1>8 DEF Goes
  <1>10. buf'[b].left = buf[b].left - len /\ sock'[k].consumed = sock[k].consumed + len
    BY <1>1, <1>6
  <1>11. Receives(w, c, len)
    BY <1>1, <1>7, <1>9, <1>10, Zenon DEF Receives
  <1> QED
    BY <1>11

LEMMA RecvMoves ==
    ASSUME Structure, Ownership, Counting, Bytes, NEW w \in IOs, Recv(w), ~UNCHANGED <<buf, sock>>
    PROVE  Bytes'
  <1> PICK c \in Conns : c = io[w].conn
    BY RecvDoes
  <1> PICK b \in Buffers : b = conn[c].recvbuf
    BY RecvDoes
  <1> PICK k \in Clients : k = conn[c].fd
    BY RecvDoes
  <1>0. PICK len \in Nat \ {0} : Receives(w, c, len)
    BY RecvSome
  <1>1. /\ io[w].pc = "recv" /\ Busy(w) /\ ~conn[c].closed /\ ~Released(c)
        /\ UNCHANGED <<conn, acc>> /\ b # NULL
    BY RecvDoes, BusyConn, Zenon DEF Busy, Structure, IOInv
  <1>2. /\ len <= buf[b].left /\ len <= Avail(k)
        /\ OnlyBuf(b) /\ buf'[b].left = buf[b].left - len
        /\ OnlySock(k) /\ SamePeer(k) /\ sock'[k].link = sock[k].link
        /\ sock'[k].stream = sock[k].stream
        /\ sock'[k].consumed = sock[k].consumed + len
    BY <1>0 DEF Receives
  <1>3. /\ \A v \in IOs \ {w} : io'[v] = io[v]
        /\ io'[w].conn = c /\ io'[w].events = io[w].events
        /\ io'[w].pc \in {"req", "req_lock"}
        /\ io'[w].pc = "req_lock" <=> buf[b].left = len
    BY <1>0 DEF Receives
  <1>4. /\ Receiving(c) /\ Sending(c) /\ SocketInv(k) /\ IOWireInv(w) /\ FillInv(c)
        /\ IsOpen(k) /\ conn[c].sendbuf \in Buffers \cup {NULL}
    BY <1>1, BothWays, WireTypes DEF Bytes
  <1>5. buf[b].left \in 0 .. ReqLen
    BY <1>1, <1>4 DEF Receiving
  <1>6. sock[k].consumed \in Nat /\ sock[k].wrote \in Nat /\ Len(sock[k].stream) \in Nat
    BY <1>1, WireTypes
  <1>7. buf'[b].left \in 0 .. ReqLen /\ (buf'[b].left = 0 <=> buf[b].left = len)
    <2>1. len <= buf[b].left /\ buf'[b].left = buf[b].left - len
      BY <1>2
    <2> QED
      BY <1>5, <2>1, Constants
  <1>8. ReqBytes(b)' = ReqBytes(b) + len
    BY <1>1, <1>2, <1>5, Constants, SMTT(20) DEF ReqBytes
  <1>9. At(b, "recvbuf", c) /\ c \in PlaceIds /\ "recvbuf" \in PlaceKinds
    BY <1>1 DEF At, PlaceIds, PlaceKinds
  <1>10. \A d \in Conns \ {c} : ~conn[d].closed =>
            \A x \in Buffers : x \in {conn[d].recvbuf, conn[d].sendbuf} => buf'[x].left = buf[x].left
    BY <1>2, <1>9, OthersLeft, SMTT(20)
  <1>11. Sending(c)'
    <2>1. conn[c].sendbuf # b
      BY <1>1, <1>9, OwnBuffer
    <2>2. conn[c].sendbuf # NULL => buf'[conn[c].sendbuf].left = buf[conn[c].sendbuf].left
      BY <1>2, <1>4, <2>1 DEF OnlyBuf
    <2>3. \A v \in IOs : io[v].pc = "sent" /\ io[v].conn = c => io'[v] = io[v]
      BY <1>1, <1>3
    <2> QED
      BY <1>1, <1>2, <1>4, <2>2, <2>3, SendingSame, Zenon
  <1>12. Receiving(c)'
    <2>1. sock[k].consumed = conn[c].received * ReqLen + ReqBytes(b)
      BY <1>4 DEF Receiving
    <2>2. /\ conn[c].received * ReqLen \in Nat /\ ReqBytes(b) \in Nat
      BY <1>1, WireTypes, Constants, TimesNext
    <2>3. sock'[k].consumed = conn[c].received * ReqLen + ReqBytes(b)'
      <3> DEFINE x == conn[c].received * ReqLen
                 y == ReqBytes(b)
                 z == ReqBytes(b)'
                 s == sock[k].consumed
                 t == sock'[k].consumed
      <3>1. x \in Nat /\ y \in Nat /\ s = x + y /\ t = s + len /\ z = y + len /\ len \in Nat
        BY <1>2, <1>8, <2>1, <2>2
      <3> HIDE DEF x, y, z, s, t
      <3>2. t = x + z
        BY <3>1
      <3> QED
        BY <3>2 DEF t, x, z
    <2>4. buf'[b].left = 0 =>
            \E v \in IOs : io'[v].pc \in {"req_lock", "req_put"} /\ io'[v].conn = c
      BY <1>3, <1>7
    <2>5. conn' = conn
      BY <1>1
    <2> QED
      BY <1>7, <2>3, <2>4, <2>5 DEF Receiving
  <1>13. FillInv(c)'
    <2>1. \A v \in IOs : io[v].pc \in {"resp", "send", "sent"} => io'[v] = io[v]
      BY <1>1, <1>3
    <2> QED
      BY <1>1, <1>4, <2>1 DEF FillInv
  <1>14. IOWireInv(w)'
    <2>1. \A e \in io'[w].events : e.err => "abort" \in Closing
      BY <1>3, <1>4 DEF IOWireInv
    <2>2. io'[w].pc \in {"req_lock", "req_put"} => buf'[conn'[io'[w].conn].recvbuf].left = 0
      BY <1>1, <1>3, <1>7
    <2> QED
      BY <1>3, <2>1, <2>2 DEF IOWireInv
  <1>15. SocketInv(k)'
    <2> DEFINE s == sock[k].consumed
               t == sock'[k].consumed
               u == sock[k].wrote
               x == Len(sock[k].stream)
               p == RespLen
               q == ReqLen
    <2>1. /\ s \in Nat /\ t = s + len /\ u \in Nat /\ x \in Nat /\ x * q <= s * p
          /\ p \in Nat /\ q \in Nat /\ len <= u - s
      BY <1>2, <1>4, <1>6, Constants, Zenon DEF SocketInv, Avail
    <2>2. \A a \in Acceptors : ~(acc[a].pc = "init" /\ acc[a].fd = k)
      BY <1>1 DEF Structure, AcceptInv
    <2>3. /\ SocketInv(k) /\ sock'[k].link = sock[k].link /\ sock[k].link = "open"
          /\ sock'[k].stream = sock[k].stream /\ SamePeer(k) /\ acc' = acc
      BY <1>1, <1>2, <1>4 DEF IsOpen
    <2>4. AllAnswered(k)' <=> AllAnswered(k)
      BY <2>3 DEF AllAnswered, SamePeer
    <2> HIDE DEF s, t, u, x, p, q
    <2>5. t \in Nat /\ s <= t /\ t <= u
      BY <2>1
    <2>6. x * q <= t * p
      <3> DEFINE l == x * q
                 m == s * p
                 n == t * p
      <3>1. l \in Nat /\ m \in Nat /\ n \in Nat /\ l <= m /\ m <= n
        BY <2>1, <2>5, TimesMono, TimesNext
      <3> HIDE DEF l, m, n
      <3>2. l <= n
        BY <3>1
      <3> QED
        BY <3>2 DEF l, n
    <2>7. /\ sock'[k].consumed <= sock[k].wrote
          /\ Len(sock[k].stream) * ReqLen <= sock'[k].consumed * RespLen
      BY <2>5, <2>6 DEF t, u, x, p, q
    <2> QED
      BY <2>2, <2>3, <2>4, <2>7, Zenon DEF SocketInv, SamePeer
  <1> QED
    BY <1>1, <1>2, <1>3, <1>10, <1>11, <1>12, <1>13, <1>14, <1>15, BothWays, HandlerBytes, Zenon
       DEF OnlyConn, OnlySock

----------------------------------------------------------------------------
\* The other steps

\* Epoll: an error is reported only of a connection that a client reset.
LEMMA PollBytes ==
    ASSUME Structure, Bytes, NEW w \in IOs, EpollWait(w) \/ Dispatch(w)
    PROVE  Bytes'
  <1>1. /\ io[w].pc \in {"wait", "dispatch"} /\ UNCHANGED <<conn, buf, acc, sock>>
        /\ \A v \in IOs \ {w} : io'[v] = io[v]
    BY EpollWaitDoes, DispatchDoes
  <1>2. ASSUME NEW k \in Clients PROVE SocketInv(k)'
    <2>1. SocketInv(k)
      BY DEF Bytes
    <2> QED
      BY <1>1, <2>1 DEF SocketInv, AllAnswered
  <1>3. ASSUME NEW c \in Conns PROVE WireInv(c)' /\ FillInv(c)'
    <2>1. WireInv(c) /\ FillInv(c)
      BY DEF Bytes
    <2>2. \A v \in IOs : io[v].pc \notin {"wait", "dispatch"} => io'[v] = io[v]
      BY <1>1
    <2>3. WireInv(c)'
      BY <1>1, <2>1, <2>2 DEF WireInv, ReqBytes, RespBytes
    <2>4. FillInv(c)'
      BY <1>1, <2>1, <2>2 DEF FillInv
    <2> QED
      BY <2>3, <2>4
  <1>4. IOWireInv(w)'
    <2>1. CASE EpollWait(w)
      <3>1. \A e \in io'[w].events : e.err => "abort" \in Closing
        <4> SUFFICES ASSUME NEW e \in io'[w].events, e.err PROVE "abort" \in Closing
          OBVIOUS
        <4> PICK c \in Conns : c = e.conn /\ e = Event(c) /\ Registered(c)
          BY <2>1, EpollWaitDoes
        <4>1. sock[conn[c].fd].err
          BY DEF Event
        <4>2. conn[c].fd \in Clients /\ IsOpen(conn[c].fd)
          BY DEF Registered, Structure, SessionInv
        <4>3. SocketInv(conn[c].fd)
          BY <4>2 DEF Bytes
        <4> QED
          BY <4>1, <4>2, <4>3 DEF SocketInv, IsOpen
      <3> QED
        BY <2>1, <3>1, EpollWaitDoes DEF IOWireInv
    <2>2. CASE Dispatch(w)
      <3>1. IOWireInv(w)
        BY DEF Bytes
      <3>2. CASE io'[w].pc = "wait" /\ io'[w].events = io[w].events
        BY <3>1, <3>2 DEF IOWireInv
      <3>3. ASSUME NEW e \in io[w].events, io'[w].pc = Handlers(e).first,
                   io'[w].events = io[w].events \ {e}
            PROVE  IOWireInv(w)'
        <4>1. io'[w].pc \in {"finish", "resp", "req"} /\ (io'[w].pc = "finish" => e.err)
          BY <3>3 DEF Handlers
        <4> QED
          BY <3>1, <3>3, <4>1 DEF IOWireInv
      <3> QED
        BY <2>2, <3>2, <3>3, DispatchDoes
    <2> QED
      BY <2>1, <2>2
  <1>5. ASSUME NEW v \in IOs \ {w} PROVE IOWireInv(v)'
    <2>1. IOWireInv(v)
      BY DEF Bytes
    <2> QED
      BY <1>1, <2>1 DEF IOWireInv
  <1> QED
    BY <1>2, <1>3, <1>4, <1>5 DEF Bytes

\* Steps that leave the sockets, and what the sessions have to do with them.
LEMMA SilentBytes ==
    ASSUME Bytes, UNCHANGED <<buf, io, sock>>, \A d \in Conns : SameWire(d),
           \A v \in IOs : io[v].pc \notin {"wait", "dispatch"} => io[v].conn \in Conns,
           \A a \in Acceptors : acc'[a].pc = "init" => acc[a].pc = "init" /\ acc'[a].fd = acc[a].fd
    PROVE  Bytes'
  <1>1. ASSUME NEW k \in Clients PROVE SocketInv(k)'
    <2>1. SocketInv(k)
      BY DEF Bytes
    <2> QED
      BY <2>1 DEF SocketInv, AllAnswered
  <1>2. ASSUME NEW c \in Conns PROVE WireInv(c)' /\ FillInv(c)'
    <2>1. WireInv(c) /\ FillInv(c)
      BY DEF Bytes
    <2>2. WireInv(c)'
      BY <2>1 DEF WireInv, ReqBytes, RespBytes, SameWire
    <2>3. FillInv(c)'
      BY <2>1 DEF FillInv, SameWire
    <2> QED
      BY <2>2, <2>3
  <1>3. ASSUME NEW w \in IOs PROVE IOWireInv(w)'
    <2>1. IOWireInv(w)
      BY DEF Bytes
    <2> QED
      BY <2>1 DEF IOWireInv, SameWire
  <1> QED
    BY <1>1, <1>2, <1>3 DEF Bytes

LEMMA OthersBytes ==
    ASSUME Structure, Ownership, Bytes,
           \/ \E x \in Computes : ComputeGet(x) \/ ComputePut(x)
           \/ \E s \in Submitters : \/ SubmitGet(s) \/ SubmitTry(s) \/ SubmitPut(s)
                                    \/ SubmitArm(s) \/ SubmitUnlock(s) \/ SubmitLast(s)
           \/ \E a \in Acceptors : AcceptWait(a) \/ AcceptGet(a) \/ AcceptMiss(a) \/ AcceptFail(a)
           \/ UNCHANGED <<conn, buf, queues, threads, sock>>
    PROVE  Bytes'
  <1>1. \A v \in IOs : io[v].pc \notin {"wait", "dispatch"} => io[v].conn \in Conns
    BY BusyConn DEF Busy
  <1>2. ASSUME NEW x \in Computes, ComputeGet(x) \/ ComputePut(x)
        PROVE  Bytes'
    <2>1. UNCHANGED <<conn, buf, io, acc, sock>>
      BY <1>2, Zenon DEF ComputeGet, ComputePut
    <2> QED
      BY <1>1, <2>1, SilentBytes DEF SameWire
  <1>3. ASSUME NEW s \in Submitters,
               \/ SubmitGet(s) \/ SubmitTry(s) \/ SubmitPut(s)
               \/ SubmitArm(s) \/ SubmitUnlock(s) \/ SubmitLast(s)
        PROVE  Bytes'
    <2>1. UNCHANGED <<buf, io, acc, sock>>
      BY <1>3, Zenon DEF SubmitGet, SubmitTry, SubmitPut, SubmitArm, SubmitUnlock, SubmitLast, queues
    <2>2. \A d \in Conns : SameWire(d)
      <3>1. CASE SubmitGet(s) \/ SubmitLast(s)
        BY <3>1 DEF SubmitGet, SubmitLast, SameWire
      <3>2. CASE SubmitTry(s)
        BY <3>2, SubmitTryDoes DEF SameWire, OnlyConn, SameOwner, SameBuffers, SameCounts
      <3>3. CASE SubmitPut(s)
        BY <3>3, SubmitPutDoes DEF SameWire, OnlyConn, SameOwner
      <3>4. CASE SubmitArm(s)
        BY <3>4, SubmitArmDoes DEF SameWire, OnlyConn, SameOwner, SameBuffers, SameCounts
      <3>5. CASE SubmitUnlock(s)
        BY <3>5, SubmitUnlockDoes DEF SameWire, OnlyConn, SameOwner, SameBuffers, SameCounts
      <3> QED
        BY <1>3, <3>1, <3>2, <3>3, <3>4, <3>5
    <2> QED
      BY <1>1, <2>1, <2>2, SilentBytes
  <1>4. ASSUME NEW a \in Acceptors,
               AcceptWait(a) \/ AcceptGet(a) \/ AcceptMiss(a) \/ AcceptFail(a)
        PROVE  Bytes'
    <2>1. /\ UNCHANGED <<conn, buf, io, sock>> /\ OnlyAcc(a) /\ acc'[a].pc # "init"
      BY <1>4, AcceptWaitDoes, AcceptGetDoes, AcceptFailDoes
    <2> QED
      BY <1>1, <2>1, SilentBytes DEF SameWire, OnlyAcc
  <1>5. CASE UNCHANGED <<conn, buf, queues, threads, sock>>
    BY <1>1, <1>5, SilentBytes DEF SameWire, threads
  <1> QED
    BY <1>2, <1>3, <1>4, <1>5

\* A connection is accepted before a byte went either way.
LEMMA AcceptFdBytes ==
    ASSUME Structure, Bytes, NEW a \in Acceptors, AcceptFd(a)
    PROVE  Bytes'
  <1> PICK k \in Clients : k = Head(backlog)
    BY AcceptFdDoes
  <1>1. /\ backlog # <<>> /\ UNCHANGED <<conn, buf, io>>
        /\ OnlyAcc(a) /\ acc'[a].pc = "init" /\ acc'[a].fd = k
        /\ OnlySock(k) /\ SameServed(k) /\ SamePeer(k) /\ sock'[k].link = "open"
    BY AcceptFdDoes
  <1>2. \A j \in Clients : SameServed(j) /\ SamePeer(j) /\ (j # k => sock'[j] = sock[j])
    BY <1>1 DEF OnlySock, SameServed, SamePeer
  <1>3. sock[k].link = "backlog"
    <2>1. backlog \in Seq(Clients)
      BY DEF Structure, Types
    <2>2. 1 \in DOMAIN backlog /\ Head(backlog) = backlog[1]
      BY <1>1, <2>1
    <2> QED
      BY <2>2 DEF Structure, ListenInv
  <1>4. ASSUME NEW j \in Clients PROVE SocketInv(j)'
    <2>1. SocketInv(j) /\ (AllAnswered(j)' <=> AllAnswered(j))
      BY <1>2 DEF Bytes, AllAnswered, SamePeer
    <2>2. CASE j = k
      <3>1. sock[k].consumed = 0 /\ sock[k].stream = <<>>
        BY <1>3, <2>1, <2>2 DEF SocketInv
      <3>2. "abort" \notin Closing => (sock[k].peer = "closed" => AllAnswered(k)) /\ ~sock[k].err
        BY <1>3, <2>1, <2>2 DEF SocketInv
      <3> QED
        BY <1>1, <2>1, <2>2, <3>1, <3>2 DEF SocketInv, SameServed, SamePeer
    <2>3. CASE j # k
      <3>1. sock'[j] = sock[j]
        BY <1>2, <2>3
      <3>2. \A x \in Acceptors : acc'[x].pc = "init" /\ acc'[x].fd = j =>
                                   acc[x].pc = "init" /\ acc[x].fd = j
        BY <1>1, <2>3 DEF OnlyAcc
      <3> QED
        BY <2>1, <3>1, <3>2 DEF SocketInv
    <2> QED
      BY <2>2, <2>3
  <1>5. ASSUME NEW c \in Conns PROVE WireInv(c)' /\ FillInv(c)'
    <2>1. WireInv(c) /\ FillInv(c)
      BY DEF Bytes
    <2>2. ~conn[c].closed => conn[c].fd \in Clients
      BY WireTypes
    <2>3. WireInv(c)'
      BY <1>1, <1>2, <2>1, <2>2 DEF WireInv, ReqBytes, RespBytes, SameServed
    <2>4. FillInv(c)'
      BY <1>1, <2>1 DEF FillInv
    <2> QED
      BY <2>3, <2>4
  <1>6. ASSUME NEW w \in IOs PROVE IOWireInv(w)'
    <2>1. IOWireInv(w) /\ IOInv(w)
      BY DEF Bytes, Structure
    <2>2. io[w].pc \in {"finish", "fin_drain"} => conn[io[w].conn].fd \in Clients
      <3> SUFFICES ASSUME io[w].pc \in {"finish", "fin_drain"} PROVE conn[io[w].conn].fd \in Clients
        OBVIOUS
      <3>1. io[w].conn \in Conns /\ ~conn[io[w].conn].closed
        BY <2>1 DEF IOInv, Busy
      <3> QED
        BY <3>1, WireTypes
    <2> QED
      BY <1>1, <1>2, <2>1, <2>2 DEF IOWireInv, SamePeer
  <1> QED
    BY <1>4, <1>5, <1>6 DEF Bytes

LEMMA AcceptInitBytes ==
    ASSUME Structure, Bytes, NEW a \in Acceptors, AcceptInit(a) \/ AcceptCtlFail(a)
    PROVE  Bytes'
  <1> PICK c \in Conns : c = acc[a].conn
    BY AcceptInitDoes, AcceptCtlFailDoes
  <1> PICK k \in Clients : k = acc[a].fd
    BY AcceptInitDoes, AcceptCtlFailDoes
  <1>1. /\ acc[a].pc = "init" /\ UNCHANGED <<buf, io, sock>> /\ OnlyConn(c) /\ Fresh(c, k)
        /\ OnlyAcc(a) /\ acc'[a].pc # "init"
    BY AcceptInitDoes, AcceptCtlFailDoes
  <1>2. Released(c) /\ conn[c].sendbuf = NULL
    BY DEF Released, Taken, Structure, SessionInv
  <1>3. sock[k].consumed = 0 /\ sock[k].stream = <<>>
    BY <1>1 DEF Bytes, SocketInv
  <1>4. ASSUME NEW j \in Clients PROVE SocketInv(j)'
    <2>1. SocketInv(j)
      BY DEF Bytes
    <2>2. \A x \in Acceptors : acc'[x].pc = "init" /\ acc'[x].fd = j =>
                                 acc[x].pc = "init" /\ acc[x].fd = j
      BY <1>1 DEF OnlyAcc
    <2> QED
      BY <1>1, <2>1, <2>2 DEF SocketInv, AllAnswered
  <1>5. ASSUME NEW d \in Conns PROVE WireInv(d)' /\ FillInv(d)'
    <2>1. CASE d = c
      <3>1. ReqBytes(NULL)' = 0 /\ RespBytes(NULL)' = 0
        BY DEF ReqBytes, RespBytes
      <3>2. conn'[c].recvbuf = NULL /\ conn'[c].sendbuf = NULL /\ conn'[c].fd = k
            /\ conn'[c].received = 0 /\ conn'[c].sent = 0
        BY <1>1, <1>2 DEF Fresh
      <3>3. sock'[k].consumed = 0 * ReqLen + 0 /\ Len(sock'[k].stream) = 0 * RespLen + 0
        BY <1>1, <1>3, Constants
      <3> QED
        BY <2>1, <3>1, <3>2, <3>3 DEF WireInv, FillInv
    <2>2. CASE d # c
      <3>1. conn'[d] = conn[d] /\ WireInv(d) /\ FillInv(d)
        BY <1>1, <2>2 DEF OnlyConn, Bytes
      <3>2. WireInv(d)'
        BY <1>1, <3>1 DEF WireInv, ReqBytes, RespBytes
      <3>3. FillInv(d)'
        BY <1>1, <3>1 DEF FillInv
      <3> QED
        BY <3>2, <3>3
    <2> QED
      BY <2>1, <2>2
  <1>6. ASSUME NEW w \in IOs PROVE IOWireInv(w)'
    <2>1. IOWireInv(w)
      BY DEF Bytes
    <2>2. CASE Busy(w)
      <3> PICK d \in Conns : d = io[w].conn
        BY <2>2, BusyConn
      <3>1. d # c
        BY <1>2, <2>2, BusyConn
      <3>2. conn'[d] = conn[d]
        BY <1>1, <3>1 DEF OnlyConn
      <3> QED
        BY <1>1, <2>1, <3>2 DEF IOWireInv
    <2>3. CASE ~Busy(w)
      BY <1>1, <2>1, <2>3 DEF IOWireInv, Busy
    <2> QED
      BY <2>2, <2>3
  <1> QED
    BY <1>4, <1>5, <1>6 DEF Bytes

\* A client that closes when all is answered has read all that was sent.
LEMMA NothingUnread ==
    ASSUME Structure, NEW k \in Clients, SocketInv(k), AllAnswered(k)
    PROVE  ~(Unread(k) > 0)
  <1>1. sock[k] \in SockType
    BY DEF Structure, Types
  <1>2. sock[k].stream \in Seq(Msg)
    BY <1>1 DEF SockType
  <1> DEFINE x == Len(sock[k].stream)
             g == sock[k].got
             s == sock[k].consumed
             u == sock[k].wrote
             p == RespLen
             q == ReqLen
  <1>3. /\ x \in Nat /\ g \in Nat /\ s \in Nat /\ u \in Nat /\ p \in Nat /\ q \in Nat \ {0}
        /\ s <= u /\ x * q <= s * p /\ u * p = g * q
    BY <1>1, <1>2, Constants DEF SockType, SocketInv, AllAnswered
  <1> HIDE DEF x, g, s, u, p, q
  <1>4. x * q <= g * q
    <2> DEFINE l == x * q
               m == s * p
               n == u * p
               o == g * q
    <2>1. l \in Nat /\ m \in Nat /\ n \in Nat /\ l <= m /\ m <= n /\ n = o
      BY <1>3, TimesMono, TimesNext
    <2> HIDE DEF l, m, n, o
    <2>2. l <= o
      BY <2>1
    <2> QED
      BY <2>2 DEF l, o
  <1>5. x <= g
    BY <1>3, <1>4, TimesLess
  <1>6. ~(x - g > 0)
    BY <1>3, <1>5
  <1> QED
    BY <1>6 DEF Unread, x, g

LEMMA ClientBytes ==
    ASSUME Structure, Bytes, NEW k \in Clients, ClientStep(k) \/ ClientShutdown(k)
    PROVE  Bytes'
  <1>1. /\ UNCHANGED <<conn, buf, io, acc>> /\ OnlySock(k) /\ SameServed(k)
        /\ sock[k].peer # "open" => sock'[k].peer # "open"
    <2>1. CASE Connect(k)
      BY <2>1, ConnectDoes DEF server, threads, SamePeer
    <2>2. CASE ClientWrite(k)
      BY <2>2, ClientWriteDoes DEF server, threads
    <2>3. CASE ClientRead(k)
      BY <2>3, ClientReadDoes DEF server, threads
    <2>4. CASE ClientClose(k)
      BY <2>4, ClientCloseDoes DEF server, threads
    <2>5. CASE ClientShutdown(k)
      BY <2>5, ClientShutdownDoes DEF server, threads
    <2> QED
      BY <2>1, <2>2, <2>3, <2>4, <2>5 DEF ClientStep
  <1>2. \A j \in Clients : /\ SameServed(j) /\ (j # k => sock'[j] = sock[j])
                           /\ sock[j].peer # "open" => sock'[j].peer # "open"
    BY <1>1 DEF OnlySock, SameServed
  <1>3. SocketInv(k) /\ sock[k] \in SockType
    BY DEF Bytes, Structure, Types
  <1>4. /\ sock[k].wrote \in Nat /\ sock[k].got \in Nat /\ sock[k].consumed \in Nat
        /\ Len(sock[k].stream) \in Nat /\ MaxRequests * ReqLen \in Nat /\ SockBuf \in Nat
    <2>1. sock[k].stream \in Seq(Msg)
      BY <1>3 DEF SockType
    <2>2. MaxRequests * ReqLen \in Nat /\ SockBuf \in Nat
      BY Constants, TimesNext
    <2> QED
      BY <1>3, <2>1, <2>2 DEF SockType
  <1>5. SocketInv(k)'
    <2>1. CASE Connect(k)
      <3>1. sock[k].link = "none" /\ SamePeer(k) /\ sock'[k].link = "backlog"
        BY <2>1, ConnectDoes
      <3>2. sock[k].peer = "open" /\ sock[k].consumed = 0 /\ sock[k].stream = <<>>
        BY <1>3, <3>1 DEF SocketInv
      <3>3. "abort" \notin Closing => ~sock[k].err
        BY <1>3, <3>1 DEF SocketInv
      <3> QED
        BY <1>1, <1>3, <3>1, <3>2, <3>3 DEF SocketInv, SamePeer, SameServed
    <2>2. CASE ClientWrite(k)
      <3>1. /\ sock[k].peer = "open" /\ sock[k].wrote < MaxRequests * ReqLen
            /\ sock'[k].link = sock[k].link /\ sock'[k].peer = sock[k].peer
            /\ sock'[k].err = sock[k].err /\ sock'[k].wrote = sock[k].wrote + 1
            /\ sock'[k].got = sock[k].got /\ SameServed(k)
        BY <1>1, <2>2, ClientWriteDoes
      <3>2. sock'[k].consumed <= sock'[k].wrote /\ sock'[k].wrote <= MaxRequests * ReqLen
        <4> DEFINE y == MaxRequests * ReqLen
        <4>1. y \in Nat /\ sock[k].wrote < y /\ sock[k].consumed <= sock[k].wrote
          BY <1>3, <1>4, <3>1 DEF SocketInv
        <4> HIDE DEF y
        <4>2. sock[k].consumed <= sock[k].wrote + 1 /\ sock[k].wrote + 1 <= y
          BY <1>4, <4>1
        <4> QED
          BY <3>1, <4>2 DEF y, SameServed
      <3> QED
        BY <1>1, <1>3, <3>1, <3>2 DEF SocketInv, SameServed
    <2>3. CASE ClientRead(k)
      <3>1. /\ sock[k].peer # "closed" /\ Unread(k) > 0
            /\ sock'[k].link = sock[k].link /\ sock'[k].peer = sock[k].peer
            /\ sock'[k].err = sock[k].err /\ sock'[k].wrote = sock[k].wrote
            /\ sock'[k].got = sock[k].got + 1 /\ SameServed(k) /\ sock[k].link # "none"
        BY <1>1, <2>3, ClientReadDoes
      <3>2. /\ sock'[k].got <= Len(sock[k].stream)
            /\ Len(sock[k].stream) <= sock'[k].got + SockBuf
        BY <1>3, <1>4, <3>1 DEF SocketInv, Unread
      <3> QED
        BY <1>1, <1>3, <3>1, <3>2 DEF SocketInv, SameServed
    <2>4. CASE ClientClose(k)
      <3>1. /\ sock[k].link # "none" /\ sock'[k].link = sock[k].link /\ sock'[k].peer = "closed"
            /\ sock'[k].err = (Unread(k) > 0) /\ sock'[k].wrote = sock[k].wrote
            /\ sock'[k].got = sock[k].got /\ SameServed(k)
            /\ \/ "abort" \in Closing
               \/ AllAnswered(k)
               \/ sock[k].link = "shut" /\ Unread(k) = 0
        BY <1>1, <2>4, ClientCloseDoes
      <3>2. "abort" \notin Closing /\ sock[k].link # "shut" => AllAnswered(k)
        BY <3>1
      <3>3. "abort" \notin Closing /\ sock[k].link # "shut" => ~sock'[k].err
        BY <1>3, <3>1, <3>2, NothingUnread
      <3>4. AllAnswered(k)' <=> AllAnswered(k)
        BY <3>1 DEF AllAnswered
      <3> QED
        BY <1>1, <1>3, <3>1, <3>2, <3>3, <3>4 DEF SocketInv, SameServed
    <2>5. CASE ClientShutdown(k)
      <3>1. /\ "half" \in Closing /\ sock[k].link # "none" /\ sock'[k].link = sock[k].link
            /\ sock'[k].peer = "half" /\ sock'[k].err = sock[k].err
            /\ sock'[k].wrote = sock[k].wrote /\ sock'[k].got = sock[k].got /\ SameServed(k)
        BY <1>1, <2>5, ClientShutdownDoes
      <3> QED
        BY <1>1, <1>3, <3>1 DEF SocketInv, SameServed
    <2> QED
      BY <2>1, <2>2, <2>3, <2>4, <2>5 DEF ClientStep
  <1>6. ASSUME NEW j \in Clients PROVE SocketInv(j)'
    <2>1. CASE j # k
      <3>1. sock'[j] = sock[j] /\ SocketInv(j)
        BY <1>2, <2>1 DEF Bytes
      <3> QED
        BY <1>1, <3>1 DEF SocketInv, AllAnswered
    <2> QED
      BY <1>5, <2>1
  <1>7. ASSUME NEW c \in Conns PROVE WireInv(c)' /\ FillInv(c)'
    <2>1. WireInv(c) /\ FillInv(c)
      BY DEF Bytes
    <2>2. ~conn[c].closed => conn[c].fd \in Clients
      BY WireTypes
    <2>3. WireInv(c)'
      BY <1>1, <1>2, <2>1, <2>2 DEF WireInv, ReqBytes, RespBytes, SameServed
    <2>4. FillInv(c)'
      BY <1>1, <2>1 DEF FillInv
    <2> QED
      BY <2>3, <2>4
  <1>8. ASSUME NEW w \in IOs PROVE IOWireInv(w)'
    <2>1. IOWireInv(w) /\ IOInv(w)
      BY DEF Bytes, Structure
    <2>2. io[w].pc \in {"finish", "fin_drain"} => conn[io[w].conn].fd \in Clients
      <3> SUFFICES ASSUME io[w].pc \in {"finish", "fin_drain"} PROVE conn[io[w].conn].fd \in Clients
        OBVIOUS
      <3>1. io[w].conn \in Conns /\ ~conn[io[w].conn].closed
        BY <2>1 DEF IOInv, Busy
      <3> QED
        BY <3>1, WireTypes
    <2> QED
      BY <1>1, <1>2, <2>1, <2>2 DEF IOWireInv
  <1> QED
    BY <1>6, <1>7, <1>8 DEF Bytes

LEMMA BytesStep ==
    ASSUME Structure, Ownership, Counting, Bytes, Orderly, [Next]_vars
    PROVE  Bytes'
  <1>0. ASSUME UNCHANGED <<conn, buf, queues, threads, sock>> PROVE Bytes'
    BY <1>0, OthersBytes
  <1>1. ASSUME NEW a \in Acceptors, AcceptStep(a) PROVE Bytes'
    BY <1>0, <1>1, OthersBytes, AcceptFdBytes, AcceptInitBytes
       DEF AcceptStep, AcceptIdle, IdleReturn
  <1>2. ASSUME NEW w \in IOs, IOStep(w) PROVE Bytes'
    <2>1. CASE EpollWait(w) \/ Dispatch(w) \/ IOIdle(w)
      BY <1>0, <2>1, PollBytes DEF IOIdle, IdleReturn
    <2>2. CASE RespTake(w) \/ RespSent(w) \/ ReqTake(w) \/ ReqPut(w) \/ FinishDrain(w)
      BY <2>2, RespTakeBytes, RespSentBytes, ReqTakeBytes, ReqPutBytes, FinishDrainBytes
    <2>3. CASE \/ RespLock(w) \/ RespUnlock(w) \/ ReqLock(w) \/ ReqUnlock(w)
               \/ FinishTry(w) \/ FinishEnd(w)
      BY <2>3, LockBytes
    <2>4. CASE Send(w)
      BY <2>4, SendQuiet, SendMoves
    <2>5. CASE Recv(w)
      BY <2>5, RecvQuiet, RecvMoves
    <2> QED
      BY <1>2, <2>1, <2>2, <2>3, <2>4, <2>5 DEF IOStep
  <1>3. ASSUME NEW x \in Computes, ComputeStep(x) PROVE Bytes'
    BY <1>0, <1>3, OthersBytes DEF ComputeStep, ComputeIdle, IdleReturn
  <1>4. ASSUME NEW s \in Submitters, SubmitStep(s) PROVE Bytes'
    BY <1>0, <1>4, OthersBytes DEF SubmitStep, SubmitIdle, IdleReturn
  <1>5. ASSUME NEW k \in Clients, ClientStep(k) \/ ClientShutdown(k) PROVE Bytes'
    BY <1>5, ClientBytes
  <1>6. CASE Stop \/ Over \/ UNCHANGED vars
    BY <1>0, <1>6 DEF Stop, Over, vars
  <1> QED
    BY <1>1, <1>2, <1>3, <1>4, <1>5, <1>6 DEF Next

----------------------------------------------------------------------------
\* The initial states

\* A pool that is filled with each of its objects holds each once.
LEMMA FilledPool ==
    ASSUME NEW S, IsFiniteSet(S), NEW q \in [1 .. Cardinality(S) -> S],
           \A e \in S : \E i \in DOMAIN q : q[i] = e
    PROVE  q \in Seq(S) /\ Inj(q) /\ Elems(q) = S
  <1>1. Cardinality(S) \in Nat
    BY FS_CardinalityType
  <1>2. IsFiniteSet(1 .. Cardinality(S)) /\ Cardinality(1 .. Cardinality(S)) = Cardinality(S)
    BY <1>1, FS_Interval
  <1>3. q \in Surjection(1 .. Cardinality(S), S)
    BY DEF Surjection
  <1>4. q \in Injection(1 .. Cardinality(S), S)
    BY <1>2, <1>3, FS_SurjSameCardinalityImpliesInj
  <1>5. Inj(q)
    BY <1>4 DEF Injection, IsInjective, Inj
  <1>6. Elems(q) = S
    BY DEF Elems
  <1>7. q \in Seq(S)
    BY <1>1
  <1> QED
    BY <1>5, <1>6, <1>7

LEMMA InitStructure ==
    ASSUME Init
    PROVE  Structure
  <1>1. /\ empty_connections \in Seq(Conns) /\ Inj(empty_connections)
        /\ Elems(empty_connections) = Conns /\ empty_buffers \in Seq(Buffers)
    BY ServerAssumption, FilledPool DEF Init
  <1>2. Types
    <2>1. conn \in [Conns -> ConnType]
      <3> DEFINE r == [fd |-> NULL, closed |-> TRUE, lock |-> 0, epoll_state |-> {},
          ioidx |-> NULL, submitidx |-> NULL, computeidx |-> NULL,
          recvbuf |-> NULL, sendbuf |-> NULL, send_queue |-> <<>>,
          received |-> 0, processed |-> 0, sent |-> 0]
      <3>1. r \in ConnType
        BY DEF ConnType
      <3>2. conn = [c \in Conns |-> r]
        BY DEF Init
      <3> QED
        BY <3>1, <3>2
    <2>2. buf \in [Buffers -> BufType]
      BY ServerAssumption DEF Init, BufType, Msg
    <2>3. sock \in [Clients -> SockType]
      BY DEF Init, SockType
    <2>4. io \in [IOs -> IOType] /\ sub \in [Submitters -> SubType] /\ acc \in [Acceptors -> AccType]
      BY DEF Init, IOType, IOPc, SubType, AccType, Polling
    <2>5. /\ compute_inbox \in [Computes -> Seq(Buffers)]
          /\ submitter_inbox \in [Submitters -> Seq(Buffers)]
          /\ cmp \in [Computes -> Buffers \cup {NULL}] /\ backlog \in Seq(Clients)
      BY DEF Init
    <2> QED
      BY <1>1, <2>1, <2>2, <2>3, <2>4, <2>5 DEF Types
  <1>3. ListenInv
    BY <1>1 DEF ListenInv, Init, Inj
  <1>4. ASSUME NEW a \in Acceptors PROVE AcceptInv(a)
    BY DEF AcceptInv, Init
  <1>5. ASSUME NEW c \in Conns PROVE SessionInv(c) /\ LockInv(c)
    BY <1>1 DEF SessionInv, LockInv, Released, Pooled, Init
  <1>6. ASSUME NEW w \in IOs PROVE IOInv(w) /\ EventInv(w)
    BY DEF IOInv, EventInv, Busy, IOSection, Init
  <1>7. ASSUME NEW s \in Submitters PROVE SubmitInv(s)
    BY DEF SubmitInv, SubSection, Polling, Init
  <1> QED
    BY <1>2, <1>3, <1>4, <1>5, <1>6, <1>7 DEF Structure

LEMMA InitOwnership ==
    ASSUME Init
    PROVE  Ownership
  <1>1. empty_buffers \in Seq(Buffers) /\ Inj(empty_buffers) /\ Elems(empty_buffers) = Buffers
    BY ServerAssumption, FilledPool DEF Init
  <1>2. Elems(<<>>) = {} /\ Inj(<<>>)
    BY DEF Elems, Inj
  <1>3. QueuesInj
    BY <1>1, <1>2 DEF QueuesInj, Init
  <1>4. ASSUME NEW b \in Buffers PROVE Located(b)
    <2>1. b # NULL
      BY ServerAssumption
    <2>2. At(b, "pool", NULL) /\ "pool" \in PlaceKinds /\ NULL \in PlaceIds
      BY <1>1 DEF At, PlaceKinds, PlaceIds
    <2>3. ASSUME NEW q, NEW j, At(b, q, j) PROVE q = "pool" /\ j = NULL
      BY <1>2, <2>1, <2>3 DEF At, Init, Polling
    <2> QED
      BY <2>2, <2>3 DEF Located
  <1>5. ASSUME NEW b \in Buffers PROVE BufferInv(b)
    <2>1. b # NULL
      BY ServerAssumption
    <2> QED
      BY <1>2, <2>1 DEF BufferInv, Pipelined, AtSubmitter, Init, Polling
  <1> QED
    BY <1>3, <1>4, <1>5 DEF Ownership

LEMMA InitInvariant ==
    ASSUME Init
    PROVE  ServerInv
  <1>1. Counting
    <2> SUFFICES ASSUME NEW c \in Conns PROVE CountInv(c) /\ OutInv(c)
      BY DEF Counting
    <2>1. c \in Elems(empty_connections)
      BY ServerAssumption, FilledPool DEF Init
    <2> QED
      BY <2>1, ServerAssumption DEF CountInv, OutInv, Released, Pooled, Init
  <1>2. Bytes
    <2>1. ASSUME NEW k \in Clients PROVE SocketInv(k)
      <3>1. /\ 0 <= 0 + SockBuf /\ 0 <= MaxRequests * ReqLen /\ 0 * ReqLen = 0 /\ 0 * RespLen = 0
            /\ Len(<<>>) = 0
        BY ServerAssumption
      <3>2. /\ sock[k].link = "none" /\ sock[k].peer = "open" /\ sock[k].err = FALSE
            /\ sock[k].wrote = 0 /\ sock[k].consumed = 0 /\ sock[k].stream = <<>>
            /\ sock[k].got = 0
        BY DEF Init
      <3> QED
        BY <3>1, <3>2 DEF SocketInv
    <2>2. ASSUME NEW c \in Conns PROVE WireInv(c) /\ FillInv(c)
      BY DEF WireInv, FillInv, Init
    <2>3. ASSUME NEW w \in IOs PROVE IOWireInv(w)
      BY DEF IOWireInv, Init
    <2> QED
      BY <2>1, <2>2, <2>3 DEF Bytes
  <1> QED
    BY <1>1, <1>2, InitStructure, InitOwnership DEF ServerInv

LEMMA InvariantStep ==
    ASSUME Orderly, ServerInv, [Next]_vars
    PROVE  ServerInv'
  <1>1. Structure /\ Ownership /\ Counting /\ Bytes
    BY DEF ServerInv
  <1>2. Harmless
    BY <1>1, HarmlessNow
  <1>3. Structure' /\ Ownership' /\ Counting' /\ Bytes'
    BY <1>1, <1>2, StructureStep, OwnershipStep, CountingStep, BytesStep
  <1> QED
    BY <1>3 DEF ServerInv

(***************************************************************************)
(* Whatever the threads and clients do, each session, buffer and socket    *)
(* stays in step with the others: ServerInv holds in every state, if the   *)
(* clients or the configuration are such that finish_connection never      *)
(* leaves a half-sent response behind in a session (Orderly).              *)
(***************************************************************************)
THEOREM ServerInvariance == ASSUME Orderly PROVE Spec => []ServerInv
  <1>1. Init => ServerInv
    BY InitInvariant
  <1>2. ServerInv /\ [Next]_vars => ServerInv'
    BY InvariantStep
  <1> QED
    BY <1>1, <1>2, PTL DEF Spec

----------------------------------------------------------------------------
\* The properties that follow from the invariant in each state

LEMMA TypesHold ==
    ASSUME ServerInv
    PROVE  TypeOK
  <1>1. Types /\ Bytes
    BY DEF ServerInv, Structure
  <1>2. ASSUME NEW c \in Conns
        PROVE  /\ conn[c].fd \in Clients \cup {NULL}
               /\ conn[c].closed \in BOOLEAN /\ conn[c].lock \in {0, 1}
               /\ conn[c].epoll_state \subseteq {"IN", "OUT"}
               /\ conn[c].recvbuf \in Buffers \cup {NULL}
               /\ conn[c].sendbuf \in Buffers \cup {NULL}
               /\ Elems(conn[c].send_queue) \subseteq Buffers
               /\ {conn[c].received, conn[c].processed, conn[c].sent} \subseteq Nat
    <2>1. conn[c] \in ConnType
      BY <1>1 DEF Types
    <2>2. conn[c].send_queue \in Seq(Buffers)
      BY <2>1 DEF ConnType
    <2>3. Elems(conn[c].send_queue) \subseteq Buffers
      BY <2>2 DEF Elems
    <2> QED
      BY <2>1, <2>3 DEF ConnType
  <1>3. ASSUME NEW b \in Buffers
        PROVE  buf[b].conn \in Conns \cup {NULL} /\ buf[b].left \in 0 .. ReqLen + RespLen
    BY <1>1 DEF Types, BufType
  <1>4. /\ \A w \in IOs : io[w].conn \in Conns \cup {NULL}
        /\ \A s \in Submitters : sub[s].buff \in Buffers \cup {NULL}
        /\ \A x \in Computes : cmp[x] \in Buffers \cup {NULL}
    BY <1>1 DEF Types, IOType, SubType
  <1>5. ASSUME NEW k \in Clients
        PROVE  Avail(k) \in Nat /\ Room(k) \in Nat /\ Unread(k) \in Nat
    <2>1. SocketInv(k) /\ sock[k] \in SockType
      BY <1>1 DEF Types, Bytes
    <2>2. /\ sock[k].wrote \in Nat /\ sock[k].consumed \in Nat /\ sock[k].got \in Nat
          /\ sock[k].stream \in Seq(Msg)
      BY <2>1 DEF SockType
    <2>3. Len(sock[k].stream) \in Nat
      BY <2>2
    <2>4. /\ sock[k].consumed <= sock[k].wrote /\ sock[k].got <= Len(sock[k].stream)
          /\ Len(sock[k].stream) <= sock[k].got + SockBuf
      BY <2>1 DEF SocketInv
    <2>5. Avail(k) \in Nat
      BY <2>2, <2>4 DEF Avail
    <2>6. Unread(k) \in Nat
      BY <2>2, <2>3, <2>4 DEF Unread
    <2>7. Unread(k) <= SockBuf
      BY <2>2, <2>3, <2>4, Constants DEF Unread
    <2>8. Room(k) \in Nat
      BY <2>6, <2>7, Constants DEF Room
    <2> QED
      BY <2>5, <2>6, <2>8
  <1> QED
    BY <1>2, <1>3, <1>4, <1>5 DEF TypeOK

\* A set of which any two elements are equal.
LEMMA AtMostOne ==
    ASSUME NEW S, \A x, y \in S : x = y
    PROVE  /\ Cardinality(S) <= 1
           /\ S # {} => Cardinality(S) = 1
           /\ S = {} => Cardinality(S) = 0
  <1>1. S # {} => \E x : S = {x}
    OBVIOUS
  <1>2. \A x : Cardinality({x}) = 1
    BY FS_Singleton
  <1>3. S # {} => Cardinality(S) = 1
    BY <1>1, <1>2
  <1>4. S = {} => Cardinality(S) = 0
    BY FS_EmptySet
  <1> QED
    BY <1>3, <1>4

\* The element z of Places(b) that stands for place p of session or thread i.
PlaceAt(b, p, i, z) ==
    \/ p = "pool" /\ i = NULL /\ z \in {"pool"} \X Holds(empty_buffers, b)
    \/ p = "compute" /\ i \in Computes /\ z \in {<<"compute", i>>} \X Holds(compute_inbox[i], b)
    \/ p = "computing" /\ i \in Computes /\ cmp[i] = b /\ z = <<"computing", i>>
    \/ p = "submit" /\ i \in Submitters
       /\ z \in {<<"submit", i>>} \X Holds(submitter_inbox[i], b)
    \/ p = "submitting" /\ i \in Submitters /\ sub[i].buff = b /\ sub[i].pc \in {"try", "put"}
       /\ z = <<"submitting", i>>
    \/ p = "queue" /\ i \in Conns /\ z \in {<<"queue", i>>} \X Holds(conn[i].send_queue, b)
    \/ p = "sendbuf" /\ i \in Conns /\ conn[i].sendbuf = b /\ ~conn[i].closed
       /\ z = <<"sendbuf", i>>
    \/ p = "recvbuf" /\ i \in Conns /\ conn[i].recvbuf = b /\ ~conn[i].closed
       /\ z = <<"recvbuf", i>>

LEMMA Conserved ==
    ASSUME ServerInv
    PROVE  BufferConserved
  <1> SUFFICES ASSUME NEW b \in Buffers PROVE Cardinality(Places(b)) = 1
    BY DEF BufferConserved
  <1>1. Located(b) /\ QueuesInj
    BY DEF ServerInv, Ownership
  <1>2. ASSUME NEW z
        PROVE  z \in Places(b) <=>
                 \/ z \in {"pool"} \X Holds(empty_buffers, b)
                 \/ \E x \in Computes : z \in {<<"compute", x>>} \X Holds(compute_inbox[x], b)
                 \/ \E x \in Computes : cmp[x] = b /\ z = <<"computing", x>>
                 \/ \E s \in Submitters :
                      z \in {<<"submit", s>>} \X Holds(submitter_inbox[s], b)
                 \/ \E s \in Submitters : sub[s].buff = b /\ sub[s].pc \in {"try", "put"}
                                          /\ z = <<"submitting", s>>
                 \/ \E c \in Conns : z \in {<<"queue", c>>} \X Holds(conn[c].send_queue, b)
                 \/ \E c \in Conns : conn[c].sendbuf = b /\ ~conn[c].closed /\ z = <<"sendbuf", c>>
                 \/ \E c \in Conns : conn[c].recvbuf = b /\ ~conn[c].closed /\ z = <<"recvbuf", c>>
    <2> DEFINE inboxes == UNION {{<<"compute", x>>} \X Holds(compute_inbox[x], b) : x \in Computes}
               waiting == UNION {{<<"submit", s>>} \X Holds(submitter_inbox[s], b) : s \in Submitters}
               queued == UNION {{<<"queue", c>>} \X Holds(conn[c].send_queue, b) : c \in Conns}
               received == {"recvbuf"} \X {c \in Conns : conn[c].recvbuf = b /\ ~conn[c].closed}
               sending == {"sendbuf"} \X {c \in Conns : conn[c].sendbuf = b /\ ~conn[c].closed}
               computing == {"computing"} \X {x \in Computes : cmp[x] = b}
               submitting == {"submitting"} \X
                               {s \in Submitters : sub[s].buff = b /\ sub[s].pc \in {"try", "put"}}
    <2>1. Places(b) = ({"pool"} \X Holds(empty_buffers, b)) \cup inboxes \cup waiting \cup queued
                        \cup received \cup sending \cup computing \cup submitting
      BY DEF Places
    <2>2. z \in inboxes <=>
            \E x \in Computes : z \in {<<"compute", x>>} \X Holds(compute_inbox[x], b)
      OBVIOUS
    <2>3. z \in waiting <=>
            \E s \in Submitters : z \in {<<"submit", s>>} \X Holds(submitter_inbox[s], b)
      OBVIOUS
    <2>4. z \in queued <=>
            \E c \in Conns : z \in {<<"queue", c>>} \X Holds(conn[c].send_queue, b)
      OBVIOUS
    <2>5. /\ z \in received <=>
               \E c \in Conns : conn[c].recvbuf = b /\ ~conn[c].closed /\ z = <<"recvbuf", c>>
          /\ z \in sending <=>
               \E c \in Conns : conn[c].sendbuf = b /\ ~conn[c].closed /\ z = <<"sendbuf", c>>
          /\ z \in computing <=> \E x \in Computes : cmp[x] = b /\ z = <<"computing", x>>
          /\ z \in submitting <=>
               \E s \in Submitters : sub[s].buff = b /\ sub[s].pc \in {"try", "put"}
                                     /\ z = <<"submitting", s>>
      OBVIOUS
    <2> HIDE DEF inboxes, waiting, queued, received, sending, computing, submitting
    <2> QED
      BY <2>1, <2>2, <2>3, <2>4, <2>5
  <1>3. ASSUME NEW z, z \in Places(b)
        PROVE  \E p, i : PlaceAt(b, p, i, z)
    <2>1. z \in {"pool"} \X Holds(empty_buffers, b) => PlaceAt(b, "pool", NULL, z)
      BY DEF PlaceAt
    <2>2. \A x \in Computes :
            /\ z \in {<<"compute", x>>} \X Holds(compute_inbox[x], b) => PlaceAt(b, "compute", x, z)
            /\ cmp[x] = b /\ z = <<"computing", x>> => PlaceAt(b, "computing", x, z)
      BY DEF PlaceAt
    <2>3. \A s \in Submitters :
            /\ z \in {<<"submit", s>>} \X Holds(submitter_inbox[s], b) => PlaceAt(b, "submit", s, z)
            /\ sub[s].buff = b /\ sub[s].pc \in {"try", "put"} /\ z = <<"submitting", s>>
                 => PlaceAt(b, "submitting", s, z)
      BY DEF PlaceAt
    <2>4. \A c \in Conns :
            /\ z \in {<<"queue", c>>} \X Holds(conn[c].send_queue, b) => PlaceAt(b, "queue", c, z)
            /\ conn[c].sendbuf = b /\ ~conn[c].closed /\ z = <<"sendbuf", c>>
                 => PlaceAt(b, "sendbuf", c, z)
            /\ conn[c].recvbuf = b /\ ~conn[c].closed /\ z = <<"recvbuf", c>>
                 => PlaceAt(b, "recvbuf", c, z)
      BY DEF PlaceAt
    <2> HIDE DEF PlaceAt
    <2> QED
      BY <1>2, <1>3, <2>1, <2>2, <2>3, <2>4
  <1>4. ASSUME NEW p, NEW i, NEW z, PlaceAt(b, p, i, z)
        PROVE  z \in Places(b) /\ At(b, p, i) /\ p \in PlaceKinds /\ i \in PlaceIds
    <2>1. z \in Places(b)
      BY <1>2, <1>4 DEF PlaceAt
    <2>2. At(b, p, i)
      BY <1>4 DEF PlaceAt, At, Holds, Elems
    <2>3. p \in PlaceKinds /\ i \in PlaceIds
      BY <1>4 DEF PlaceAt, PlaceKinds, PlaceIds
    <2> QED
      BY <2>1, <2>2, <2>3
  <1>5. ASSUME NEW p, NEW i, NEW y, NEW z, PlaceAt(b, p, i, y), PlaceAt(b, p, i, z)
        PROVE  y = z
    BY <1>1, <1>5 DEF PlaceAt, QueuesInj, Inj, Holds
  <1>6. ASSUME NEW p, NEW i, At(b, p, i)
        PROVE  \E z : PlaceAt(b, p, i, z)
    <2>1. \A s : b \in Elems(s) => \E n : n \in Holds(s, b)
      BY DEF Elems, Holds
    <2>2. CASE p \in {"computing", "submitting", "sendbuf", "recvbuf"}
      <3>1. PlaceAt(b, p, i, <<p, i>>)
        BY <1>6, <2>2 DEF At, PlaceAt
      <3> QED
        BY <3>1
    <2>3. CASE p = "pool"
      <3>1. i = NULL /\ \E n : n \in Holds(empty_buffers, b)
        BY <1>6, <2>1, <2>3 DEF At
      <3>2. PICK n : n \in Holds(empty_buffers, b)
        BY <3>1
      <3>3. PlaceAt(b, p, i, <<"pool", n>>)
        BY <2>3, <3>1, <3>2 DEF PlaceAt
      <3> QED
        BY <3>3
    <2>4. CASE p = "compute"
      <3>1. i \in Computes /\ \E n : n \in Holds(compute_inbox[i], b)
        BY <1>6, <2>1, <2>4 DEF At
      <3>2. PICK n : n \in Holds(compute_inbox[i], b)
        BY <3>1
      <3>3. PlaceAt(b, p, i, <<<<"compute", i>>, n>>)
        BY <2>4, <3>1, <3>2 DEF PlaceAt
      <3> QED
        BY <3>3
    <2>5. CASE p = "submit"
      <3>1. i \in Submitters /\ \E n : n \in Holds(submitter_inbox[i], b)
        BY <1>6, <2>1, <2>5 DEF At
      <3>2. PICK n : n \in Holds(submitter_inbox[i], b)
        BY <3>1
      <3>3. PlaceAt(b, p, i, <<<<"submit", i>>, n>>)
        BY <2>5, <3>1, <3>2 DEF PlaceAt
      <3> QED
        BY <3>3
    <2>6. CASE p = "queue"
      <3>1. i \in Conns /\ \E n : n \in Holds(conn[i].send_queue, b)
        BY <1>6, <2>1, <2>6 DEF At
      <3>2. PICK n : n \in Holds(conn[i].send_queue, b)
        BY <3>1
      <3>3. PlaceAt(b, p, i, <<<<"queue", i>>, n>>)
        BY <2>6, <3>1, <3>2 DEF PlaceAt
      <3> QED
        BY <3>3
    <2> QED
      BY <1>6, <2>2, <2>3, <2>4, <2>5, <2>6 DEF At
  <1>7. \A y, z \in Places(b) : y = z
    <2> TAKE y, z \in Places(b)
    <2>1. PICK p, i : PlaceAt(b, p, i, y)
      BY <1>3
    <2>2. PICK q, j : PlaceAt(b, q, j, z)
      BY <1>3
    <2>3. q = p /\ j = i
      BY <1>1, <1>4, <2>1, <2>2, OnePlace
    <2> QED
      BY <1>5, <2>1, <2>2, <2>3
  <1>8. Places(b) # {}
    BY <1>1, <1>4, <1>6 DEF Located
  <1> QED
    BY <1>7, <1>8, AtMostOne

LEMMA Locked ==
    ASSUME ServerInv
    PROVE  ConnLock
  <1>1. Structure
    BY DEF ServerInv
  <1> SUFFICES ASSUME NEW c \in Conns
               PROVE  /\ Cardinality(Lockers(c)) <= 1
                      /\ Lockers(c) # {} => conn[c].lock = 1
                      /\ conn[c].lock = 1 /\ Lockers(c) = {} => Pooled(c) \/ Taken(c)
                      /\ Lockers(c) # {} /\ ~conn[c].closed => IsOpen(conn[c].fd)
    BY DEF ConnLock
  <1>2. ASSUME NEW t, t \in Lockers(c)
        PROVE  /\ \/ t \in IOs /\ IOSection(t) /\ io[t].conn = c
                  \/ t \in Submitters /\ SubSection(t) /\ sub[t].conn = c
               /\ conn[c].lock = 1
    <2>1. \/ t \in IOs /\ IOSection(t) /\ io[t].conn = c
          \/ t \in Submitters /\ SubSection(t) /\ sub[t].conn = c
      BY <1>2 DEF Lockers
    <2>2. CASE t \in IOs /\ IOSection(t) /\ io[t].conn = c
      <3>1. IOInv(t)
        BY <1>1, <2>2 DEF Structure
      <3> QED
        BY <2>2, <3>1 DEF IOInv
    <2>3. CASE t \in Submitters /\ SubSection(t) /\ sub[t].conn = c
      <3>1. SubmitInv(t)
        BY <1>1, <2>3 DEF Structure
      <3> QED
        BY <2>3, <3>1 DEF SubmitInv
    <2> QED
      BY <2>1, <2>2, <2>3
  <1>3. ASSUME NEW v \in IOs, IOSection(v), io[v].conn = c
        PROVE  conn[c].ioidx = v /\ \A s \in Submitters : ~(SubSection(s) /\ sub[s].conn = c)
    <2>1. Busy(v) /\ IOInv(v)
      BY <1>1, <1>3 DEF IOSection, Busy, Structure
    <2> QED
      BY <1>3, <2>1 DEF IOInv
  <1>4. ASSUME NEW s \in Submitters, SubSection(s), sub[s].conn = c
        PROVE  conn[c].submitidx = s
    <2>1. SubmitInv(s) /\ c # NULL
      BY <1>1, Constants DEF Structure
    <2> QED
      BY <1>4, <2>1 DEF SubmitInv
  <1>5. \A t, u \in Lockers(c) : t = u
    BY <1>2, <1>3, <1>4
  <1>6. conn[c].lock = 1 /\ Lockers(c) = {} => Pooled(c) \/ Taken(c)
    BY <1>1 DEF Structure, LockInv, Lockers, Released
  <1>7. ~conn[c].closed => IsOpen(conn[c].fd)
    BY <1>1 DEF Structure, SessionInv
  <1> QED
    BY <1>2, <1>5, <1>6, <1>7, AtMostOne

LEMMA Armed ==
    ASSUME ServerInv
    PROVE  OutArmed
  <1> SUFFICES ASSUME NEW c \in Conns, ~conn[c].closed, conn[c].lock = 0
               PROVE  /\ conn[c].processed > conn[c].sent => "OUT" \in conn[c].epoll_state
                      /\ "OUT" \in conn[c].epoll_state =>
                           \/ conn[c].processed > conn[c].sent
                           \/ \E w \in IOs : io[w].pc = "resp_lock" /\ io[w].conn = c
    BY DEF OutArmed
  <1>1. Structure /\ OutInv(c)
    BY DEF ServerInv, Counting
  <1>2. ~Arming(c)
    <2> SUFFICES ASSUME NEW s \in Submitters, sub[s].pc = "arm", sub[s].conn = c PROVE FALSE
      BY DEF Arming
    <2>1. SubmitInv(s)
      BY <1>1 DEF Structure
    <2> QED
      BY <2>1 DEF SubmitInv, SubSection
  <1>3. Clearing(c) => \E w \in IOs : io[w].pc = "resp_lock" /\ io[w].conn = c
    <2> SUFFICES ASSUME NEW w \in IOs, io[w].pc = "resp_unlock", io[w].conn = c PROVE FALSE
      BY DEF Clearing
    <2>1. IOInv(w)
      BY <1>1 DEF Structure
    <2> QED
      BY <2>1 DEF IOInv, IOSection
  <1> QED
    BY <1>1, <1>2, <1>3 DEF OutInv

LEMMA Bounded ==
    ASSUME ServerInv
    PROVE  ReadaheadBounded
  <1> SUFFICES ASSUME NEW c \in Conns PROVE Outstanding(c) <= Readahead + 1
    BY DEF ReadaheadBounded
  <1>1. conn[c].received <= conn[c].sent + Readahead + 1
    BY DEF ServerInv, Counting, CountInv
  <1>2. conn[c].received \in Nat /\ conn[c].sent \in Nat
    BY DEF ServerInv, Structure, Types, ConnType
  <1> QED
    BY <1>1, <1>2, Constants DEF Outstanding

LEMMA Accounted ==
    ASSUME ServerInv
    PROVE  CountersAccount
  <1> SUFFICES ASSUME NEW c \in Conns, ~Pooled(c), ~Taken(c)
               PROVE  /\ conn[c].received - conn[c].processed = Cardinality(InFlight(c))
                      /\ ~conn[c].closed => conn[c].processed - conn[c].sent =
                           Len(conn[c].send_queue) + IF conn[c].sendbuf = NULL THEN 0 ELSE 1
    BY DEF CountersAccount
  <1>1. Structure /\ CountInv(c) /\ ~Released(c)
    BY DEF ServerInv, Counting, Released
  <1>2. /\ conn[c].received \in Nat /\ conn[c].processed \in Nat /\ conn[c].sent \in Nat
        /\ Len(conn[c].send_queue) \in Nat /\ Cardinality(InFlight(c)) \in Nat
    BY <1>1, CountTypes
  <1>3. conn[c].received - conn[c].processed = Cardinality(InFlight(c))
    BY <1>1, <1>2 DEF CountInv
  <1>4. ~conn[c].closed => conn[c].processed - conn[c].sent =
                             Len(conn[c].send_queue) + Count(conn[c].sendbuf)
    <2> SUFFICES ASSUME ~conn[c].closed
                 PROVE  conn[c].processed - conn[c].sent =
                          Len(conn[c].send_queue) + Count(conn[c].sendbuf)
      OBVIOUS
    <2>1. conn[c].processed = conn[c].sent + Len(conn[c].send_queue) + Count(conn[c].sendbuf)
      BY <1>1 DEF CountInv
    <2>2. Count(conn[c].sendbuf) \in Nat
      BY DEF Count
    <2> QED
      BY <1>2, <2>1, <2>2
  <1> QED
    BY <1>3, <1>4 DEF Count

LEMMA EndsOnce ==
    ASSUME ServerInv
    PROVE  FinishedOnce
  <1> SUFFICES ASSUME NEW w \in IOs, io[w].pc = "fin_drain" PROVE ~conn[io[w].conn].closed
    BY DEF FinishedOnce
  <1>1. IOInv(w)
    BY DEF ServerInv, Structure
  <1> QED
    BY <1>1 DEF IOInv, Busy

----------------------------------------------------------------------------
\* Released sessions

LEMMA WaitingStep ==
    ASSUME Structure, Waiting, [Next]_vars
    PROVE  Waiting'
  <1>0. ASSUME UNCHANGED io PROVE Waiting'
    BY <1>0 DEF Waiting
  <1>1. ASSUME NEW w \in IOs, IOStep(w) PROVE Waiting'
    <2>1. CASE IOIdle(w)
      BY <1>0, <2>1 DEF IOIdle, IdleReturn, threads
    <2>2. ASSUME \A v \in IOs \ {w} : io'[v] = io[v],
                 io'[w].pc = "wait" => io'[w].conn = NULL
          PROVE  Waiting'
      BY <2>2 DEF Waiting
    <2>3. ASSUME Returns(w) \/ \E label : label # "wait" /\ Goes(w, label)
          PROVE  Waiting'
      BY <2>2, <2>3 DEF Goes, Returns
    <2>4. CASE EpollWait(w)
      BY <2>2, <2>4, EpollWaitDoes
    <2>5. CASE Dispatch(w)
      <3>1. \A v \in IOs \ {w} : io'[v] = io[v]
        BY <2>5, DispatchDoes
      <3>2. io'[w].pc = "wait" => io'[w].conn = NULL
        BY <2>5, DispatchDoes, Zenon DEF Handlers
      <3> QED
        BY <2>2, <3>1, <3>2
    <2>6. CASE RespTake(w) \/ Send(w)
      BY <2>3, <2>6, RespTakeDoes, SendDoes, Zenon
    <2>7. CASE RespSent(w) \/ RespLock(w) \/ RespUnlock(w)
      BY <2>3, <2>7, RespSentDoes, RespLockDoes, RespUnlockDoes
    <2>8. CASE ReqTake(w) \/ Recv(w)
      BY <2>3, <2>8, ReqTakeDoes, RecvDoes
    <2>9. CASE ReqLock(w) \/ ReqPut(w) \/ ReqUnlock(w)
      BY <2>3, <2>9, ReqLockDoes, ReqPutDoes, ReqUnlockDoes
    <2>10. CASE FinishTry(w) \/ FinishDrain(w) \/ FinishEnd(w)
      BY <2>3, <2>10, FinishTryDoes, FinishDrainDoes, FinishEndDoes
    <2> QED
      BY <1>1, <2>1, <2>4, <2>5, <2>6, <2>7, <2>8, <2>9, <2>10 DEF IOStep
  <1>2. ASSUME NEW a \in Acceptors, AcceptStep(a) PROVE Waiting'
    BY <1>0, <1>2 DEF AcceptStep, AcceptWait, AcceptGet, AcceptMiss, AcceptFd, AcceptFail,
                      AcceptInit, AcceptCtlFail, AcceptIdle, IdleReturn, threads
  <1>3. ASSUME NEW x \in Computes, ComputeStep(x) PROVE Waiting'
    BY <1>0, <1>3, Zenon DEF ComputeStep, ComputeGet, ComputePut, ComputeIdle, IdleReturn, threads
  <1>4. ASSUME NEW s \in Submitters, SubmitStep(s) PROVE Waiting'
    BY <1>0, <1>4 DEF SubmitStep, SubmitGet, SubmitTry, SubmitPut, SubmitArm, SubmitUnlock,
                      SubmitLast, SubmitIdle, IdleReturn, threads
  <1>5. ASSUME NEW k \in Clients, ClientStep(k) \/ ClientShutdown(k) PROVE Waiting'
    BY <1>0, <1>5 DEF ClientStep, Connect, ClientWrite, ClientRead, ClientClose, ClientShutdown,
                      server, threads
  <1>6. CASE Stop \/ Over \/ UNCHANGED vars
    BY <1>0, <1>6 DEF Stop, Over, vars, threads
  <1> QED
    BY <1>1, <1>2, <1>3, <1>4, <1>5, <1>6 DEF Next

LEMMA Forgotten ==
    ASSUME ServerInv, Waiting
    PROVE  ReleasedForgotten
  <1> SUFFICES ASSUME NEW c \in Conns, Released(c)
               PROVE  /\ Cardinality(Holds(empty_connections, c))
                           + Cardinality({a \in Acceptors : acc[a].conn = c}) = 1
                      /\ conn[c].closed \/ (Taken(c) /\ ~Pooled(c))
                      /\ InFlight(c) = {} /\ ~Handled(c)
                      /\ \A s \in Submitters : sub[s].conn # c
    BY DEF ReleasedForgotten, Released
  <1> DEFINE P == Holds(empty_connections, c)
             A == {a \in Acceptors : acc[a].conn = c}
  <1>1. Structure /\ Ownership /\ c # NULL
    BY Constants DEF ServerInv
  <1>2. (P # {} <=> Pooled(c)) /\ (A # {} <=> Taken(c))
    BY DEF Holds, Pooled, Elems, Taken
  <1>3. ASSUME NEW a \in Acceptors, acc[a].conn = c
        PROVE  ~Pooled(c) /\ \A a2 \in Acceptors : acc[a2].conn = c => a2 = a
    <2>1. AcceptInv(a)
      BY <1>1 DEF Structure
    <2> QED
      BY <1>1, <1>3, <2>1 DEF AcceptInv
  <1>4. (\A i, j \in P : i = j) /\ (\A a, a2 \in A : a = a2)
    BY <1>1, <1>3 DEF Structure, ListenInv, Inj, Holds
  <1>5. Cardinality(P) + Cardinality(A) = 1
    <2>1. P = {} <=> A # {}
      BY <1>2, <1>3 DEF Released, Taken
    <2> HIDE DEF P, A
    <2>2. /\ P # {} => Cardinality(P) = 1
          /\ P = {} => Cardinality(P) = 0
      BY <1>4, AtMostOne
    <2>3. /\ A # {} => Cardinality(A) = 1
          /\ A = {} => Cardinality(A) = 0
      BY <1>4, AtMostOne
    <2> QED
      BY <2>1, <2>2, <2>3
  <1>6. conn[c].closed \/ (Taken(c) /\ ~Pooled(c))
    BY <1>1 DEF Structure, SessionInv, Released
  <1>7. InFlight(c) = {}
    <2> SUFFICES ASSUME NEW b \in Buffers, b \in InFlight(c) PROVE FALSE
      BY DEF InFlight
    <2>1. BufferInv(b) /\ Pipelined(b) /\ buf[b].conn = c
      BY <1>1, PipelinedAt DEF Ownership
    <2> QED
      BY <2>1 DEF BufferInv
  <1>8. ~Handled(c)
    <2> SUFFICES ASSUME NEW w \in IOs, io[w].conn = c, io[w].pc # "dispatch" PROVE FALSE
      BY DEF Handled
    <2>1. io[w].pc # "wait" /\ IOInv(w)
      BY <1>1 DEF Waiting, Structure
    <2> QED
      BY <2>1 DEF IOInv, Busy
  <1>9. \A s \in Submitters : sub[s].conn # c
    BY <1>1 DEF Structure, SubmitInv
  <1> QED
    BY <1>5, <1>6, <1>7, <1>8, <1>9

----------------------------------------------------------------------------
\* Sessions that end with buffers in flight

\* What ClosedInv(c) depends on stays.
ClosedSame(c) ==
    conn'[c].closed =>
        /\ conn[c].closed /\ conn'[c].sendbuf = conn[c].sendbuf
        /\ conn'[c].received = conn[c].received /\ conn'[c].processed = conn[c].processed
ClosedStays(c) == ClosedSame(c) /\ (Released(c) => Released(c)') /\ (Ending(c) => Ending(c)')

LEMMA ClosedKept ==
    ASSUME NEW c \in Conns, ClosedInv(c), ClosedStays(c)
    PROVE  ClosedInv(c)'
  BY DEF ClosedInv, ClosedStays, ClosedSame

\* A handler other than the end of finish_connection.
LEMMA HandlerDelegates ==
    ASSUME Structure, Delegated, NEW w \in IOs, \A v \in IOs \ {w} : io'[v] = io[v],
           io[w].pc # "fin_end", UNCHANGED <<empty_connections, sub, acc>>,
           \A c \in Conns : ClosedSame(c) \/ (io[w].conn = c /\ ClosedInv(c)')
    PROVE  Delegated'
  <1> SUFFICES ASSUME NEW c \in Conns PROVE ClosedInv(c)'
    BY DEF Delegated
  <1>1. ClosedInv(c)
    BY DEF Delegated
  <1>2. Released(c)' <=> Released(c)
    BY DEF Released, Pooled, Taken
  <1>3. Ending(c) => Ending(c)'
    <2> SUFFICES ASSUME Ending(c) PROVE Ending(c)'
      OBVIOUS
    <2>1. CASE \E v \in IOs : io[v].pc = "fin_end" /\ io[v].conn = c
      <3>1. PICK v \in IOs : io[v].pc = "fin_end" /\ io[v].conn = c
        BY <2>1
      <3>2. io'[v] = io[v]
        BY <3>1
      <3> QED
        BY <3>1, <3>2 DEF Ending
    <2> QED
      BY <2>1 DEF Ending
  <1> QED
    BY <1>1, <1>2, <1>3, ClosedKept DEF ClosedStays

\* finish_connection: only its own session is closed, or released.
LEMMA FinishDelegates ==
    ASSUME ServerInv, Delegated, "abort" \notin Closing, NEW w \in IOs,
           FinishDrain(w) \/ FinishEnd(w)
    PROVE  Delegated'
  <1> PICK c \in Conns : c = io[w].conn
    BY FinishDrainDoes, FinishEndDoes DEF ServerInv
  <1>1. Structure /\ Bytes /\ Delegated
    BY DEF ServerInv
  <1>2. /\ OnlyConn(c) \/ UNCHANGED conn
        /\ \A v \in IOs \ {w} : io'[v] = io[v]
        /\ UNCHANGED <<sub, acc>>
    BY <1>1, FinishDrainDoes, FinishEndDoes DEF Goes, Returns
  <1>3. \A d \in Conns : Pooled(d) => Pooled(d)'
    <2>1. CASE UNCHANGED empty_connections
      BY <2>1 DEF Pooled
    <2>2. CASE empty_connections' = Append(empty_connections, c)
      <3>1. Elems(Append(empty_connections, c)) = Elems(empty_connections) \cup {c}
        BY <1>1, AppendElems DEF Structure, Types
      <3> QED
        BY <2>2, <3>1 DEF Pooled
    <2> QED
      BY <1>1, <2>1, <2>2, FinishDrainDoes, FinishEndDoes
  <1>4. ASSUME NEW d \in Conns, d # c PROVE ClosedInv(d)'
    <2>1. ClosedInv(d) /\ ClosedSame(d) /\ (Released(d) => Released(d)')
      BY <1>1, <1>2, <1>3, <1>4 DEF Delegated, ClosedSame, OnlyConn, Released, Taken
    <2>2. Ending(d) => Ending(d)'
      <3> SUFFICES ASSUME NEW v \in IOs, io[v].pc = "fin_end", io[v].conn = d PROVE Ending(d)'
        BY <1>2 DEF Ending
      <3>1. io'[v] = io[v]
        BY <1>2, <1>4
      <3> QED
        BY <3>1 DEF Ending
    <2> QED
      BY <2>1, <2>2, ClosedKept DEF ClosedStays
  <1>5. CASE FinishDrain(w)
    <2>1. /\ conn'[c].sendbuf = conn[c].sendbuf /\ io[w].pc = "fin_drain"
          /\ io'[w].pc = "fin_end" /\ io'[w].conn = c
      BY <1>1, <1>5, FinishDrainDoes DEF Goes
    <2>2. conn[c].sendbuf = NULL
      BY <1>1, <2>1 DEF Bytes, IOWireInv
    <2>3. Ending(c)'
      BY <2>1 DEF Ending
    <2>4. ClosedInv(c)'
      BY <2>1, <2>2, <2>3 DEF ClosedInv
    <2> QED
      BY <1>4, <2>4 DEF Delegated
  <1>6. CASE FinishEnd(w)
    <2>1. /\ io[w].pc = "fin_end"
          /\ conn'[c].closed = conn[c].closed /\ conn'[c].sendbuf = conn[c].sendbuf
          /\ conn'[c].received = conn[c].received /\ conn'[c].processed = conn[c].processed
      BY <1>1, <1>6, FinishEndDoes DEF SameOwner, SameBuffers, SameCounts
    <2>2. \/ NoneInFlight(c) /\ empty_connections' = Append(empty_connections, c)
          \/ ~NoneInFlight(c)
      BY <1>1, <1>6, FinishEndDoes
    <2>3. conn[c].closed /\ conn[c].processed = conn[c].sent + Count(conn[c].sendbuf)
      BY <1>1, <2>1 DEF Structure, IOInv
    <2>4. conn[c].sendbuf = NULL
      BY <1>1, <2>3 DEF Delegated, ClosedInv
    <2>5. CASE NoneInFlight(c) /\ empty_connections' = Append(empty_connections, c)
      <3>1. Elems(Append(empty_connections, c)) = Elems(empty_connections) \cup {c}
        BY <1>1, AppendElems DEF Structure, Types
      <3>2. Released(c)'
        BY <2>5, <3>1 DEF Released, Pooled
      <3> QED
        BY <1>4, <2>1, <2>4, <3>2 DEF Delegated, ClosedInv
    <2>6. CASE ~NoneInFlight(c)
      <3>1. conn[c].processed \in Nat /\ conn[c].sent \in Nat
        BY <1>1 DEF Structure, Types, ConnType
      <3>2. conn[c].processed = conn[c].sent
        BY <2>3, <2>4, <3>1 DEF Count
      <3>3. conn[c].received # conn[c].processed
        BY <2>6, <3>2 DEF NoneInFlight
      <3> QED
        BY <1>4, <2>1, <2>4, <3>3 DEF Delegated, ClosedInv
    <2> QED
      BY <2>2, <2>5, <2>6
  <1> QED
    BY <1>5, <1>6

LEMMA SubmitDelegates ==
    ASSUME ServerInv, Delegated, NEW s \in Submitters,
           \/ SubmitGet(s) \/ SubmitTry(s) \/ SubmitPut(s) \/ SubmitArm(s) \/ SubmitUnlock(s)
           \/ SubmitLast(s)
    PROVE  Delegated'
  <1> PICK c : c = sub[s].conn
    OBVIOUS
  <1>1. Structure /\ Delegated
    BY DEF ServerInv
  <1>2. \A d \in Conns : d # c => conn'[d] = conn[d]
    BY <1>1, SubmitGetDoes, SubmitTryDoes, SubmitPutDoes, SubmitArmDoes, SubmitUnlockDoes,
       SubmitLastDoes DEF OnlyConn
  <1>3. OnlySub(s) /\ UNCHANGED <<io, acc>>
    BY <1>1, SubmitGetDoes, SubmitTryDoes, SubmitPutDoes, SubmitArmDoes, SubmitUnlockDoes,
       SubmitLastDoes
  <1>4. \A d \in Conns : Pooled(d) => Pooled(d)'
    <2>1. CASE UNCHANGED empty_connections
      BY <2>1 DEF Pooled
    <2>2. CASE c \in Conns /\ empty_connections' = Append(empty_connections, c)
      <3>1. Elems(Append(empty_connections, c)) = Elems(empty_connections) \cup {c}
        BY <1>1, <2>2, AppendElems DEF Structure, Types
      <3> QED
        BY <2>2, <3>1 DEF Pooled
    <2>3. CASE SubmitLast(s)
      BY <1>1, <2>1, <2>2, <2>3, SubmitLastDoes
    <2>4. CASE ~SubmitLast(s)
      <3>1. UNCHANGED empty_connections
        BY <1>1, <2>4, SubmitGetDoes, SubmitTryDoes, SubmitPutDoes, SubmitArmDoes,
           SubmitUnlockDoes DEF queues
      <3> QED
        BY <2>1, <3>1
    <2> QED
      BY <2>3, <2>4
  <1>5. \A d \in Conns : Released(d) => Released(d)'
    BY <1>3, <1>4 DEF Released, Taken
  <1>6. ASSUME NEW d \in Conns, d # c PROVE ClosedInv(d)'
    <2>1. ClosedInv(d) /\ ClosedSame(d)
      BY <1>1, <1>2, <1>6 DEF Delegated, ClosedSame
    <2>2. Ending(d) => Ending(d)'
      BY <1>3, <1>6 DEF Ending, OnlySub
    <2> QED
      BY <1>5, <2>1, <2>2, ClosedKept DEF ClosedStays
  <1>7. c \in Conns => ClosedInv(c)'
    <2> SUFFICES ASSUME c \in Conns PROVE ClosedInv(c)'
      OBVIOUS
    <2>1. ClosedInv(c)
      BY <1>1 DEF Delegated
    <2>2. ASSUME sub[s].pc \notin {"dispose", "last"} PROVE Ending(c) => Ending(c)'
      BY <1>3, <2>2 DEF Ending, OnlySub
    <2>3. CASE SubmitGet(s) \/ SubmitTry(s) \/ SubmitArm(s)
      <3>1. ClosedSame(c) /\ sub[s].pc \notin {"dispose", "last"}
        BY <1>1, <2>3, SubmitGetDoes, SubmitTryDoes, SubmitArmDoes
           DEF ClosedSame, SameOwner, SameBuffers, SameCounts
      <3> QED
        BY <1>5, <2>1, <2>2, <3>1, ClosedKept DEF ClosedStays
    <2>4. CASE SubmitPut(s)
      <3>1. /\ sub'[s].conn = c /\ conn'[c].closed = conn[c].closed
            /\ conn'[c].sendbuf = conn[c].sendbuf
            /\ conn[c].closed => sub'[s].pc = "dispose"
        BY <1>1, <2>4, SubmitPutDoes DEF SameOwner
      <3>2. conn[c].closed => Ending(c)'
        BY <3>1 DEF Ending
      <3> QED
        BY <2>1, <3>1, <3>2 DEF ClosedInv
    <2>5. CASE SubmitUnlock(s)
      <3>1. ClosedSame(c)
        BY <1>1, <2>5, SubmitUnlockDoes DEF ClosedSame, SameOwner, SameBuffers, SameCounts
      <3>2. \/ sub[s].pc = "unlock"
            \/ sub'[s].pc = "last" /\ sub'[s].conn = c
        BY <1>1, <2>5, SubmitUnlockDoes
      <3>3. Ending(c) => Ending(c)'
        BY <2>2, <3>2 DEF Ending
      <3> QED
        BY <1>5, <2>1, <3>1, <3>3, ClosedKept DEF ClosedStays
    <2>6. CASE SubmitLast(s)
      <3>1. /\ UNCHANGED conn
            /\ \/ LastInFlight(c) /\ empty_connections' = Append(empty_connections, c)
               \/ ~LastInFlight(c)
        BY <1>1, <2>6, SubmitLastDoes
      <3>2. Elems(Append(empty_connections, c)) = Elems(empty_connections) \cup {c}
        BY <1>1, AppendElems DEF Structure, Types
      <3>3. conn[c].received = conn[c].processed => Released(c)'
        BY <3>1, <3>2 DEF LastInFlight, Released, Pooled
      <3> QED
        BY <2>1, <3>1, <3>3 DEF ClosedInv
    <2> QED
      BY <2>3, <2>4, <2>5, <2>6
  <1> QED
    BY <1>6, <1>7 DEF Delegated

LEMMA AcceptDelegates ==
    ASSUME ServerInv, Delegated, NEW a \in Acceptors,
           \/ AcceptWait(a) \/ AcceptGet(a) \/ AcceptMiss(a) \/ AcceptFd(a) \/ AcceptFail(a)
           \/ AcceptInit(a) \/ AcceptCtlFail(a)
    PROVE  Delegated'
  <1>1. Structure /\ Delegated
    BY DEF ServerInv
  <1>2. UNCHANGED <<io, sub>> /\ OnlyAcc(a)
    BY <1>1, AcceptWaitDoes, AcceptGetDoes, AcceptFdDoes, AcceptFailDoes, AcceptInitDoes,
       AcceptCtlFailDoes
  <1>3. \A d \in Conns : Ending(d) => Ending(d)'
    BY <1>2 DEF Ending
  <1>4. CASE AcceptGet(a)
    <2> PICK c \in Conns : c = Head(empty_connections)
      BY <1>1, <1>4, AcceptGetDoes
    <2>1. /\ UNCHANGED conn /\ empty_connections # <<>> /\ empty_connections' = Tail(empty_connections)
          /\ acc'[a].conn = c /\ acc[a].pc = "get"
      BY <1>1, <1>4, AcceptGetDoes
    <2>2. Elems(empty_connections) = Elems(Tail(empty_connections)) \cup {c}
      BY <1>1, <2>1, TailElems DEF Structure, Types
    <2>3. acc[a].conn = NULL
      BY <1>1, <2>1 DEF Structure, AcceptInv
    <2>4. ASSUME NEW d \in Conns PROVE Released(d) => Released(d)'
      <3>1. Taken(d) => Taken(d)'
        BY <1>2, <2>3, Constants DEF Taken, OnlyAcc
      <3>2. Pooled(d) => Pooled(d)' \/ d = c
        BY <2>1, <2>2 DEF Pooled
      <3>3. Taken(c)'
        BY <2>1 DEF Taken
      <3> QED
        BY <3>1, <3>2, <3>3 DEF Released
    <2> QED
      BY <1>1, <1>3, <2>1, <2>4, ClosedKept DEF Delegated, ClosedStays, ClosedSame
  <1>5. CASE AcceptWait(a) \/ AcceptMiss(a) \/ AcceptFd(a) \/ AcceptFail(a)
    <2>1. UNCHANGED <<conn, queues>> /\ acc'[a].conn = acc[a].conn
      BY <1>1, <1>5, AcceptWaitDoes, AcceptFdDoes, AcceptFailDoes
    <2>2. \A d \in Conns : Released(d) => Released(d)'
      BY <1>2, <2>1 DEF Released, Pooled, Taken, OnlyAcc, queues
    <2> QED
      BY <1>1, <1>3, <2>1, <2>2, ClosedKept DEF Delegated, ClosedStays, ClosedSame
  <1>6. CASE AcceptInit(a) \/ AcceptCtlFail(a)
    <2> PICK c \in Conns : c = acc[a].conn
      BY <1>1, <1>6, AcceptInitDoes, AcceptCtlFailDoes
    <2>1. OnlyConn(c) /\ ~conn'[c].closed /\ UNCHANGED queues
      BY <1>1, <1>6, AcceptInitDoes, AcceptCtlFailDoes DEF Fresh
    <2>2. ClosedInv(c)'
      BY <2>1 DEF ClosedInv
    <2>3. ASSUME NEW d \in Conns, d # c PROVE ClosedInv(d)'
      <3>1. ClosedInv(d) /\ ClosedSame(d)
        BY <1>1, <2>1, <2>3 DEF Delegated, ClosedSame, OnlyConn
      <3>2. Released(d) => Released(d)'
        BY <1>2, <2>1, <2>3 DEF Released, Pooled, Taken, OnlyAcc, queues
      <3> QED
        BY <1>3, <3>1, <3>2, ClosedKept DEF ClosedStays
    <2> QED
      BY <2>2, <2>3 DEF Delegated
  <1> QED
    BY <1>4, <1>5, <1>6

LEMMA DelegatedStep ==
    ASSUME ServerInv, Delegated, "abort" \notin Closing, [Next]_vars
    PROVE  Delegated'
  <1>1. Structure /\ \A c \in Conns : ClosedInv(c)
    BY DEF ServerInv, Delegated
  <1>2. ASSUME UNCHANGED <<conn, empty_connections, io, sub, acc>> PROVE Delegated'
    <2>1. \A c \in Conns : ClosedStays(c)
      BY <1>2 DEF ClosedStays, ClosedSame, Released, Pooled, Taken, Ending
    <2> QED
      BY <1>1, <2>1, ClosedKept DEF Delegated
  <1>3. ASSUME NEW w \in IOs, IOStep(w) PROVE Delegated'
    <2>1. CASE FinishDrain(w) \/ FinishEnd(w)
      BY <2>1, FinishDelegates
    <2>2. CASE IOIdle(w)
      BY <1>2, <2>2 DEF IOIdle, IdleReturn, queues, threads
    <2>3. CASE EpollWait(w) \/ Dispatch(w)
      <3>1. /\ UNCHANGED <<conn, empty_connections, sub, acc>>
            /\ \A v \in IOs \ {w} : io'[v] = io[v]
            /\ io[w].pc # "fin_end"
        BY <1>1, <2>3, EpollWaitDoes, DispatchDoes DEF queues
      <3>2. \A c \in Conns : ClosedSame(c)
        BY <3>1 DEF ClosedSame
      <3> QED
        BY <1>1, <3>1, <3>2, HandlerDelegates
    <2>4. CASE \/ RespTake(w) \/ Send(w) \/ RespSent(w) \/ RespLock(w) \/ RespUnlock(w)
               \/ ReqTake(w) \/ Recv(w) \/ ReqLock(w) \/ ReqPut(w) \/ ReqUnlock(w) \/ FinishTry(w)
      <3> PICK c \in Conns : c = io[w].conn
        BY <1>1, <2>4, RespTakeDoes, SendDoes, RespSentDoes, RespLockDoes, RespUnlockDoes,
           ReqTakeDoes, RecvDoes, ReqLockDoes, ReqPutDoes, ReqUnlockDoes, FinishTryDoes, Zenon
      <3>1. /\ UNCHANGED <<empty_connections, sub, acc>> /\ (OnlyConn(c) \/ UNCHANGED conn)
            /\ \A v \in IOs \ {w} : io'[v] = io[v]
            /\ io[w].pc # "fin_end"
        <4>1. CASE RespTake(w) \/ Send(w) \/ RespSent(w) \/ RespLock(w) \/ RespUnlock(w)
          BY <1>1, <4>1, RespTakeDoes, SendDoes, RespSentDoes, RespLockDoes, RespUnlockDoes, Zenon
             DEF Goes, Returns, queues
        <4>2. CASE ReqTake(w) \/ Recv(w)
          BY <1>1, <4>2, ReqTakeDoes, RecvDoes DEF Goes, Returns, queues
        <4>3. CASE ReqLock(w) \/ ReqPut(w) \/ ReqUnlock(w) \/ FinishTry(w)
          BY <1>1, <4>3, ReqLockDoes, ReqPutDoes, ReqUnlockDoes, FinishTryDoes
             DEF Goes, Returns, queues
        <4> QED
          BY <2>4, <4>1, <4>2, <4>3
      <3>2. ClosedSame(c)
        <4>1. CASE RespTake(w) \/ RespSent(w) \/ ReqPut(w)
          <5>1. ~conn[c].closed
            BY <1>1, <4>1, Zenon DEF Structure, IOInv, Busy, RespTake, RespSent, ReqPut
          <5>2. conn'[c].closed = conn[c].closed
            BY <1>1, <4>1, RespTakeDoes, RespSentDoes, ReqPutDoes DEF SameOwner
          <5> QED
            BY <5>1, <5>2 DEF ClosedSame
        <4>2. CASE Send(w) \/ Recv(w)
          BY <1>1, <4>2, SendDoes, RecvDoes, Zenon DEF ClosedSame
        <4>3. CASE ReqTake(w)
          BY <1>1, <4>3, ReqTakeDoes DEF ClosedSame, SameOwner, SameCounts
        <4>4. CASE RespLock(w) \/ RespUnlock(w) \/ ReqLock(w) \/ ReqUnlock(w) \/ FinishTry(w)
          BY <1>1, <4>4, RespLockDoes, RespUnlockDoes, ReqLockDoes, ReqUnlockDoes, FinishTryDoes
             DEF ClosedSame, SameOwner, SameBuffers, SameCounts
        <4> QED
          BY <2>4, <4>1, <4>2, <4>3, <4>4
      <3>3. \A d \in Conns : ClosedSame(d)
        BY <3>1, <3>2 DEF ClosedSame, OnlyConn
      <3> QED
        BY <1>1, <3>1, <3>3, HandlerDelegates
    <2> QED
      BY <1>3, <2>1, <2>2, <2>3, <2>4 DEF IOStep
  <1>4. ASSUME NEW a \in Acceptors, AcceptStep(a) PROVE Delegated'
    BY <1>2, <1>4, AcceptDelegates DEF AcceptStep, AcceptIdle, IdleReturn, queues, threads
  <1>5. ASSUME NEW x \in Computes, ComputeStep(x) PROVE Delegated'
    BY <1>2, <1>5, Zenon DEF ComputeStep, ComputeGet, ComputePut, ComputeIdle, IdleReturn, queues, threads
  <1>6. ASSUME NEW s \in Submitters, SubmitStep(s) PROVE Delegated'
    BY <1>2, <1>6, SubmitDelegates DEF SubmitStep, SubmitIdle, IdleReturn, queues, threads
  <1>7. ASSUME NEW k \in Clients, ClientStep(k) \/ ClientShutdown(k) PROVE Delegated'
    BY <1>2, <1>7 DEF ClientStep, Connect, ClientWrite, ClientRead, ClientClose, ClientShutdown,
                      server, queues, threads
  <1>8. CASE Stop \/ Over \/ UNCHANGED vars
    BY <1>2, <1>8 DEF Stop, Over, vars, queues, threads
  <1> QED
    BY <1>3, <1>4, <1>5, <1>6, <1>7, <1>8 DEF Next

LEMMA NeverForgotten ==
    ASSUME ServerInv, Delegated
    PROVE  DelegatedInFlight
  <1> SUFFICES ASSUME NEW c \in Conns, ~Released(c), conn[c].closed
               PROVE  InFlight(c) # {} \/ Ending(c)
    BY DEF DelegatedInFlight, Released, Ending
  <1>1. CountInv(c) /\ ClosedInv(c) /\ Structure
    BY DEF ServerInv, Counting, Delegated
  <1>2. conn[c].received = conn[c].processed + Cardinality(InFlight(c))
    BY <1>1 DEF CountInv
  <1>3. conn[c].processed \in Nat /\ Cardinality({}) = 0
    BY <1>1, CountTypes, FS_EmptySet
  <1>4. InFlight(c) = {} => conn[c].received = conn[c].processed
    BY <1>2, <1>3
  <1> QED
    BY <1>1, <1>4 DEF ClosedInv

----------------------------------------------------------------------------
\* Server implements Service

\* The row of client k in Wire is all that changes.
Row(k) == [up |-> sock[k].wrote, taken |-> sock[k].consumed, down |-> Len(sock[k].stream),
           read |-> sock[k].got, left |-> sock[k].peer = "closed",
           closed |-> sock[k].link = "shut"]

LEMMA WireRow ==
    ASSUME NEW k \in Clients, OnlySock(k)
    PROVE  Wire' = [Wire EXCEPT ![k] = Row(k)'] /\ Wire[k] = Row(k)
  BY DEF Wire, Row, OnlySock

\* A step in which neither side ends the connection.
LEMMA RowStays ==
    ASSUME NEW k, sock'[k].peer = "closed" <=> sock[k].peer = "closed",
           sock'[k].link = "shut" <=> sock[k].link = "shut"
    PROVE  \E l, x :
             /\ Row(k) = [up |-> sock[k].wrote, taken |-> sock[k].consumed,
                          down |-> Len(sock[k].stream), read |-> sock[k].got,
                          left |-> l, closed |-> x]
             /\ Row(k)' = [up |-> sock'[k].wrote, taken |-> sock'[k].consumed,
                           down |-> Len(sock'[k].stream), read |-> sock'[k].got,
                           left |-> l, closed |-> x]
  <1>1. PICK l, x : l = (sock[k].peer = "closed") /\ x = (sock[k].link = "shut")
    BY Zenon
  <1>2. l = (sock'[k].peer = "closed") /\ x = (sock'[k].link = "shut")
    BY <1>1
  <1> WITNESS l, x
  <1> QED
    BY <1>1, <1>2, Zenon DEF Row

\* Bytes taken, sent, written or read change one field of the row.
LEMMA RowAdds ==
    ASSUME NEW R, NEW S, NEW u, NEW t, NEW d, NEW g, NEW l, NEW x, NEW n,
           R = [up |-> u, taken |-> t, down |-> d, read |-> g, left |-> l, closed |-> x]
    PROVE  /\ S = [up |-> u + n, taken |-> t, down |-> d, read |-> g, left |-> l, closed |-> x]
                => S = [R EXCEPT !.up = @ + n]
           /\ S = [up |-> u, taken |-> t + n, down |-> d, read |-> g, left |-> l, closed |-> x]
                => S = [R EXCEPT !.taken = @ + n]
           /\ S = [up |-> u, taken |-> t, down |-> d + n, read |-> g, left |-> l, closed |-> x]
                => S = [R EXCEPT !.down = @ + n]
           /\ S = [up |-> u, taken |-> t, down |-> d, read |-> g + n, left |-> l, closed |-> x]
                => S = [R EXCEPT !.read = @ + n]
  OBVIOUS

LEMMA WireAt ==
    ASSUME NEW k \in Clients
    PROVE  /\ Wire[k].up = sock[k].wrote /\ Wire[k].taken = sock[k].consumed
           /\ Wire[k].down = Len(sock[k].stream) /\ Wire[k].read = sock[k].got
           /\ Wire[k].left <=> sock[k].peer = "closed"
           /\ Wire[k].closed <=> sock[k].link = "shut"
  <1>1. PICK l, x : l = (sock[k].peer = "closed") /\ x = (sock[k].link = "shut")
    BY Zenon
  <1>2. Row(k) = [up |-> sock[k].wrote, taken |-> sock[k].consumed,
                  down |-> Len(sock[k].stream), read |-> sock[k].got,
                  left |-> l, closed |-> x]
    BY <1>1, Zenon DEF Row
  <1>3. Wire[k] = Row(k)
    BY DEF Wire, Row
  <1>4. /\ Wire[k].up = sock[k].wrote /\ Wire[k].taken = sock[k].consumed
        /\ Wire[k].down = Len(sock[k].stream) /\ Wire[k].read = sock[k].got
        /\ Wire[k].left = l /\ Wire[k].closed = x
    BY <1>2, <1>3
  <1> QED
    BY <1>1, <1>4

\* Bytes after so many whole messages.
LEMMA WholeMessages ==
    ASSUME NEW m \in Nat, NEW a \in Nat, NEW q \in Nat \ {0}
    PROVE  (m * q + a) \div q \in Nat /\ m <= (m * q + a) \div q
  <1> DEFINE n == m * q + a
             d == n \div q
  <1>1. n \in Nat /\ d \in Nat
    BY TimesNext
  <1>2. n < (d + 1) * q
    <2> HIDE DEF n
    <2>1. n = q * d + (n % q) /\ n % q < q /\ n % q \in Nat
      BY <1>1
    <2> DEFINE r == n % q
               x == q * d
    <2>2. (d + 1) * q = x + q /\ x \in Nat
      BY <1>1, TimesNext
    <2>3. n = x + r /\ r < q /\ r \in Nat
      BY <2>1
    <2> HIDE DEF r, x, d
    <2> QED
      BY <2>2, <2>3
  <1>3. m <= d
    <2> SUFFICES ASSUME d + 1 <= m PROVE FALSE
      BY <1>1
    <2>1. (d + 1) * q <= m * q /\ m * q \in Nat /\ (d + 1) * q \in Nat
      BY <1>1, TimesMono, TimesNext
    <2> DEFINE x == m * q
               y == (d + 1) * q
    <2>2. y <= x /\ x \in Nat /\ y \in Nat /\ x + a < y
      BY <1>2, <2>1
    <2> HIDE DEF x, y
    <2> QED
      BY <2>2
  <1> QED
    BY <1>1, <1>3

LEMMA InitService ==
    ASSUME Init
    PROVE  Contract!Init
  BY DEF Init, Contract!Init, Wire

\* recv takes bytes of requests, send sends bytes of responses that are due.
LEMMA RecvTakes ==
    ASSUME ServerInv, NEW w \in IOs, Recv(w)
    PROVE  Contract!Next \/ UNCHANGED Wire
  <1>1. Structure /\ Bytes
    BY DEF ServerInv
  <1> SUFFICES ASSUME ~UNCHANGED <<buf, sock>> PROVE Contract!Next
    BY DEF Wire
  <1> PICK c \in Conns : c = io[w].conn
    BY <1>1, RecvDoes
  <1>2. io[w].pc = "recv" /\ Busy(w) /\ ~conn[c].closed
    BY <1>1, Zenon DEF Recv, Busy, Structure, IOInv
  <1> PICK k \in Clients : k = conn[c].fd
    BY <1>1, <1>2, WireTypes
  <1> PICK len \in Nat \ {0} : Receives(w, c, len)
    BY <1>1, RecvSome
  <1>3. /\ OnlySock(k) /\ SamePeer(k) /\ sock'[k].link = sock[k].link
        /\ sock'[k].stream = sock[k].stream /\ sock'[k].consumed = sock[k].consumed + len
        /\ len <= Avail(k)
    BY DEF Receives
  <1>4. IsOpen(k) /\ sock[k].wrote \in Nat /\ sock[k].consumed \in Nat
    BY <1>1, <1>2, WireTypes
  <1>5. Row(k)' = [Row(k) EXCEPT !.taken = @ + len]
    <2>1. /\ sock'[k].peer = "closed" <=> sock[k].peer = "closed"
          /\ sock'[k].link = "shut" <=> sock[k].link = "shut"
      BY <1>3 DEF SamePeer
    <2>2. PICK l, x :
            /\ Row(k) = [up |-> sock[k].wrote, taken |-> sock[k].consumed,
                         down |-> Len(sock[k].stream), read |-> sock[k].got,
                         left |-> l, closed |-> x]
            /\ Row(k)' = [up |-> sock'[k].wrote, taken |-> sock'[k].consumed,
                          down |-> Len(sock'[k].stream), read |-> sock'[k].got,
                          left |-> l, closed |-> x]
      BY ONLY <2>1, RowStays
    <2>3. sock'[k].wrote = sock[k].wrote /\ sock'[k].got = sock[k].got
      BY <1>3 DEF SamePeer
    <2>4. Row(k)' = [up |-> sock[k].wrote, taken |-> sock[k].consumed + len,
                     down |-> Len(sock[k].stream), read |-> sock[k].got,
                     left |-> l, closed |-> x]
      BY <1>3, <2>2, <2>3
    <2> QED
      BY ONLY <2>2, <2>4, RowAdds
  <1>6. Wire' = [Wire EXCEPT ![k].taken = @ + len]
    BY <1>3, <1>5, WireRow, ZenonT(30)
  <1>7. len \in 1 .. Wire[k].up - Wire[k].taken /\ ~Wire[k].closed
    BY <1>3, <1>4, WireAt, SMTT(20) DEF Avail, IsOpen
  <1>8. Contract!Take(k)
    BY <1>6, <1>7, Zenon DEF Contract!Take
  <1> QED
    BY <1>8 DEF Contract!Next

LEMMA SendReplies ==
    ASSUME ServerInv, NEW w \in IOs, Send(w)
    PROVE  Contract!Next \/ UNCHANGED Wire
  <1>1. Structure /\ Counting /\ Bytes
    BY DEF ServerInv
  <1> SUFFICES ASSUME ~UNCHANGED <<buf, sock>> PROVE Contract!Next
    BY DEF Wire
  <1> PICK c \in Conns : c = io[w].conn
    BY <1>1, SendDoes, Zenon
  <1> PICK b \in Buffers : b = conn[c].sendbuf
    BY <1>1, SendDoes, Zenon
  <1>2. io[w].pc = "send" /\ Busy(w) /\ ~conn[c].closed /\ ~Released(c)
    BY <1>1, BusyConn, Zenon DEF Send, Busy, Structure, IOInv
  <1> PICK k \in Clients : k = conn[c].fd
    BY <1>1, <1>2, WireTypes
  <1> PICK len \in Nat \ {0} : Sends(w, c, len)
    BY <1>1, SendSome
  <1>3. /\ OnlySock(k) /\ SamePeer(k) /\ sock'[k].link = sock[k].link
        /\ sock'[k].consumed = sock[k].consumed
        /\ Len(sock'[k].stream) = Len(sock[k].stream) + len
        /\ len <= buf[b].left /\ len <= Room(k)
    BY DEF Sends
  <1>4. /\ IsOpen(k) /\ sock[k].got \in Nat /\ Len(sock[k].stream) \in Nat
        /\ conn[c].received \in Nat /\ conn[c].sent \in Nat
        /\ ReqBytes(conn[c].recvbuf) \in Nat
    BY <1>1, <1>2, WireTypes
  <1>5. /\ sock[k].consumed = conn[c].received * ReqLen + ReqBytes(conn[c].recvbuf)
        /\ Len(sock[k].stream) = conn[c].sent * RespLen + RespBytes(b)
        /\ buf[b].left \in 0 .. RespLen
    BY <1>1, <1>2, Constants DEF Bytes, WireInv
  <1>6. RespBytes(b) = RespLen - buf[b].left
    BY Constants DEF RespBytes
  <1>7. conn[c].sent + 1 <= conn[c].received
    BY <1>1, <1>2, Constants, SendingAnswers
  <1> DEFINE whole == sock[k].consumed \div ReqLen
  <1>8. whole \in Nat /\ conn[c].received <= whole
    BY <1>4, <1>5, Constants, WholeMessages
  <1>9. Len(sock[k].stream) + len <= whole * RespLen
    <2> DEFINE sent == conn[c].sent * RespLen
               most == (conn[c].sent + 1) * RespLen
               due == whole * RespLen
    <2>1. most = sent + RespLen /\ sent \in Nat /\ RespLen \in Nat
      BY <1>4, Constants, TimesNext
    <2>2. conn[c].sent + 1 \in Nat /\ conn[c].sent + 1 <= whole
      <3> DEFINE m == conn[c].received
                 n == conn[c].sent
      <3>1. m \in Nat /\ n \in Nat
        BY <1>4
      <3>2. n + 1 <= m /\ m <= whole /\ whole \in Nat
        BY <1>7, <1>8
      <3> HIDE DEF m, n, whole
      <3>3. n + 1 \in Nat /\ n + 1 <= whole
        BY <3>1, <3>2
      <3> QED
        BY <3>3 DEF n
    <2>3. most <= due /\ due \in Nat
      <3> HIDE DEF whole
      <3> QED
        BY <1>8, <2>2, Constants, TimesMono, TimesNext
    <2>4. Len(sock[k].stream) = sent + (RespLen - buf[b].left)
      BY <1>5, <1>6
    <2> HIDE DEF sent, most, due, whole
    <2> DEFINE left == buf[b].left
               all == Len(sock[k].stream)
    <2>5. left \in 0 .. RespLen
      BY <1>5
    <2>6. len <= left /\ left \in Nat /\ left <= RespLen /\ all = sent + (RespLen - left)
      BY <1>3, <2>4, <2>5, Constants, SMTT(20)
    <2> HIDE DEF left, all
    <2>7. all + len <= due
      BY <2>1, <2>3, <2>6
    <2> QED
      BY <2>7 DEF due, all
  <1>10. Len(sock[k].stream) + len <= sock[k].got + SockBuf
    <2> DEFINE all == Len(sock[k].stream)
               got == sock[k].got
    <2>1. len <= SockBuf - (all - got) /\ all \in Nat /\ got \in Nat /\ SockBuf \in Nat
      BY <1>3, <1>4, Constants DEF Room, Unread
    <2> HIDE DEF all, got
    <2>2. all + len <= got + SockBuf
      BY <2>1
    <2> QED
      BY <2>2 DEF all, got
  <1>11. len \in 1 .. RespLen
    <2>1. buf[b].left \in 0 .. RespLen
      BY <1>5
    <2>2. len <= buf[b].left
      BY <1>3
    <2> QED
      BY <2>1, <2>2, Constants
  <1>12. Row(k)' = [Row(k) EXCEPT !.down = @ + len]
    <2>1. /\ sock'[k].peer = "closed" <=> sock[k].peer = "closed"
          /\ sock'[k].link = "shut" <=> sock[k].link = "shut"
      BY <1>3 DEF SamePeer
    <2>2. PICK l, x :
            /\ Row(k) = [up |-> sock[k].wrote, taken |-> sock[k].consumed,
                         down |-> Len(sock[k].stream), read |-> sock[k].got,
                         left |-> l, closed |-> x]
            /\ Row(k)' = [up |-> sock'[k].wrote, taken |-> sock'[k].consumed,
                          down |-> Len(sock'[k].stream), read |-> sock'[k].got,
                          left |-> l, closed |-> x]
      BY ONLY <2>1, RowStays
    <2>3. sock'[k].wrote = sock[k].wrote /\ sock'[k].got = sock[k].got
      BY <1>3 DEF SamePeer
    <2>4. Row(k)' = [up |-> sock[k].wrote, taken |-> sock[k].consumed,
                     down |-> Len(sock[k].stream) + len, read |-> sock[k].got,
                     left |-> l, closed |-> x]
      BY <1>3, <2>2, <2>3, Zenon
    <2> QED
      BY ONLY <2>2, <2>4, RowAdds
  <1>13. Wire' = [Wire EXCEPT ![k].down = @ + len]
    BY <1>3, <1>12, WireRow, ZenonT(30)
  <1>14. /\ ~Wire[k].closed /\ Wire[k].down = Len(sock[k].stream)
         /\ Wire[k].read = sock[k].got /\ Wire[k].taken = sock[k].consumed
    BY <1>4, WireAt DEF IsOpen
  <1>15. Contract!Reply(k)
    BY <1>9, <1>10, <1>11, <1>13, <1>14, Zenon DEF Contract!Reply, Contract!Due
  <1> QED
    BY <1>15 DEF Contract!Next

\* The connection joins the backlog, is accepted, or half closed: no bytes yet.
LEMMA WireKept ==
    ASSUME NEW k \in Clients, OnlySock(k), SameServed(k),
           sock'[k].wrote = sock[k].wrote, sock'[k].got = sock[k].got,
           sock'[k].peer = "closed" <=> sock[k].peer = "closed",
           sock'[k].link = "shut" <=> sock[k].link = "shut"
    PROVE  UNCHANGED Wire
  <1>1. PICK l, x :
          /\ Row(k) = [up |-> sock[k].wrote, taken |-> sock[k].consumed,
                       down |-> Len(sock[k].stream), read |-> sock[k].got,
                       left |-> l, closed |-> x]
          /\ Row(k)' = [up |-> sock'[k].wrote, taken |-> sock'[k].consumed,
                        down |-> Len(sock'[k].stream), read |-> sock'[k].got,
                        left |-> l, closed |-> x]
    BY RowStays
  <1>2. Row(k)' = Row(k)
    BY <1>1, Zenon DEF SameServed
  <1>3. Wire' = [Wire EXCEPT ![k] = Row(k)] /\ Wire[k] = Row(k)
    BY <1>2, WireRow
  <1>4. Wire = [j \in Clients |-> Wire[j]]
    BY DEF Wire
  <1> QED
    BY <1>3, <1>4

LEMMA QuietClient ==
    ASSUME Structure, NEW k \in Clients, Connect(k) \/ ClientShutdown(k)
    PROVE  UNCHANGED Wire
  <1>1. sock \in [Clients -> SockType]
    BY DEF Structure, Types
  <1>2. /\ OnlySock(k) /\ SameServed(k)
        /\ sock'[k].wrote = sock[k].wrote /\ sock'[k].got = sock[k].got
    BY <1>1 DEF Connect, ClientShutdown, OnlySock, SameServed, SockType
  <1>3. /\ sock'[k].peer = "closed" <=> sock[k].peer = "closed"
        /\ sock'[k].link = "shut" <=> sock[k].link = "shut"
    BY <1>1 DEF Connect, ClientShutdown, SockType
  <1> QED
    BY <1>2, <1>3, WireKept

LEMMA QuietAccept ==
    ASSUME Structure, NEW a \in Acceptors, AcceptFd(a)
    PROVE  UNCHANGED Wire
  <1>1. sock \in [Clients -> SockType] /\ backlog \in Seq(Clients) /\ backlog # <<>>
    BY DEF Structure, Types, AcceptFd
  <1> PICK k \in Clients : k = Head(backlog)
    BY <1>1
  <1>2. sock' = [sock EXCEPT ![k].link = "open"]
    BY DEF AcceptFd
  <1>3. sock[k].link = "backlog"
    <2>1. 1 \in DOMAIN backlog /\ k = backlog[1]
      BY <1>1
    <2> QED
      BY <2>1 DEF Structure, ListenInv
  <1>4. /\ OnlySock(k) /\ SameServed(k)
        /\ sock'[k].wrote = sock[k].wrote /\ sock'[k].got = sock[k].got
    BY <1>1, <1>2 DEF OnlySock, SameServed, SockType
  <1>5. /\ sock'[k].peer = "closed" <=> sock[k].peer = "closed"
        /\ sock'[k].link = "shut" <=> sock[k].link = "shut"
    BY <1>1, <1>2, <1>3 DEF SockType
  <1> QED
    BY <1>4, <1>5, WireKept

\* A client writes or reads a byte.
LEMMA ClientMoves ==
    ASSUME ServerInv, NEW k \in Clients, ClientWrite(k) \/ ClientRead(k)
    PROVE  Contract!Next
  <1>1. /\ sock \in [Clients -> SockType] /\ sock[k] \in SockType
        /\ Wire[k].up = sock[k].wrote /\ ReqLen \in Nat \ {0}
    BY WireAt, Constants DEF ServerInv, Structure, Types
  <1>2. /\ OnlySock(k) /\ SameServed(k)
        /\ sock'[k].peer = "closed" <=> sock[k].peer = "closed"
        /\ sock'[k].link = "shut" <=> sock[k].link = "shut"
    BY <1>1 DEF ClientWrite, ClientRead, OnlySock, SameServed, SockType
  <1>3. PICK l, x :
          /\ Row(k) = [up |-> sock[k].wrote, taken |-> sock[k].consumed,
                       down |-> Len(sock[k].stream), read |-> sock[k].got,
                       left |-> l, closed |-> x]
          /\ Row(k)' = [up |-> sock'[k].wrote, taken |-> sock'[k].consumed,
                        down |-> Len(sock'[k].stream), read |-> sock'[k].got,
                        left |-> l, closed |-> x]
    BY <1>2, RowStays
  <1>4. sock'[k].consumed = sock[k].consumed /\ sock'[k].stream = sock[k].stream
    BY <1>2 DEF SameServed
  <1>5. CASE ClientWrite(k)
    <2>1. sock'[k].wrote = sock[k].wrote + 1 /\ sock'[k].got = sock[k].got
      BY <1>1, <1>5 DEF ClientWrite, SockType
    <2>2. Row(k)' = [up |-> sock[k].wrote + 1, taken |-> sock[k].consumed,
                     down |-> Len(sock[k].stream), read |-> sock[k].got,
                     left |-> l, closed |-> x]
      BY <1>3, <1>4, <2>1
    <2>3. Row(k)' = [Row(k) EXCEPT !.up = @ + 1]
      BY ONLY <1>3, <2>2, RowAdds
    <2>4. Wire' = [Wire EXCEPT ![k].up = @ + 1]
      BY <1>2, <2>3, WireRow
    <2>5. ~Wire[k].left /\ ~Wire[k].closed /\ 1 \in 1 .. ReqLen
      BY <1>1, <1>5, WireAt DEF ClientWrite, Connected
    <2>6. Contract!Write(k)
      BY <2>4, <2>5 DEF Contract!Write
    <2> QED
      BY <2>6 DEF Contract!Next
  <1>6. CASE ClientRead(k)
    <2>1. sock'[k].got = sock[k].got + 1 /\ sock'[k].wrote = sock[k].wrote
      BY <1>1, <1>6 DEF ClientRead, SockType
    <2>2. Row(k)' = [up |-> sock[k].wrote, taken |-> sock[k].consumed,
                     down |-> Len(sock[k].stream), read |-> sock[k].got + 1,
                     left |-> l, closed |-> x]
      BY <1>3, <1>4, <2>1
    <2>3. Row(k)' = [Row(k) EXCEPT !.read = @ + 1]
      BY ONLY <1>3, <2>2, RowAdds
    <2>4. Wire' = [Wire EXCEPT ![k].read = @ + 1]
      BY <1>2, <2>3, WireRow
    <2>5. ~Wire[k].left /\ 1 \in 1 .. Wire[k].down - Wire[k].read
      <3>1. Len(sock[k].stream) \in Nat /\ sock[k].got \in Nat
        BY <1>1 DEF SockType
      <3>2. Len(sock[k].stream) - sock[k].got > 0 /\ sock[k].peer # "closed"
        BY <1>6 DEF ClientRead, Connected, Unread
      <3>3. 1 \in 1 .. Len(sock[k].stream) - sock[k].got
        BY <3>1, <3>2
      <3> QED
        BY <3>2, <3>3, WireAt
    <2>6. Contract!Read(k)
      BY <2>4, <2>5 DEF Contract!Read
    <2> QED
      BY <2>6 DEF Contract!Next
  <1> QED
    BY <1>5, <1>6

\* One side ends the connection.
LEMMA RowEnds ==
    ASSUME NEW k, sock'[k].wrote = sock[k].wrote, sock'[k].got = sock[k].got, SameServed(k)
    PROVE  /\ /\ sock'[k].peer = "closed"
              /\ sock'[k].link = "shut" <=> sock[k].link = "shut"
              => Row(k)' = [Row(k) EXCEPT !.left = TRUE]
           /\ /\ sock'[k].link = "shut"
              /\ sock'[k].peer = "closed" <=> sock[k].peer = "closed"
              => Row(k)' = [Row(k) EXCEPT !.closed = TRUE]
  <1>1. PICK l, x, l2, x2, y :
          /\ l = (sock[k].peer = "closed") /\ x = (sock[k].link = "shut")
          /\ l2 = (sock'[k].peer = "closed") /\ x2 = (sock'[k].link = "shut")
          /\ y = TRUE
    BY Zenon
  <1>2. PICK u, t, d, g :
          /\ u = sock[k].wrote /\ t = sock[k].consumed
          /\ d = Len(sock[k].stream) /\ g = sock[k].got
    BY Zenon
  <1>3. Row(k) = [up |-> u, taken |-> t, down |-> d, read |-> g, left |-> l, closed |-> x]
    BY <1>1, <1>2, Zenon DEF Row
  <1>4. Row(k)' = [up |-> u, taken |-> t, down |-> d, read |-> g, left |-> l2, closed |-> x2]
    BY <1>1, <1>2, Zenon DEF Row, SameServed
  <1>5. ASSUME l2 = y, x2 = x PROVE Row(k)' = [Row(k) EXCEPT !.left = y]
    BY ONLY <1>3, <1>4, <1>5
  <1>6. ASSUME l2 = l, x2 = y PROVE Row(k)' = [Row(k) EXCEPT !.closed = y]
    BY ONLY <1>3, <1>4, <1>6
  <1> QED
    BY <1>1, <1>5, <1>6, Zenon

\* finish_connection closes the socket of a client that has closed its own,
\* unless the clients may close or shut down early.
LEMMA DrainCloses ==
    ASSUME ServerInv, NEW w \in IOs, FinishDrain(w)
    PROVE  Contract!Next
  <1>1. Structure /\ Bytes
    BY DEF ServerInv
  <1> PICK c \in Conns : c = io[w].conn
    BY <1>1, FinishDrainDoes
  <1> PICK k \in Clients : k = conn[c].fd
    BY <1>1, FinishDrainDoes
  <1>2. /\ io[w].pc = "fin_drain" /\ Busy(w) /\ ~conn[c].closed
        /\ OnlySock(k) /\ SameServed(k) /\ SamePeer(k) /\ sock'[k].link = "shut"
    <2>1. /\ io[w].pc = "fin_drain" /\ OnlySock(k) /\ SameServed(k) /\ SamePeer(k)
          /\ sock'[k].link = "shut"
      BY <1>1, FinishDrainDoes
    <2>2. Busy(w) /\ ~conn[c].closed
      BY <1>1, <2>1 DEF Busy, Structure, IOInv
    <2> QED
      BY <2>1, <2>2
  <1>3. Row(k)' = [Row(k) EXCEPT !.closed = TRUE]
    <2>1. /\ sock'[k].wrote = sock[k].wrote /\ sock'[k].got = sock[k].got
          /\ sock'[k].peer = "closed" <=> sock[k].peer = "closed"
      BY <1>2 DEF SamePeer
    <2> QED
      BY <1>2, <2>1, RowEnds
  <1>4. Wire' = [Wire EXCEPT ![k].closed = TRUE]
    <2>1. Wire' = [Wire EXCEPT ![k] = Row(k)'] /\ Wire[k] = Row(k)
      BY <1>2, WireRow
    <2>2. Wire' = [Wire EXCEPT ![k] = [Wire[k] EXCEPT !.closed = TRUE]]
      BY <1>3, <2>1, Zenon
    <2> QED
      BY ONLY <2>2
  <1>5. ~Wire[k].closed
    BY <1>1, <1>2, WireTypes, WireAt DEF IsOpen
  <1>6. Closing = {} => Wire[k].left
    <2>1. SocketInv(k) /\ IOWireInv(w)
      BY <1>1 DEF Bytes
    <2>2. sock[k].peer \in {"open", "half", "closed"}
      BY <1>1 DEF Structure, Types, SockType
    <2>3. Closing = {} => sock[k].peer # "open" /\ sock[k].peer # "half"
      BY <1>2, <2>1, Zenon DEF SocketInv, IOWireInv
    <2> QED
      BY <2>2, <2>3, WireAt
  <1>7. Contract!Close(k)
    BY <1>4, <1>5, <1>6 DEF Contract!Close
  <1> QED
    BY <1>7 DEF Contract!Next

LEMMA ClientLeaves ==
    ASSUME ServerInv, NEW k \in Clients, ClientClose(k)
    PROVE  Contract!Next
  <1>1. sock \in [Clients -> SockType]
    BY DEF ServerInv, Structure, Types
  <1>2. /\ OnlySock(k) /\ SameServed(k) /\ sock'[k].peer = "closed"
        /\ sock'[k].wrote = sock[k].wrote /\ sock'[k].got = sock[k].got
        /\ sock'[k].link = sock[k].link
    BY <1>1 DEF ClientClose, OnlySock, SameServed, SockType
  <1>3. Row(k)' = [Row(k) EXCEPT !.left = TRUE]
    BY <1>2, RowEnds
  <1>4. Wire' = [Wire EXCEPT ![k] = [Wire[k] EXCEPT !.left = TRUE]]
    BY <1>2, <1>3, WireRow
  <1>5. Wire' = [j \in Clients |-> IF j \in {k} THEN [Wire[j] EXCEPT !.left = TRUE] ELSE Wire[j]]
    <2>1. Wire = [j \in Clients |-> Wire[j]]
      BY DEF Wire
    <2> QED
      BY <1>4, <2>1
  <1>6. ~Wire[k].left
    BY WireAt DEF ClientClose, Connected
  <1>7. Contract!Answered(k) \/ Contract!Excused
    <2>1. CASE "abort" \in Closing
      BY <2>1 DEF Contract!Excused
    <2>2. CASE AllAnswered(k)
      BY <2>2, WireAt DEF Contract!Answered, AllAnswered
    <2>3. CASE sock[k].link = "shut"
      BY <1>6, <2>3, WireAt DEF Contract!Excused
    <2> QED
      BY <2>1, <2>2, <2>3 DEF ClientClose
  <1>8. Contract!Leave({k})
    BY <1>5, <1>6, <1>7 DEF Contract!Leave
  <1> QED
    BY <1>8 DEF Contract!Next

LEMMA ServiceStep ==
    ASSUME ServerInv, [Next]_vars
    PROVE  [Contract!Next]_Wire
  <1>1. Structure
    BY DEF ServerInv
  <1> SUFFICES ASSUME sock' # sock
               PROVE  Contract!Next \/ UNCHANGED Wire
    BY DEF Wire
  <1>2. ASSUME NEW w \in IOs, IOStep(w) PROVE Contract!Next \/ UNCHANGED Wire
    <2>1. Recv(w) \/ Send(w) \/ FinishDrain(w)
      BY <1>2, Zenon DEF IOStep, EpollWait, Dispatch, IOIdle, IdleReturn, RespTake, RespSent, RespLock,
                  RespUnlock, ReqTake, ReqLock, ReqPut, ReqUnlock, FinishTry, FinishEnd
    <2> QED
      BY <2>1, RecvTakes, SendReplies, DrainCloses
  <1>3. ASSUME NEW a \in Acceptors, AcceptStep(a) PROVE Contract!Next \/ UNCHANGED Wire
    <2>1. AcceptFd(a)
      BY <1>3 DEF AcceptStep, AcceptWait, AcceptGet, AcceptMiss, AcceptFail, AcceptInit,
                  AcceptCtlFail, AcceptIdle, IdleReturn
    <2> QED
      BY <1>1, <2>1, QuietAccept
  <1>4. ASSUME NEW x \in Computes, ComputeStep(x) PROVE FALSE
    BY <1>4, Zenon DEF ComputeStep, ComputeGet, ComputePut, ComputeIdle, IdleReturn
  <1>5. ASSUME NEW s \in Submitters, SubmitStep(s) PROVE FALSE
    BY <1>5 DEF SubmitStep, SubmitGet, SubmitTry, SubmitPut, SubmitArm, SubmitUnlock,
                SubmitLast, SubmitIdle, IdleReturn
  <1>6. ASSUME NEW k \in Clients, ClientStep(k) \/ ClientShutdown(k)
        PROVE  Contract!Next \/ UNCHANGED Wire
    BY <1>1, <1>6, QuietClient, ClientMoves, ClientLeaves DEF ClientStep
  <1>7. ~(Stop \/ Over \/ UNCHANGED vars)
    BY DEF Stop, Over, vars
  <1> QED
    BY <1>2, <1>3, <1>4, <1>5, <1>6, <1>7 DEF Next

LEMMA InitWaiting ==
    ASSUME Init
    PROVE  Waiting /\ Delegated
  <1>1. Waiting
    BY DEF Init, Waiting
  <1>2. ASSUME NEW c \in Conns PROVE ClosedInv(c)
    <2>1. conn[c].sendbuf = NULL /\ Pooled(c)
      BY DEF Init, Pooled, Elems
    <2> QED
      BY <2>1 DEF ClosedInv, Released
  <1> QED
    BY <1>1, <1>2 DEF Delegated

----------------------------------------------------------------------------
\* The theorems.  Orderly and ServerInv: see ServerInvariant.

\* What the threads of the server store in a session, a buffer or a local stays
\* in its type: left within a message, and no call moves more bytes than the
\* socket has or has room for (io.c, handle_request and handle_response).
THEOREM ServerTypeOK == ASSUME Orderly PROVE Spec => []TypeOK
  BY ServerInvariance, TypesHold, PTL

\* Every struct buffer_t is in one place (pool, inbox, send queue, recvbuf,
\* sendbuf or a thread's local), whichever way its session ends: no place is
\* forgotten and none is reached twice (handle_request to queue_put of submit.c,
\* handle_response, finish_connection).
THEOREM ServerBufferConserved == ASSUME Orderly PROVE Spec => []BufferConserved
  BY ServerInvariance, Conserved, PTL

\* conn->lock: one thread between lock and unlock, of an open socket, and the
\* lock is never left set but by finish_connection on a session it releases.
THEOREM ServerConnLock == ASSUME Orderly PROVE Spec => []ConnLock
  BY ServerInvariance, Locked, PTL

\* No response is left without EPOLLOUT (submit.c sets it, handle_response
\* clears it under the lock), so none waits for an event that never comes.
THEOREM ServerOutArmed == ASSUME Orderly PROVE Spec => []OutArmed
  BY ServerInvariance, Armed, PTL

\* handle_request reads at most one request beyond Readahead ahead of the
\* responses.
THEOREM ServerReadaheadBounded == ASSUME Orderly PROVE Spec => []ReadaheadBounded
  BY ServerInvariance, Bounded, PTL

\* received, processed and sent account for every buffer of a session: what
\* finish_connection and the submitter rest on to find the last one in flight.
THEOREM ServerCountersAccount == ASSUME Orderly PROVE Spec => []CountersAccount
  BY ServerInvariance, Accounted, PTL

\* finish_connection drains a session once.
THEOREM ServerFinishedOnce == ASSUME Orderly PROVE Spec => []FinishedOnce
  BY ServerInvariance, EndsOnce, PTL

\* A session back in empty_connections, or taken from it by handle_accept, is
\* there once and no thread of the server works on it any more.
THEOREM ServerReleasedForgotten == ASSUME Orderly PROVE Spec => []ReleasedForgotten
  <1>1. Spec => []ServerInv
    BY ServerInvariance
  <1>2. Init => Waiting
    BY InitWaiting
  <1>3. ServerInv /\ Waiting /\ [Next]_vars => Waiting'
    BY WaitingStep DEF ServerInv
  <1>4. ServerInv /\ Waiting => ReleasedForgotten
    BY Forgotten
  <1> QED
    BY <1>1, <1>2, <1>3, <1>4, PTL DEF Spec

\* When clients do not close with responses unread, a closed session is always
\* given back: by the thread in finish_connection, or by the submitter when
\* the last buffer in flight arrives.  (With "abort" one can be lost for good,
\* the run server_leak.)
THEOREM ServerDelegatedInFlight ==
    ASSUME Orderly, "abort" \notin Closing
    PROVE  Spec => []DelegatedInFlight
  <1>1. Spec => []ServerInv
    BY ServerInvariance
  <1>2. Init => Delegated
    BY InitWaiting
  <1>3. ServerInv /\ Delegated /\ [Next]_vars => Delegated'
    BY DelegatedStep
  <1>4. ServerInv /\ Delegated => DelegatedInFlight
    BY NeverForgotten
  <1> QED
    BY <1>1, <1>2, <1>3, <1>4, PTL DEF Spec

\* On the wire the server's threads together do what Service lets a server do:
\* recv takes what was written, send passes on at most what is due, and close
\* follows the client's.
THEOREM ServerRefinesService == ASSUME Orderly PROVE Spec => ImplementsService
  <1>1. Spec => []ServerInv
    BY ServerInvariance
  <1>2. Init => Contract!Init
    BY InitService
  <1>3. ServerInv /\ [Next]_vars => [Contract!Next]_Wire
    BY ServiceStep
  <1> QED
    BY <1>1, <1>2, <1>3, PTL DEF Spec, ImplementsService, Contract!Spec
=============================================================================

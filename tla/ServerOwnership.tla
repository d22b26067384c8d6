--------------------------- MODULE ServerOwnership ---------------------------
(***************************************************************************)
(* Every step of Server keeps Ownership and Counting, the parts of         *)
(* ServerInvariant about where a buffer is and what the counters of a      *)
(* session say about its buffers.                                          *)
(*                                                                         *)
(* A step moves one buffer from one place to another, or none, or, in      *)
(* finish_connection, all that a session has to the pool.  From this and   *)
(* from what it does to the owner of the buffer follow the invariants of   *)
(* all buffers, and how many buffers of each session are in flight.        *)
(***************************************************************************)
EXTENDS ServerStructure

----------------------------------------------------------------------------
\* Places

\* Buffer b stays where it is, and with whom.
Stays(b) ==
    /\ \A p \in PlaceKinds, i \in PlaceIds : At(b, p, i)' <=> At(b, p, i)
    /\ \A s \in Submitters : At(b, "submitting", s) => sub'[s].conn = sub[s].conn
    /\ buf'[b].conn = buf[b].conn

\* Buffer b is now there and nowhere else.
Now(b, p, i) == \A q \in PlaceKinds, j \in PlaceIds : At(b, q, j)' <=> q = p /\ j = i

\* The sessions that buffers in flight belong to stay.
OwnersStay ==
    \A d \in Conns : \/ InFlight(d) = {}
                     \/ ~Released(d) => ~Released(d)' /\ conn'[d].submitidx = conn[d].submitidx

\* A buffer in flight, by its places.
LEMMA PipelinedAt ==
    ASSUME NEW b \in Buffers
    PROVE  /\ Pipelined(b) <=> \/ \E x \in Computes : At(b, "compute", x) \/ At(b, "computing", x)
                               \/ \E s \in Submitters : At(b, "submit", s) \/ At(b, "submitting", s)
           /\ \A s \in Submitters : AtSubmitter(b, s) <=> At(b, "submit", s) \/ At(b, "submitting", s)
           /\ \A d \in Conns : b \in {conn[d].recvbuf, conn[d].sendbuf} /\ ~conn[d].closed
                                 <=> At(b, "recvbuf", d) \/ At(b, "sendbuf", d)
           /\ \A d \in Conns : b \in InFlight(d) <=> buf[b].conn = d /\ Pipelined(b)
  <1>1. \A x \in Computes : /\ At(b, "compute", x) <=> b \in Elems(compute_inbox[x])
                            /\ At(b, "computing", x) <=> cmp[x] = b
    BY DEF At
  <1>2. \A s \in Submitters :
          /\ At(b, "submit", s) <=> b \in Elems(submitter_inbox[s])
          /\ At(b, "submitting", s) <=> sub[s].buff = b /\ sub[s].pc \in {"try", "put"}
    BY DEF At
  <1>3. \A d \in Conns : /\ At(b, "recvbuf", d) <=> conn[d].recvbuf = b /\ ~conn[d].closed
                         /\ At(b, "sendbuf", d) <=> conn[d].sendbuf = b /\ ~conn[d].closed
    BY DEF At
  <1>4. \A d \in Conns : b \in InFlight(d) <=> buf[b].conn = d /\ Pipelined(b)
    BY DEF InFlight, Pipelined, AtSubmitter
  <1> QED
    BY <1>1, <1>2, <1>3, <1>4 DEF Pipelined, AtSubmitter

LEMMA PipelinedAtNext ==
    ASSUME NEW b \in Buffers
    PROVE  /\ Pipelined(b)' <=> \/ \E x \in Computes : At(b, "compute", x)' \/ At(b, "computing", x)'
                                \/ \E s \in Submitters : At(b, "submit", s)' \/ At(b, "submitting", s)'
           /\ \A s \in Submitters :
                AtSubmitter(b, s)' <=> At(b, "submit", s)' \/ At(b, "submitting", s)'
           /\ \A d \in Conns : b \in {conn'[d].recvbuf, conn'[d].sendbuf} /\ ~conn'[d].closed
                                 <=> At(b, "recvbuf", d)' \/ At(b, "sendbuf", d)'
           /\ \A d \in Conns : b \in InFlight(d)' <=> buf'[b].conn = d /\ Pipelined(b)'
  <1>1. \A x \in Computes : /\ At(b, "compute", x)' <=> b \in Elems(compute_inbox'[x])
                            /\ At(b, "computing", x)' <=> cmp'[x] = b
    BY DEF At
  <1>2. \A s \in Submitters :
          /\ At(b, "submit", s)' <=> b \in Elems(submitter_inbox'[s])
          /\ At(b, "submitting", s)' <=> sub'[s].buff = b /\ sub'[s].pc \in {"try", "put"}
    BY DEF At
  <1>3. \A d \in Conns : /\ At(b, "recvbuf", d)' <=> conn'[d].recvbuf = b /\ ~conn'[d].closed
                         /\ At(b, "sendbuf", d)' <=> conn'[d].sendbuf = b /\ ~conn'[d].closed
    BY DEF At
  <1>4. \A d \in Conns : b \in InFlight(d)' <=> buf'[b].conn = d /\ Pipelined(b)'
    BY DEF InFlight, Pipelined, AtSubmitter
  <1> QED
    BY <1>1, <1>2, <1>3, <1>4 DEF Pipelined, AtSubmitter

\* Where a buffer is, it is only there.
LEMMA OnePlace ==
    ASSUME NEW b \in Buffers, Located(b),
           NEW p \in PlaceKinds, NEW i \in PlaceIds, At(b, p, i),
           NEW q \in PlaceKinds, NEW j \in PlaceIds, At(b, q, j)
    PROVE  q = p /\ j = i
  BY DEF Located

\* A buffer that stays keeps its invariant, and stays in flight or out of it.
LEMMA StayKeeps ==
    ASSUME NEW b \in Buffers, Stays(b), Located(b), BufferInv(b), OwnersStay
    PROVE  /\ Located(b)' /\ BufferInv(b)'
           /\ \A d \in Conns : b \in InFlight(d)' <=> b \in InFlight(d)
  <1>1. Located(b)'
    BY DEF Stays, Located
  <1>2. /\ "compute" \in PlaceKinds /\ "computing" \in PlaceKinds /\ "submit" \in PlaceKinds
        /\ "submitting" \in PlaceKinds /\ "recvbuf" \in PlaceKinds /\ "sendbuf" \in PlaceKinds
        /\ Computes \subseteq PlaceIds /\ Submitters \subseteq PlaceIds /\ Conns \subseteq PlaceIds
    BY DEF PlaceKinds, PlaceIds
  <1>3. /\ Pipelined(b)' <=> Pipelined(b)
        /\ \A s \in Submitters : AtSubmitter(b, s)' <=> AtSubmitter(b, s)
        /\ \A d \in Conns : b \in {conn'[d].recvbuf, conn'[d].sendbuf} /\ ~conn'[d].closed
                              <=> b \in {conn[d].recvbuf, conn[d].sendbuf} /\ ~conn[d].closed
    BY <1>2, PipelinedAt, PipelinedAtNext DEF Stays
  <1>4. \A d \in Conns : b \in InFlight(d)' <=> b \in InFlight(d)
    BY <1>3, PipelinedAt, PipelinedAtNext DEF Stays
  <1>5. BufferInv(b)'
    <2> PICK c : c = buf[b].conn
      OBVIOUS
    <2>1. buf'[b].conn = c
      BY DEF Stays
    <2>2. Pipelined(b) => /\ c \in Conns /\ ~Released(c) /\ ~Released(c)'
                          /\ conn'[c].submitidx = conn[c].submitidx
      <3> SUFFICES ASSUME Pipelined(b)
                   PROVE  /\ c \in Conns /\ ~Released(c) /\ ~Released(c)'
                          /\ conn'[c].submitidx = conn[c].submitidx
        OBVIOUS
      <3>1. c \in Conns /\ ~Released(c)
        BY DEF BufferInv
      <3>2. b \in InFlight(c)
        BY <3>1, PipelinedAt
      <3> QED
        BY <3>1, <3>2 DEF OwnersStay
    <2>3. \A s \in Submitters : AtSubmitter(b, s) => Pipelined(b) /\ conn[c].submitidx = s
      BY DEF BufferInv, Pipelined
    <2>4. ASSUME NEW s \in Submitters, sub'[s].buff = b, sub'[s].pc \in {"try", "put"}
          PROVE  sub'[s].conn = c
      <3>1. At(b, "submitting", s)'
        BY <2>4 DEF At
      <3>2. At(b, "submitting", s)
        BY <1>2, <3>1 DEF Stays
      <3>3. sub[s].buff = b /\ sub[s].pc \in {"try", "put"} /\ sub'[s].conn = sub[s].conn
        BY <3>2 DEF At, Stays
      <3> QED
        BY <3>3 DEF BufferInv
    <2> QED
      BY <1>3, <2>1, <2>2, <2>3, <2>4 DEF BufferInv
  <1> QED
    BY <1>1, <1>4, <1>5

\* A step that moves no buffer, and one that moves one.
LEMMA NoneMoves ==
    ASSUME Ownership, QueuesInj', OwnersStay, \A b \in Buffers : Stays(b)
    PROVE  Ownership' /\ \A d \in Conns : InFlight(d)' = InFlight(d)
  <1>1. ASSUME NEW b \in Buffers
        PROVE  /\ Located(b)' /\ BufferInv(b)'
               /\ \A d \in Conns : b \in InFlight(d)' <=> b \in InFlight(d)
    BY StayKeeps DEF Ownership
  <1>2. \A d \in Conns : InFlight(d) \subseteq Buffers /\ InFlight(d)' \subseteq Buffers
    BY DEF InFlight
  <1>3. \A d \in Conns : InFlight(d)' = InFlight(d)
    BY <1>1, <1>2
  <1> QED
    BY <1>1, <1>3 DEF Ownership

LEMMA OneMoves ==
    ASSUME Ownership, QueuesInj', OwnersStay, NEW b0 \in Buffers,
           \A b \in Buffers \ {b0} : Stays(b),
           NEW p \in PlaceKinds, NEW i \in PlaceIds, Now(b0, p, i), BufferInv(b0)'
    PROVE  /\ Ownership'
           /\ \A d \in Conns : InFlight(d)' \subseteq Buffers /\ InFlight(d) \subseteq Buffers
           /\ \A d \in Conns, b \in Buffers \ {b0} : b \in InFlight(d)' <=> b \in InFlight(d)
  <1>1. ASSUME NEW b \in Buffers \ {b0}
        PROVE  /\ Located(b)' /\ BufferInv(b)'
               /\ \A d \in Conns : b \in InFlight(d)' <=> b \in InFlight(d)
    BY StayKeeps DEF Ownership
  <1>2. \A d \in Conns : InFlight(d)' \subseteq Buffers /\ InFlight(d) \subseteq Buffers
    BY DEF InFlight
  <1>3. Located(b0)'
    BY DEF Located, Now
  <1> QED
    BY <1>1, <1>2, <1>3 DEF Ownership

\* The places of b among the queues and threads of each kind are the same.
PoolSame(b) == b \in Elems(empty_buffers') <=> b \in Elems(empty_buffers)
ComputeSame(b) ==
    \A x \in Computes : /\ b \in Elems(compute_inbox'[x]) <=> b \in Elems(compute_inbox[x])
                        /\ cmp'[x] = b <=> cmp[x] = b
Submitting(b, s) == sub[s].buff = b /\ sub[s].pc \in {"try", "put"}
SubmitSame(b) ==
    \A s \in Submitters :
        /\ b \in Elems(submitter_inbox'[s]) <=> b \in Elems(submitter_inbox[s])
        /\ Submitting(b, s)' <=> Submitting(b, s)
        /\ Submitting(b, s) => sub'[s].conn = sub[s].conn
SessionSame(b) ==
    \A d \in Conns :
        /\ b \in Elems(conn'[d].send_queue) <=> b \in Elems(conn[d].send_queue)
        /\ conn'[d].sendbuf = b /\ ~conn'[d].closed <=> conn[d].sendbuf = b /\ ~conn[d].closed
        /\ conn'[d].recvbuf = b /\ ~conn'[d].closed <=> conn[d].recvbuf = b /\ ~conn[d].closed

LEMMA StaysBy ==
    ASSUME NEW b \in Buffers, PoolSame(b), ComputeSame(b), SubmitSame(b), SessionSame(b),
           buf'[b].conn = buf[b].conn
    PROVE  Stays(b)
  <1>1. ASSUME NEW p \in PlaceKinds, NEW i \in PlaceIds
        PROVE  At(b, p, i)' <=> At(b, p, i)
    <2>1. CASE p \in {"pool", "compute", "computing"}
      BY <2>1 DEF At, PoolSame, ComputeSame
    <2>2. CASE p \in {"submit", "submitting"}
      BY <2>2 DEF At, SubmitSame, Submitting
    <2>3. CASE p \in {"queue", "sendbuf", "recvbuf"}
      BY <2>3 DEF At, SessionSame
    <2> QED
      BY <1>1, <2>1, <2>2, <2>3 DEF PlaceKinds
  <1>2. \A s \in Submitters : At(b, "submitting", s) => sub'[s].conn = sub[s].conn
    BY DEF At, SubmitSame, Submitting
  <1> QED
    BY <1>1, <1>2 DEF Stays

LEMMA SameByFrame ==
    ASSUME NEW b \in Buffers
    PROVE  /\ UNCHANGED empty_buffers => PoolSame(b)
           /\ UNCHANGED <<compute_inbox, cmp>> => ComputeSame(b)
           /\ UNCHANGED <<submitter_inbox, sub>> => SubmitSame(b)
           /\ UNCHANGED conn => SessionSame(b)
           /\ \A c \in Conns : OnlyConn(c) /\ SameBuffers(c) /\ conn'[c].closed = conn[c].closed
                => SessionSame(b)
  <1>1. UNCHANGED empty_buffers => PoolSame(b)
    BY DEF PoolSame
  <1>2. UNCHANGED <<compute_inbox, cmp>> => ComputeSame(b)
    BY DEF ComputeSame
  <1>3. UNCHANGED <<submitter_inbox, sub>> => SubmitSame(b)
    BY DEF SubmitSame, Submitting
  <1>4. UNCHANGED conn => SessionSame(b)
    BY DEF SessionSame
  <1>5. ASSUME NEW c \in Conns, OnlyConn(c), SameBuffers(c), conn'[c].closed = conn[c].closed
        PROVE  SessionSame(b)
    BY <1>5 DEF SessionSame, OnlyConn, SameBuffers
  <1> QED
    BY <1>1, <1>2, <1>3, <1>4, <1>5

\* The pool and the inboxes stay without repetition.
LEMMA InjByFrame ==
    ASSUME QueuesInj, UNCHANGED <<empty_buffers, compute_inbox, submitter_inbox>>,
           \A d \in Conns : conn'[d].send_queue = conn[d].send_queue
                            \/ conn'[d].send_queue = <<>> \/ Inj(conn'[d].send_queue)
    PROVE  QueuesInj'
  <1>1. Inj(empty_buffers)' /\ \A x \in Computes : Inj(compute_inbox[x])'
    BY DEF QueuesInj, Inj
  <1>2. \A s \in Submitters : Inj(submitter_inbox[s])'
    BY DEF QueuesInj, Inj
  <1>3. \A d \in Conns : Inj(conn[d].send_queue)'
    BY DEF QueuesInj, Inj
  <1> QED
    BY <1>1, <1>2, <1>3 DEF QueuesInj

LEMMA OwnersByFrame ==
    ASSUME UNCHANGED <<empty_connections, acc>>,
           \A d \in Conns : conn'[d].submitidx = conn[d].submitidx
    PROVE  OwnersStay
  BY DEF OwnersStay, Released, Pooled, Taken

\* A step that changes of the sessions no buffer, and of the buffers no owner.
LEMMA NothingMoves ==
    ASSUME Ownership, UNCHANGED <<empty_buffers, compute_inbox, submitter_inbox, cmp>>,
           \A b \in Buffers : SubmitSame(b) /\ buf'[b].conn = buf[b].conn,
           UNCHANGED conn \/ \E c \in Conns : OnlyConn(c) /\ SameBuffers(c) /\ SameOwner(c),
           OwnersStay
    PROVE  Ownership' /\ \A d \in Conns : InFlight(d)' = InFlight(d)
  <1>1. \A b \in Buffers : SessionSame(b)
    BY SameByFrame DEF SameOwner
  <1>2. \A b \in Buffers : Stays(b)
    BY <1>1, SameByFrame, StaysBy
  <1>3. \A d \in Conns : conn'[d].send_queue = conn[d].send_queue
    BY DEF OnlyConn, SameBuffers
  <1>4. QueuesInj'
    BY <1>3, InjByFrame DEF Ownership
  <1> QED
    BY <1>2, <1>4, NoneMoves

----------------------------------------------------------------------------
\* The buffers, by action

\* The handlers that lock, unlock, send, receive, or only look.
LEMMA HandlerOwns ==
    ASSUME Structure, Ownership, NEW w \in IOs,
           \/ RespLock(w) \/ RespUnlock(w) \/ Send(w) \/ Recv(w)
           \/ ReqLock(w) \/ ReqUnlock(w) \/ FinishTry(w)
    PROVE  Ownership' /\ \A d \in Conns : InFlight(d)' = InFlight(d)
  <1>1. /\ UNCHANGED <<queues, sub, cmp, acc>>
        /\ \A b \in Buffers : buf'[b].conn = buf[b].conn
        /\ UNCHANGED conn \/ \E c \in Conns : OnlyConn(c) /\ SameBuffers(c) /\ SameOwner(c)
    <2>1. CASE RespLock(w)
      BY <2>1, RespLockDoes
    <2>2. CASE RespUnlock(w)
      BY <2>2, RespUnlockDoes
    <2>3. CASE ReqLock(w)
      BY <2>3, ReqLockDoes
    <2>4. CASE ReqUnlock(w)
      BY <2>4, ReqUnlockDoes
    <2>5. CASE FinishTry(w)
      BY <2>5, FinishTryDoes
    <2>6. CASE Send(w)
      BY <2>6, SendDoes, Zenon DEF OnlyBuf
    <2>7. CASE Recv(w)
      BY <2>7, RecvDoes DEF OnlyBuf
    <2> QED
      BY <2>1, <2>2, <2>3, <2>4, <2>5, <2>6, <2>7
  <1>2. \A d \in Conns : conn'[d].submitidx = conn[d].submitidx
    BY <1>1 DEF OnlyConn, SameOwner
  <1>3. OwnersStay
    BY <1>1, <1>2, OwnersByFrame DEF queues
  <1>4. \A b \in Buffers : SubmitSame(b)
    BY <1>1, SameByFrame DEF queues
  <1> QED
    BY <1>1, <1>3, <1>4, NothingMoves DEF queues

\* The steps of epoll_wait, and all that change no session and no thread's buffer.
LEMMA IdleOwns ==
    ASSUME Ownership, UNCHANGED <<conn, buf, queues, sub, cmp, acc>>
    PROVE  Ownership' /\ \A d \in Conns : InFlight(d)' = InFlight(d)
  <1>1. OwnersStay
    BY OwnersByFrame DEF queues
  <1>2. \A b \in Buffers : SubmitSame(b) /\ buf'[b].conn = buf[b].conn
    BY SameByFrame DEF queues
  <1> QED
    BY <1>1, <1>2, NothingMoves DEF queues

\* The submit thread's steps without a buffer.
LEMMA SubmitterOwns ==
    ASSUME Structure, Ownership, NEW s \in Submitters, SubmitArm(s) \/ SubmitUnlock(s)
    PROVE  Ownership' /\ \A d \in Conns : InFlight(d)' = InFlight(d)
  <1>1. /\ UNCHANGED <<buf, queues, cmp, acc>> /\ OnlySub(s)
        /\ \E c \in Conns : OnlyConn(c) /\ SameBuffers(c) /\ SameOwner(c)
    BY SubmitArmDoes, SubmitUnlockDoes
  <1>2. sub[s].pc \notin {"try", "put"} /\ sub'[s].pc \notin {"try", "put"}
    <2>1. CASE SubmitArm(s)
      <3>1. sub[s].pc = "arm" /\ sub'[s].pc = "unlock"
        BY <2>1, SubmitArmDoes
      <3> QED
        BY <3>1
    <2>2. CASE SubmitUnlock(s)
      <3>1. \/ sub[s].pc = "unlock" /\ sub'[s].pc = "get"
            \/ sub[s].pc = "dispose" /\ sub'[s].pc = "last"
        BY <2>2, SubmitUnlockDoes
      <3> QED
        BY <3>1
    <2> QED
      BY <2>1, <2>2
  <1>3. \A d \in Conns : conn'[d].submitidx = conn[d].submitidx
    BY <1>1 DEF OnlyConn, SameOwner
  <1>4. OwnersStay
    BY <1>1, <1>3, OwnersByFrame DEF queues
  <1>5. \A b \in Buffers : SubmitSame(b)
    BY <1>1, <1>2 DEF queues, SubmitSame, Submitting, OnlySub
  <1> QED
    BY <1>1, <1>4, <1>5, NothingMoves DEF queues

\* When the end of finish_connection releases the session nothing is left of it.
LEMMA EndOfSession ==
    ASSUME Structure, Counting, NEW w \in IOs, FinishEnd(w), NoneInFlight(io[w].conn)
    PROVE  LET c == io[w].conn
           IN  /\ c \in Conns /\ ~Released(c) /\ conn[c].sendbuf = NULL
               /\ conn[c].received = conn[c].processed
  <1> PICK c \in Conns : c = io[w].conn
    BY FinishEndDoes
  <1>1. io[w].pc = "fin_end" /\ Busy(w) /\ IOInv(w)
    BY FinishEndDoes DEF Structure, Busy
  <1>2. conn[c].sent \in Nat /\ conn[c].received \in Nat /\ conn[c].processed \in Nat
    BY DEF Structure, Types, ConnType
  <1>3. conn[c].processed = conn[c].sent + Count(conn[c].sendbuf) /\ conn[c].closed
    BY <1>1 DEF IOInv
  <1>4. conn[c].sendbuf # NULL => conn[c].sent < conn[c].received
    BY <1>3 DEF Counting, CountInv
  <1>5. ~Released(c)
    BY <1>1, BusyConn
  <1>6. conn[c].sent = conn[c].received
    BY DEF NoneInFlight
  <1> QED
    BY <1>2, <1>3, <1>4, <1>5, <1>6 DEF Count

LEMMA FinishEndOwns ==
    ASSUME Structure, Ownership, Counting, NEW w \in IOs, FinishEnd(w)
    PROVE  Ownership' /\ \A d \in Conns : InFlight(d)' = InFlight(d)
  <1> PICK c \in Conns : c = io[w].conn
    BY FinishEndDoes
  <1>1. UNCHANGED <<buf, empty_buffers, compute_inbox, submitter_inbox, sub, cmp, acc>>
    BY FinishEndDoes
  <1>2. UNCHANGED conn \/ (OnlyConn(c) /\ SameBuffers(c) /\ SameOwner(c))
    BY FinishEndDoes
  <1>3. OwnersStay
    <2>1. CASE NoneInFlight(c) /\ UNCHANGED conn /\ empty_connections' = Append(empty_connections, c)
      <3>1. InFlight(c) = {}
        BY <2>1, EndOfSession, NoneAway
      <3>2. \A d \in Conns \ {c} : Released(d)' <=> Released(d)
        <4>1. Elems(Append(empty_connections, c)) = Elems(empty_connections) \cup {c}
          BY AppendElems DEF Structure, Types
        <4> QED
          BY <1>1, <2>1, <4>1 DEF Released, Taken, Pooled
      <3> QED
        BY <2>1, <3>1, <3>2 DEF OwnersStay
    <2>2. CASE UNCHANGED empty_connections
      <3>1. \A d \in Conns : conn'[d].submitidx = conn[d].submitidx
        BY <1>2 DEF OnlyConn, SameOwner
      <3> QED
        BY <1>1, <2>2, <3>1, OwnersByFrame
    <2> QED
      BY <2>1, <2>2, FinishEndDoes
  <1>4. \A b \in Buffers : SubmitSame(b) /\ buf'[b].conn = buf[b].conn
    BY <1>1, SameByFrame
  <1> QED
    BY <1>1, <1>2, <1>3, <1>4, NothingMoves

LEMMA SubmitLastOwns ==
    ASSUME Structure, Ownership, Counting, NEW s \in Submitters, SubmitLast(s)
    PROVE  Ownership' /\ \A d \in Conns : InFlight(d)' = InFlight(d)
  <1> PICK c \in Conns : c = sub[s].conn
    BY SubmitLastDoes
  <1>1. /\ UNCHANGED <<conn, buf, empty_buffers, compute_inbox, submitter_inbox, cmp, acc>>
        /\ sub[s].pc = "last" /\ OnlySub(s) /\ sub'[s].pc = "get"
    BY SubmitLastDoes
  <1>2. OwnersStay
    <2>1. CASE LastInFlight(c) /\ empty_connections' = Append(empty_connections, c)
      <3>1. InFlight(c) = {}
        BY <1>1, <2>1, SubmitterConn, NoneAway DEF LastInFlight
      <3>2. \A d \in Conns \ {c} : Released(d)' <=> Released(d)
        <4>1. Elems(Append(empty_connections, c)) = Elems(empty_connections) \cup {c}
          BY AppendElems DEF Structure, Types
        <4> QED
          BY <1>1, <2>1, <4>1 DEF Released, Taken, Pooled
      <3> QED
        BY <1>1, <3>1, <3>2 DEF OwnersStay
    <2>2. CASE UNCHANGED empty_connections
      BY <1>1, <2>2, OwnersByFrame
    <2> QED
      BY <2>1, <2>2, SubmitLastDoes
  <1>3. \A b \in Buffers : SubmitSame(b) /\ buf'[b].conn = buf[b].conn
    BY <1>1 DEF SubmitSame, Submitting, OnlySub
  <1> QED
    BY <1>1, <1>2, <1>3, NothingMoves

LEMMA AcceptOwns ==
    ASSUME Structure, Ownership, NEW a \in Acceptors,
           AcceptWait(a) \/ AcceptGet(a) \/ AcceptMiss(a) \/ AcceptFd(a) \/ AcceptFail(a)
    PROVE  Ownership' /\ \A d \in Conns : InFlight(d)' = InFlight(d)
  <1>1. UNCHANGED <<conn, buf, empty_buffers, compute_inbox, submitter_inbox, sub, cmp>>
    <2>1. CASE AcceptGet(a)
      BY <2>1, AcceptGetDoes
    <2>2. CASE AcceptWait(a) \/ AcceptMiss(a) \/ AcceptFd(a) \/ AcceptFail(a)
      BY <2>2, AcceptWaitDoes, AcceptFdDoes, AcceptFailDoes DEF queues
    <2> QED
      BY <2>1, <2>2
  <1>2. \A d \in Conns : ~Released(d) => ~Released(d)'
    <2>1. CASE AcceptGet(a)
      <3>1. /\ empty_connections # <<>> /\ empty_connections' = Tail(empty_connections)
            /\ OnlyAcc(a) /\ acc'[a].conn = Head(empty_connections)
        BY <2>1, AcceptGetDoes
      <3>2. Elems(empty_connections) = Elems(Tail(empty_connections)) \cup {Head(empty_connections)}
        BY <3>1, TailElems DEF Structure, Types
      <3> QED
        BY <3>1, <3>2 DEF Released, Taken, Pooled, OnlyAcc
    <2>2. CASE AcceptWait(a) \/ AcceptMiss(a) \/ AcceptFd(a) \/ AcceptFail(a)
      <3>1. UNCHANGED empty_connections /\ OnlyAcc(a) /\ acc'[a].conn = acc[a].conn
        BY <2>2, AcceptWaitDoes, AcceptFdDoes, AcceptFailDoes DEF queues
      <3> QED
        BY <3>1 DEF Released, Taken, Pooled, OnlyAcc
    <2> QED
      BY <2>1, <2>2
  <1>3. OwnersStay
    BY <1>1, <1>2 DEF OwnersStay
  <1>4. \A b \in Buffers : SubmitSame(b) /\ buf'[b].conn = buf[b].conn
    BY <1>1, SameByFrame
  <1> QED
    BY <1>1, <1>3, <1>4, NothingMoves

\* A new session begins without buffers, as the one before it ended.
LEMMA AcceptInitOwns ==
    ASSUME Structure, Ownership, NEW a \in Acceptors, AcceptInit(a) \/ AcceptCtlFail(a)
    PROVE  Ownership' /\ \A d \in Conns : InFlight(d)' = InFlight(d)
  <1> PICK c \in Conns : c = acc[a].conn
    BY AcceptInitDoes, AcceptCtlFailDoes
  <1>1. /\ acc[a].pc = "init" /\ UNCHANGED <<buf, queues, sub, cmp>> /\ OnlyConn(c)
        /\ Fresh(c, acc[a].fd) /\ OnlyAcc(a) /\ acc'[a].conn \in {c, NULL}
    BY AcceptInitDoes, AcceptCtlFailDoes
  <1>2. Released(c) /\ conn[c].closed /\ conn[c].send_queue = <<>> /\ conn[c].sendbuf = NULL
    BY <1>1 DEF Structure, AcceptInv, SessionInv, Released, Taken
  <1>3. conn'[c].send_queue = <<>> /\ conn'[c].sendbuf = NULL /\ conn'[c].recvbuf = NULL
    BY <1>1, <1>2 DEF Fresh
  <1>4. OwnersStay
    <2>1. \A d \in Conns \ {c} : ~Released(d) => ~Released(d)'
      BY <1>1, Constants DEF Released, Taken, Pooled, OnlyAcc, queues
    <2> QED
      BY <1>1, <1>2, <2>1 DEF OwnersStay, OnlyConn
  <1>5. \A b \in Buffers : SessionSame(b)
    BY <1>1, <1>2, <1>3, Constants DEF SessionSame, OnlyConn
  <1>6. \A b \in Buffers : Stays(b)
    BY <1>1, <1>5, SameByFrame, StaysBy DEF queues
  <1>7. QueuesInj'
    <2>1. \A d \in Conns : conn'[d].send_queue = conn[d].send_queue
      BY <1>1, <1>2, <1>3 DEF OnlyConn
    <2> QED
      BY <1>1, <2>1, InjByFrame DEF queues, Ownership
  <1> QED
    BY <1>4, <1>6, <1>7, NoneMoves

----------------------------------------------------------------------------
\* The steps that move a buffer

HeldKinds   == {"pool", "queue", "sendbuf", "recvbuf"}
FlyingKinds == {"compute", "computing", "submit", "submitting"}

LEMMA NowBy ==
    ASSUME NEW b \in Buffers, Located(b),
           NEW p0 \in PlaceKinds, NEW i0 \in PlaceIds, At(b, p0, i0), ~At(b, p0, i0)',
           NEW p1 \in PlaceKinds, NEW i1 \in PlaceIds, At(b, p1, i1)',
           \A q \in PlaceKinds, j \in PlaceIds : At(b, q, j)' => At(b, q, j) \/ (q = p1 /\ j = i1)
    PROVE  Now(b, p1, i1)
  <1> SUFFICES ASSUME NEW q \in PlaceKinds, NEW j \in PlaceIds
               PROVE  At(b, q, j)' <=> q = p1 /\ j = i1
    BY DEF Now
  <1>1. ASSUME At(b, q, j)', ~(q = p1 /\ j = i1) PROVE FALSE
    <2>1. At(b, q, j)
      BY <1>1
    <2>2. q = p0 /\ j = i0
      BY <2>1, OnePlace
    <2> QED
      BY <1>1, <2>2
  <1> QED
    BY <1>1

\* Where a buffer is tells whether, and for whom, it is in flight.
LEMMA HeldBefore ==
    ASSUME NEW b \in Buffers, Located(b), NEW p \in HeldKinds, NEW i \in PlaceIds, At(b, p, i)
    PROVE  ~Pipelined(b) /\ \A d \in Conns : b \notin InFlight(d)
  <1>1. \A q \in FlyingKinds, j \in PlaceIds : ~At(b, q, j)
    BY OnePlace DEF HeldKinds, FlyingKinds, PlaceKinds
  <1>2. Computes \subseteq PlaceIds /\ Submitters \subseteq PlaceIds
    BY DEF PlaceIds
  <1>3. ~Pipelined(b)
    BY <1>1, <1>2, PipelinedAt DEF FlyingKinds
  <1> QED
    BY <1>3, PipelinedAt

LEMMA HeldNow ==
    ASSUME NEW b \in Buffers, NEW p \in HeldKinds, NEW i \in PlaceIds, Now(b, p, i),
           p \in {"sendbuf", "recvbuf"} => buf'[b].conn = i
    PROVE  BufferInv(b)' /\ \A d \in Conns : b \notin InFlight(d)'
  <1>1. \A q \in FlyingKinds, j \in PlaceIds : ~At(b, q, j)'
    BY DEF Now, HeldKinds, FlyingKinds, PlaceKinds
  <1>2. /\ Computes \subseteq PlaceIds /\ Submitters \subseteq PlaceIds /\ Conns \subseteq PlaceIds
        /\ "recvbuf" \in PlaceKinds /\ "sendbuf" \in PlaceKinds
    BY DEF PlaceIds, PlaceKinds
  <1>3. ~Pipelined(b)' /\ \A s \in Submitters : ~AtSubmitter(b, s)'
    BY <1>1, <1>2, PipelinedAtNext DEF FlyingKinds
  <1>4. \A s \in Submitters : ~(sub'[s].buff = b /\ sub'[s].pc \in {"try", "put"})
    BY <1>3 DEF AtSubmitter
  <1>5. ASSUME NEW d \in Conns, b \in {conn'[d].recvbuf, conn'[d].sendbuf}, ~conn'[d].closed
        PROVE  buf'[b].conn = d
    <2>1. At(b, "recvbuf", d)' \/ At(b, "sendbuf", d)'
      BY <1>5, PipelinedAtNext
    <2>2. p \in {"sendbuf", "recvbuf"} /\ i = d
      BY <1>2, <2>1 DEF Now
    <2> QED
      BY <2>2
  <1> QED
    BY <1>3, <1>4, <1>5, PipelinedAtNext DEF BufferInv

LEMMA FlyingBefore ==
    ASSUME NEW b \in Buffers, BufferInv(b), NEW p \in FlyingKinds, NEW i \in PlaceIds, At(b, p, i)
    PROVE  /\ buf[b].conn \in Conns /\ ~Released(buf[b].conn)
           /\ \A d \in Conns : b \in InFlight(d) <=> d = buf[b].conn
           /\ p \in {"submit", "submitting"} => conn[buf[b].conn].submitidx = i
           /\ p = "submitting" => sub[i].conn = buf[b].conn
  <1>1. Pipelined(b)
    BY DEF Pipelined, AtSubmitter, At, FlyingKinds
  <1>2. p \in {"submit", "submitting"} => i \in Submitters /\ AtSubmitter(b, i)
    BY DEF AtSubmitter, At
  <1>3. p = "submitting" => i \in Submitters /\ sub[i].buff = b /\ sub[i].pc \in {"try", "put"}
    BY DEF At
  <1>4. \A d \in Conns : b \in InFlight(d) <=> buf[b].conn = d
    BY <1>1, PipelinedAt
  <1> QED
    BY <1>1, <1>2, <1>3, <1>4 DEF BufferInv

LEMMA FlyingNow ==
    ASSUME NEW b \in Buffers, NEW p \in FlyingKinds, NEW i \in PlaceIds, Now(b, p, i),
           NEW c \in Conns, buf'[b].conn = c, ~Released(c)',
           p \in {"submit", "submitting"} => conn'[c].submitidx = i,
           p = "submitting" => sub'[i].conn = c
    PROVE  BufferInv(b)' /\ \A d \in Conns : b \in InFlight(d)' <=> d = c
  <1>1. /\ Computes \subseteq PlaceIds /\ Submitters \subseteq PlaceIds /\ Conns \subseteq PlaceIds
        /\ \A q \in {"submit", "submitting", "recvbuf", "sendbuf"} : q \in PlaceKinds
        /\ p \in PlaceKinds
    BY DEF PlaceIds, PlaceKinds, FlyingKinds
  <1>2. Pipelined(b)'
    <2>1. At(b, p, i)'
      BY <1>1 DEF Now
    <2> QED
      BY <2>1 DEF Pipelined, AtSubmitter, At, FlyingKinds
  <1>3. ASSUME NEW s \in Submitters, AtSubmitter(b, s)'
        PROVE  conn'[c].submitidx = s
    <2>1. At(b, "submit", s)' \/ At(b, "submitting", s)'
      BY <1>3, PipelinedAtNext
    <2>2. p \in {"submit", "submitting"} /\ i = s
      BY <1>1, <2>1 DEF Now
    <2> QED
      BY <2>2
  <1>4. ASSUME NEW s \in Submitters, sub'[s].buff = b, sub'[s].pc \in {"try", "put"}
        PROVE  sub'[s].conn = c
    <2>1. At(b, "submitting", s)'
      BY <1>4 DEF At
    <2>2. p = "submitting" /\ i = s
      BY <1>1, <2>1 DEF Now
    <2> QED
      BY <2>2
  <1>5. \A d \in Conns : ~(b \in {conn'[d].recvbuf, conn'[d].sendbuf} /\ ~conn'[d].closed)
    <2> SUFFICES ASSUME NEW d \in Conns, b \in {conn'[d].recvbuf, conn'[d].sendbuf},
                        ~conn'[d].closed
                 PROVE  FALSE
      OBVIOUS
    <2>1. At(b, "recvbuf", d)' \/ At(b, "sendbuf", d)'
      BY PipelinedAtNext
    <2> QED
      BY <1>1, <2>1 DEF Now, FlyingKinds
  <1>6. \A d \in Conns : b \in InFlight(d)' <=> d = c
    BY <1>2, PipelinedAtNext
  <1> QED
    BY <1>2, <1>3, <1>4, <1>5, <1>6 DEF BufferInv

\* A buffer of a session that an IO thread holds moves within it, or to the pool,
\* or comes from there: no buffer in flight is touched.
LEMMA HeldMove ==
    ASSUME Ownership, QueuesInj', OwnersStay, NEW b0 \in Buffers,
           \A b \in Buffers \ {b0} : Stays(b),
           NEW p0 \in HeldKinds, NEW i0 \in PlaceIds, At(b0, p0, i0),
           NEW p \in HeldKinds, NEW i \in PlaceIds, Now(b0, p, i),
           p \in {"sendbuf", "recvbuf"} => buf'[b0].conn = i
    PROVE  Ownership' /\ \A d \in Conns : InFlight(d)' = InFlight(d)
  <1>1. BufferInv(b0)' /\ \A d \in Conns : b0 \notin InFlight(d)'
    BY HeldNow
  <1>2. \A d \in Conns : b0 \notin InFlight(d)
    BY HeldBefore DEF Ownership
  <1>3. p \in PlaceKinds
    BY DEF HeldKinds, PlaceKinds
  <1>4. /\ Ownership'
        /\ \A d \in Conns : InFlight(d)' \subseteq Buffers /\ InFlight(d) \subseteq Buffers
        /\ \A d \in Conns, b \in Buffers \ {b0} : b \in InFlight(d)' <=> b \in InFlight(d)
    BY <1>1, <1>3, OneMoves
  <1>5. \A d \in Conns : InFlight(d)' = InFlight(d)
    BY <1>1, <1>2, <1>4
  <1> QED
    BY <1>4, <1>5

LEMMA RespTakeOwns ==
    ASSUME Structure, Ownership, NEW w \in IOs, RespTake(w)
    PROVE  Ownership' /\ \A d \in Conns : InFlight(d)' = InFlight(d)
  <1> PICK c \in Conns : c = io[w].conn
    BY RespTakeDoes
  <1>1. UNCHANGED <<queues, sub, cmp, acc>> /\ ~conn[c].closed
    BY RespTakeDoes DEF Structure, IOInv, Busy
  <1>2. CASE UNCHANGED <<conn, buf>>
    BY <1>1, <1>2, IdleOwns
  <1>3. CASE conn[c].sendbuf = NULL /\ conn[c].send_queue # <<>>
    <2> PICK b0 \in Buffers : b0 = Head(conn[c].send_queue)
      BY <1>3, RespTakeDoes
    <2>1. /\ OnlyConn(c) /\ SameOwner(c) /\ conn'[c].sendbuf = b0
          /\ conn'[c].send_queue = Tail(conn[c].send_queue)
          /\ conn'[c].recvbuf = conn[c].recvbuf /\ OnlyBuf(b0) /\ buf'[b0].conn = c
      BY <1>3, RespTakeDoes
    <2>2. /\ Inj(Tail(conn[c].send_queue)) /\ b0 \notin Elems(Tail(conn[c].send_queue))
          /\ Elems(conn[c].send_queue) = Elems(Tail(conn[c].send_queue)) \cup {b0}
      <3>1. conn[c].send_queue \in Seq(Buffers) /\ Inj(conn[c].send_queue)
        BY DEF Structure, Types, ConnType, Ownership, QueuesInj
      <3> QED
        BY <1>3, <3>1, TailElems
    <2>3. ~conn'[c].closed
      BY <1>1, <2>1 DEF SameOwner
    <2>4. \A b \in Buffers \ {b0} : SessionSame(b)
      BY <1>3, <2>1, <2>2, <2>3, Constants DEF SessionSame, OnlyConn, SameOwner
    <2>5. \A b \in Buffers \ {b0} : Stays(b)
      BY <1>1, <2>1, <2>4, SameByFrame, StaysBy DEF queues, OnlyBuf
    <2>6. At(b0, "queue", c) /\ ~At(b0, "queue", c)' /\ At(b0, "sendbuf", c)'
      BY <2>1, <2>2, <2>3 DEF At
    <2>7. Now(b0, "sendbuf", c)
      <3>1. \A q \in PlaceKinds, j \in PlaceIds :
              At(b0, q, j)' => At(b0, q, j) \/ (q = "sendbuf" /\ j = c)
        <4> SUFFICES ASSUME NEW q \in PlaceKinds, NEW j \in PlaceIds, At(b0, q, j)',
                            ~(q = "sendbuf" /\ j = c)
                     PROVE  At(b0, q, j)
          OBVIOUS
        <4>1. ASSUME NEW d \in Conns \ {c} PROVE conn'[d] = conn[d]
          BY <2>1 DEF OnlyConn
        <4>2. CASE q = "queue"
          BY <2>1, <2>2, <4>1, <4>2 DEF At
        <4>3. CASE q = "sendbuf"
          BY <4>1, <4>3 DEF At
        <4>4. CASE q = "recvbuf"
          BY <1>1, <2>1, <4>1, <4>4 DEF At
        <4>5. CASE q \notin {"queue", "sendbuf", "recvbuf"}
          BY <1>1, <4>5 DEF At, queues
        <4> QED
          BY <4>2, <4>3, <4>4, <4>5
      <3>2. Located(b0) /\ "queue" \in PlaceKinds /\ "sendbuf" \in PlaceKinds /\ c \in PlaceIds
        BY DEF PlaceKinds, PlaceIds, Ownership
      <3> QED
        BY <2>6, <3>1, <3>2, NowBy
    <2>8. QueuesInj'
      <3>1. \A d \in Conns : conn'[d].send_queue = conn[d].send_queue \/ Inj(conn'[d].send_queue)
        BY <2>1, <2>2 DEF OnlyConn
      <3> QED
        BY <1>1, <3>1, InjByFrame DEF queues, Ownership
    <2>9. OwnersStay
      <3>1. \A d \in Conns : conn'[d].submitidx = conn[d].submitidx
        BY <2>1 DEF OnlyConn, SameOwner
      <3> QED
        BY <1>1, <3>1, OwnersByFrame DEF queues
    <2> QED
      BY <2>1, <2>5, <2>6, <2>7, <2>8, <2>9, HeldMove, Zenon DEF HeldKinds, PlaceIds
  <1> QED
    BY <1>2, <1>3, RespTakeDoes

LEMMA RespSentOwns ==
    ASSUME Structure, Ownership, NEW w \in IOs, RespSent(w)
    PROVE  Ownership' /\ \A d \in Conns : InFlight(d)' = InFlight(d)
  <1> PICK c \in Conns : c = io[w].conn
    BY RespSentDoes
  <1> PICK b0 \in Buffers : b0 = conn[c].sendbuf
    BY RespSentDoes
  <1>1. /\ UNCHANGED <<buf, compute_inbox, submitter_inbox, sub, cmp, acc, empty_connections>>
        /\ ~conn[c].closed
    BY RespSentDoes DEF Structure, IOInv, Busy
  <1>2. /\ OnlyConn(c) /\ SameOwner(c) /\ conn'[c].sendbuf = NULL
        /\ conn'[c].send_queue = conn[c].send_queue /\ conn'[c].recvbuf = conn[c].recvbuf
        /\ empty_buffers' = Append(empty_buffers, b0)
    BY RespSentDoes
  <1>3. /\ Located(b0) /\ At(b0, "sendbuf", c) /\ c \in PlaceIds /\ NULL \in PlaceIds
        /\ "sendbuf" \in PlaceKinds /\ "pool" \in PlaceKinds
    BY <1>1 DEF At, PlaceIds, PlaceKinds, Ownership
  <1>4. b0 \notin Elems(empty_buffers)
    <2>1. ~At(b0, "pool", NULL)
      BY <1>3, OnePlace
    <2> QED
      BY <2>1 DEF At
  <1>5. Elems(empty_buffers') = Elems(empty_buffers) \cup {b0} /\ Inj(empty_buffers')
    BY <1>2, <1>4, AppendElems DEF Structure, Types, Ownership, QueuesInj
  <1>6. ~conn'[c].closed
    BY <1>1, <1>2 DEF SameOwner
  <1>7. \A b \in Buffers \ {b0} : SessionSame(b) /\ PoolSame(b)
    BY <1>2, <1>5, <1>6, Constants DEF SessionSame, PoolSame, OnlyConn, SameOwner
  <1>8. \A b \in Buffers \ {b0} : Stays(b)
    BY <1>1, <1>7, SameByFrame, StaysBy
  <1>9. ~At(b0, "sendbuf", c)' /\ At(b0, "pool", NULL)'
    BY <1>2, <1>5, <1>6, Constants DEF At
  <1>10. Now(b0, "pool", NULL)
    <2>1. \A q \in PlaceKinds, j \in PlaceIds :
            At(b0, q, j)' => At(b0, q, j) \/ (q = "pool" /\ j = NULL)
      <3> SUFFICES ASSUME NEW q \in PlaceKinds, NEW j \in PlaceIds, At(b0, q, j)',
                          ~(q = "pool" /\ j = NULL)
                   PROVE  At(b0, q, j)
        OBVIOUS
      <3>1. ASSUME NEW d \in Conns \ {c} PROVE conn'[d] = conn[d]
        BY <1>2 DEF OnlyConn
      <3>2. CASE q = "queue"
        BY <1>2, <3>1, <3>2 DEF At
      <3>3. CASE q = "sendbuf"
        BY <1>2, <3>1, <3>3, Constants DEF At
      <3>4. CASE q = "recvbuf"
        BY <1>1, <1>2, <3>1, <3>4 DEF At
      <3>5. CASE q \notin {"queue", "sendbuf", "recvbuf"}
        BY <1>1, <3>5 DEF At
      <3> QED
        BY <3>2, <3>3, <3>4, <3>5
    <2> QED
      BY <1>3, <1>9, <2>1, NowBy
  <1>11. QueuesInj'
    <2>1. /\ \A x \in Computes : Inj(compute_inbox[x])'
          /\ \A s \in Submitters : Inj(submitter_inbox[s])'
      BY <1>1 DEF Ownership, QueuesInj, Inj
    <2>2. \A d \in Conns : conn'[d].send_queue = conn[d].send_queue
      BY <1>2 DEF OnlyConn
    <2>3. \A d \in Conns : Inj(conn[d].send_queue)'
      BY <2>2 DEF Ownership, QueuesInj, Inj
    <2> QED
      BY <1>5, <2>1, <2>3 DEF QueuesInj
  <1>12. OwnersStay
    <2>1. \A d \in Conns : conn'[d].submitidx = conn[d].submitidx
      BY <1>2 DEF OnlyConn, SameOwner
    <2> QED
      BY <1>1, <2>1, OwnersByFrame
  <1> QED
    BY <1>3, <1>8, <1>10, <1>11, <1>12, HeldMove DEF HeldKinds

LEMMA ReqTakeOwns ==
    ASSUME Structure, Ownership, Counting, NEW w \in IOs, ReqTake(w)
    PROVE  Ownership' /\ \A d \in Conns : InFlight(d)' = InFlight(d)
  <1> PICK c \in Conns : c = io[w].conn
    BY ReqTakeDoes
  <1>1. UNCHANGED <<empty_connections, compute_inbox, submitter_inbox, sub, cmp, acc>>
    BY ReqTakeDoes
  <1>2. CASE UNCHANGED <<conn, buf, empty_buffers>>
    BY <1>1, <1>2, IdleOwns DEF queues
  <1>3. CASE ~UNCHANGED <<conn, buf, empty_buffers>>
    <2> PICK b0 \in Buffers : b0 = Head(empty_buffers)
      BY <1>3, ReqTakeDoes
    <2>0. conn[c].recvbuf = NULL /\ ~Full(c) /\ empty_buffers # <<>> /\ io[w].pc = "req"
      BY <1>3, ReqTakeDoes
    <2>1. /\ OnlyConn(c) /\ SameOwner(c) /\ conn'[c].recvbuf = b0
          /\ conn'[c].send_queue = conn[c].send_queue /\ conn'[c].sendbuf = conn[c].sendbuf
          /\ OnlyBuf(b0) /\ buf'[b0].conn = c /\ empty_buffers' = Tail(empty_buffers)
      BY <1>3, ReqTakeDoes
    <2>2. /\ Inj(empty_buffers') /\ b0 \notin Elems(empty_buffers')
          /\ Elems(empty_buffers) = Elems(empty_buffers') \cup {b0}
      BY <2>0, <2>1, TailElems DEF Structure, Types, Ownership, QueuesInj
    <2>3. ~conn[c].closed
      BY <2>0, ReqClosed
    <2>4. ~conn'[c].closed
      BY <2>1, <2>3 DEF SameOwner
    <2>5. \A b \in Buffers \ {b0} : SessionSame(b) /\ PoolSame(b)
      BY <2>0, <2>1, <2>2, <2>4, Constants DEF SessionSame, PoolSame, OnlyConn, SameOwner
    <2>6. \A b \in Buffers \ {b0} : Stays(b)
      BY <1>1, <2>1, <2>5, SameByFrame, StaysBy DEF OnlyBuf
    <2>7. At(b0, "pool", NULL) /\ ~At(b0, "pool", NULL)' /\ At(b0, "recvbuf", c)'
      BY <2>1, <2>2, <2>4 DEF At
    <2>8. Now(b0, "recvbuf", c)
      <3>1. \A q \in PlaceKinds, j \in PlaceIds :
              At(b0, q, j)' => At(b0, q, j) \/ (q = "recvbuf" /\ j = c)
        <4> SUFFICES ASSUME NEW q \in PlaceKinds, NEW j \in PlaceIds, At(b0, q, j)',
                            ~(q = "recvbuf" /\ j = c)
                     PROVE  At(b0, q, j)
          OBVIOUS
        <4>1. ASSUME NEW d \in Conns \ {c} PROVE conn'[d] = conn[d]
          BY <2>1 DEF OnlyConn
        <4>2. CASE q = "queue"
          BY <2>1, <4>1, <4>2 DEF At
        <4>3. CASE q = "sendbuf"
          BY <2>1, <2>3, <4>1, <4>3 DEF At
        <4>4. CASE q = "recvbuf"
          BY <4>1, <4>4 DEF At
        <4>5. CASE q = "pool"
          BY <2>2, <4>5 DEF At
        <4>6. CASE q \notin {"pool", "queue", "sendbuf", "recvbuf"}
          BY <1>1, <4>6 DEF At
        <4> QED
          BY <4>2, <4>3, <4>4, <4>5, <4>6
      <3>2. Located(b0) /\ "pool" \in PlaceKinds /\ "recvbuf" \in PlaceKinds /\ c \in PlaceIds
            /\ NULL \in PlaceIds
        BY DEF PlaceKinds, PlaceIds, Ownership
      <3> QED
        BY <2>7, <3>1, <3>2, NowBy
    <2>9. QueuesInj'
      <3>1. /\ \A x \in Computes : Inj(compute_inbox[x])'
            /\ \A s \in Submitters : Inj(submitter_inbox[s])'
        BY <1>1 DEF Ownership, QueuesInj, Inj
      <3>2. \A d \in Conns : conn'[d].send_queue = conn[d].send_queue
        BY <2>1 DEF OnlyConn
      <3>3. \A d \in Conns : Inj(conn[d].send_queue)'
        BY <3>2 DEF Ownership, QueuesInj, Inj
      <3> QED
        BY <2>2, <3>1, <3>3 DEF QueuesInj
    <2>10. OwnersStay
      <3>1. \A d \in Conns : conn'[d].submitidx = conn[d].submitidx
        BY <2>1 DEF OnlyConn, SameOwner
      <3> QED
        BY <1>1, <3>1, OwnersByFrame
    <2> QED
      BY <2>1, <2>6, <2>7, <2>8, <2>9, <2>10, HeldMove DEF HeldKinds, PlaceIds
  <1> QED
    BY <1>2, <1>3

\* A buffer in flight moves on and stays in flight.
LEMMA FlyingMove ==
    ASSUME Ownership, QueuesInj', OwnersStay, NEW b0 \in Buffers,
           \A b \in Buffers \ {b0} : Stays(b), buf'[b0].conn = buf[b0].conn,
           NEW p0 \in FlyingKinds, NEW i0 \in PlaceIds, At(b0, p0, i0),
           NEW p \in FlyingKinds, NEW i \in PlaceIds, Now(b0, p, i),
           p \in {"submit", "submitting"} => conn[buf[b0].conn].submitidx = i,
           p = "submitting" => sub'[i].conn = buf[b0].conn
    PROVE  Ownership' /\ \A d \in Conns : InFlight(d)' = InFlight(d)
  <1>1. BufferInv(b0)
    BY DEF Ownership
  <1>2. PICK c \in Conns : /\ c = buf[b0].conn /\ ~Released(c)
                           /\ \A d \in Conns : b0 \in InFlight(d) <=> d = c
    BY <1>1, FlyingBefore
  <1>3. ~Released(c)' /\ conn'[c].submitidx = conn[c].submitidx
    BY <1>2 DEF OwnersStay
  <1>4. p \in {"submit", "submitting"} => conn'[c].submitidx = i
    BY <1>2, <1>3
  <1>5. p = "submitting" => sub'[i].conn = c
    BY <1>2
  <1>6. BufferInv(b0)' /\ \A d \in Conns : b0 \in InFlight(d)' <=> d = c
    BY <1>2, <1>3, <1>4, <1>5, FlyingNow
  <1>7. p \in PlaceKinds
    BY DEF FlyingKinds, PlaceKinds
  <1>8. /\ Ownership'
        /\ \A d \in Conns : InFlight(d)' \subseteq Buffers /\ InFlight(d) \subseteq Buffers
        /\ \A d \in Conns, b \in Buffers \ {b0} : b \in InFlight(d)' <=> b \in InFlight(d)
    BY <1>6, <1>7, OneMoves
  <1>9. \A d \in Conns, b \in Buffers : b \in InFlight(d)' <=> b \in InFlight(d)
    BY <1>2, <1>6, <1>8
  <1>10. \A d \in Conns : InFlight(d)' = InFlight(d)
    BY <1>8, <1>9
  <1> QED
    BY <1>8, <1>10

LEMMA ComputeGetOwns ==
    ASSUME Structure, Ownership, NEW x \in Computes, ComputeGet(x)
    PROVE  Ownership' /\ \A d \in Conns : InFlight(d)' = InFlight(d)
  <1> PICK b0 \in Buffers : b0 = Head(compute_inbox[x])
    BY ComputeGetDoes
  <1>1. UNCHANGED <<conn, buf, empty_connections, empty_buffers, submitter_inbox, sub, acc>>
    BY ComputeGetDoes
  <1>2. /\ cmp[x] = NULL /\ compute_inbox[x] # <<>> /\ cmp'[x] = b0
        /\ compute_inbox'[x] = Tail(compute_inbox[x])
        /\ \A y \in Computes \ {x} : cmp'[y] = cmp[y] /\ compute_inbox'[y] = compute_inbox[y]
    BY ComputeGetDoes
  <1>3. /\ Inj(Tail(compute_inbox[x])) /\ b0 \notin Elems(Tail(compute_inbox[x]))
        /\ Elems(compute_inbox[x]) = Elems(Tail(compute_inbox[x])) \cup {b0}
    <2>1. compute_inbox[x] \in Seq(Buffers) /\ Inj(compute_inbox[x])
      BY DEF Structure, Types, Ownership, QueuesInj
    <2> QED
      BY <1>2, <2>1, TailElems
  <1>4. \A b \in Buffers \ {b0} : ComputeSame(b)
    BY <1>2, <1>3, Constants DEF ComputeSame
  <1>5. \A b \in Buffers \ {b0} : Stays(b)
    BY <1>1, <1>4, SameByFrame, StaysBy
  <1>6. /\ Located(b0) /\ x \in PlaceIds /\ "compute" \in PlaceKinds /\ "computing" \in PlaceKinds
        /\ At(b0, "compute", x) /\ ~At(b0, "compute", x)' /\ At(b0, "computing", x)'
    BY <1>2, <1>3 DEF At, PlaceIds, PlaceKinds, Ownership
  <1>7. Now(b0, "computing", x)
    <2>1. \A q \in PlaceKinds, j \in PlaceIds :
            At(b0, q, j)' => At(b0, q, j) \/ (q = "computing" /\ j = x)
      <3> SUFFICES ASSUME NEW q \in PlaceKinds, NEW j \in PlaceIds, At(b0, q, j)',
                          ~(q = "computing" /\ j = x)
                   PROVE  At(b0, q, j)
        OBVIOUS
      <3>1. CASE q = "compute"
        BY <1>2, <1>3, <3>1 DEF At
      <3>2. CASE q = "computing"
        BY <1>2, <3>2 DEF At
      <3>3. CASE q \notin {"compute", "computing"}
        BY <1>1, <3>3 DEF At
      <3> QED
        BY <3>1, <3>2, <3>3
    <2> QED
      BY <1>6, <2>1, NowBy
  <1>8. QueuesInj'
    <2>1. /\ Inj(empty_buffers)' /\ \A s \in Submitters : Inj(submitter_inbox[s])'
          /\ \A d \in Conns : Inj(conn[d].send_queue)'
      BY <1>1 DEF Ownership, QueuesInj, Inj
    <2>2. \A y \in Computes : compute_inbox'[y] = compute_inbox[y] \/ Inj(compute_inbox'[y])
      BY <1>2, <1>3
    <2>3. \A y \in Computes : Inj(compute_inbox[y])'
      BY <2>2 DEF Ownership, QueuesInj, Inj
    <2> QED
      BY <2>1, <2>3 DEF QueuesInj
  <1>9. OwnersStay
    BY <1>1, OwnersByFrame
  <1>10. buf'[b0].conn = buf[b0].conn
    BY <1>1
  <1> QED
    BY <1>5, <1>6, <1>7, <1>8, <1>9, <1>10, FlyingMove DEF FlyingKinds

LEMMA ComputePutOwns ==
    ASSUME Structure, Ownership, NEW x \in Computes, ComputePut(x)
    PROVE  Ownership' /\ \A d \in Conns : InFlight(d)' = InFlight(d)
  <1>0. cmp[x] \in Buffers /\ BufferInv(cmp[x])
    BY DEF ComputePut, Structure, Types, Ownership
  <1>00. \A q \in Seq(Buffers) : \A b \in Buffers \ Elems(q) :
          Elems(Append(q, b)) = Elems(q) \cup {b} /\ (Inj(q) => Inj(Append(q, b)))
    BY AppendElems
  <1> PICK b0 \in Buffers : b0 = cmp[x]
    BY <1>0
  <1> PICK s0 \in Submitters : s0 = conn[buf[b0].conn].submitidx
    BY <1>0, ComputePutDoes
  <1>1. UNCHANGED <<conn, buf, empty_connections, empty_buffers, compute_inbox, sub, acc>>
    BY <1>0, ComputePutDoes
  <1>2. /\ cmp'[x] = NULL /\ submitter_inbox'[s0] = Append(submitter_inbox[s0], b0)
        /\ \A y \in Computes \ {x} : cmp'[y] = cmp[y]
        /\ \A t \in Submitters \ {s0} : submitter_inbox'[t] = submitter_inbox[t]
    BY <1>0, ComputePutDoes, Zenon
  <1>3. /\ Located(b0) /\ x \in PlaceIds /\ s0 \in PlaceIds /\ "computing" \in PlaceKinds
        /\ "submit" \in PlaceKinds /\ At(b0, "computing", x) /\ ~At(b0, "computing", x)'
    BY <1>2, Constants, Zenon DEF At, PlaceIds, PlaceKinds, Ownership
  <1>4. b0 \notin Elems(submitter_inbox[s0])
    <2>1. ~At(b0, "submit", s0)
      BY <1>3, OnePlace
    <2> QED
      BY <2>1 DEF At
  <1>5. /\ Elems(submitter_inbox'[s0]) = Elems(submitter_inbox[s0]) \cup {b0}
        /\ Inj(submitter_inbox'[s0])
    <2>1. submitter_inbox[s0] \in Seq(Buffers) /\ Inj(submitter_inbox[s0])
      BY DEF Structure, Types, Ownership, QueuesInj
    <2>2. /\ Elems(Append(submitter_inbox[s0], b0)) = Elems(submitter_inbox[s0]) \cup {b0}
          /\ Inj(Append(submitter_inbox[s0], b0))
      BY <1>00, <1>4, <2>1, Zenon
    <2>3. submitter_inbox'[s0] = Append(submitter_inbox[s0], b0)
      BY <1>2, Zenon
    <2> QED
      BY <2>2, <2>3, Zenon
  <1>6. \A b \in Buffers \ {b0} : ComputeSame(b) /\ SubmitSame(b)
    BY <1>1, <1>2, <1>5, Constants, Zenon DEF ComputeSame, SubmitSame, Submitting
  <1>7. \A b \in Buffers \ {b0} : Stays(b)
    BY <1>1, <1>6, SameByFrame, StaysBy
  <1>8. At(b0, "submit", s0)'
    BY <1>5 DEF At
  <1>9. Now(b0, "submit", s0)
    <2>1. \A q \in PlaceKinds, j \in PlaceIds :
            At(b0, q, j)' => At(b0, q, j) \/ (q = "submit" /\ j = s0)
      <3> SUFFICES ASSUME NEW q \in PlaceKinds, NEW j \in PlaceIds, At(b0, q, j)',
                          ~(q = "submit" /\ j = s0)
                   PROVE  At(b0, q, j)
        OBVIOUS
      <3>1. CASE q = "submit"
        BY <1>2, <3>1, Zenon DEF At
      <3>2. CASE q = "computing"
        BY <1>2, <3>2, Constants, Zenon DEF At
      <3>3. CASE q \notin {"submit", "computing"}
        BY <1>1, <3>3 DEF At
      <3> QED
        BY <3>1, <3>2, <3>3
    <2> QED
      BY <1>3, <1>8, <2>1, NowBy
  <1>10. QueuesInj'
    <2>1. /\ Inj(empty_buffers)' /\ \A y \in Computes : Inj(compute_inbox[y])'
          /\ \A d \in Conns : Inj(conn[d].send_queue)'
      BY <1>1 DEF Ownership, QueuesInj, Inj
    <2>2. \A t \in Submitters : submitter_inbox'[t] = submitter_inbox[t] \/ Inj(submitter_inbox'[t])
      BY <1>2, <1>5, Zenon
    <2>3. \A t \in Submitters : Inj(submitter_inbox[t])'
      BY <2>2 DEF Ownership, QueuesInj, Inj
    <2> QED
      BY <2>1, <2>3 DEF QueuesInj
  <1>11. OwnersStay
    BY <1>1, OwnersByFrame
  <1>12. buf'[b0].conn = buf[b0].conn
    BY <1>1
  <1> QED
    BY <1>3, <1>7, <1>9, <1>10, <1>11, <1>12, FlyingMove DEF FlyingKinds

LEMMA SubmitGetOwns ==
    ASSUME Structure, Ownership, NEW s \in Submitters, SubmitGet(s)
    PROVE  Ownership' /\ \A d \in Conns : InFlight(d)' = InFlight(d)
  <1> PICK b0 \in Buffers : b0 = Head(submitter_inbox[s])
    BY SubmitGetDoes
  <1>1. UNCHANGED <<conn, buf, empty_connections, empty_buffers, compute_inbox, cmp, acc>>
    BY SubmitGetDoes
  <1>2. /\ sub[s].pc = "get" /\ sub'[s].pc = "try" /\ sub'[s].buff = b0
        /\ sub'[s].conn = buf[b0].conn /\ OnlySub(s)
        /\ submitter_inbox[s] # <<>> /\ submitter_inbox'[s] = Tail(submitter_inbox[s])
        /\ \A t \in Submitters \ {s} : submitter_inbox'[t] = submitter_inbox[t]
    BY SubmitGetDoes
  <1>3. /\ Inj(Tail(submitter_inbox[s])) /\ b0 \notin Elems(Tail(submitter_inbox[s]))
        /\ Elems(submitter_inbox[s]) = Elems(Tail(submitter_inbox[s])) \cup {b0}
    <2>1. submitter_inbox[s] \in Seq(Buffers) /\ Inj(submitter_inbox[s])
      BY DEF Structure, Types, Ownership, QueuesInj
    <2> QED
      BY <1>2, <2>1, TailElems
  <1>4. \A b \in Buffers \ {b0} : SubmitSame(b)
    BY <1>2, <1>3 DEF SubmitSame, Submitting, OnlySub
  <1>5. \A b \in Buffers \ {b0} : Stays(b)
    BY <1>1, <1>4, SameByFrame, StaysBy
  <1>6. /\ Located(b0) /\ s \in PlaceIds /\ "submit" \in PlaceKinds /\ "submitting" \in PlaceKinds
        /\ At(b0, "submit", s) /\ ~At(b0, "submit", s)' /\ At(b0, "submitting", s)'
    BY <1>2, <1>3 DEF At, PlaceIds, PlaceKinds, Ownership
  <1>7. Now(b0, "submitting", s)
    <2>1. \A q \in PlaceKinds, j \in PlaceIds :
            At(b0, q, j)' => At(b0, q, j) \/ (q = "submitting" /\ j = s)
      <3> SUFFICES ASSUME NEW q \in PlaceKinds, NEW j \in PlaceIds, At(b0, q, j)',
                          ~(q = "submitting" /\ j = s)
                   PROVE  At(b0, q, j)
        OBVIOUS
      <3>1. CASE q = "submit"
        BY <1>2, <1>3, <3>1 DEF At
      <3>2. CASE q = "submitting"
        BY <1>2, <3>2 DEF At, OnlySub
      <3>3. CASE q \notin {"submit", "submitting"}
        BY <1>1, <3>3 DEF At
      <3> QED
        BY <3>1, <3>2, <3>3
    <2> QED
      BY <1>6, <2>1, NowBy
  <1>8. QueuesInj'
    <2>1. /\ Inj(empty_buffers)' /\ \A y \in Computes : Inj(compute_inbox[y])'
          /\ \A d \in Conns : Inj(conn[d].send_queue)'
      BY <1>1 DEF Ownership, QueuesInj, Inj
    <2>2. \A t \in Submitters : submitter_inbox'[t] = submitter_inbox[t] \/ Inj(submitter_inbox'[t])
      BY <1>2, <1>3
    <2>3. \A t \in Submitters : Inj(submitter_inbox[t])'
      BY <2>2 DEF Ownership, QueuesInj, Inj
    <2> QED
      BY <2>1, <2>3 DEF QueuesInj
  <1>9. OwnersStay
    BY <1>1, OwnersByFrame
  <1>10. buf'[b0].conn = buf[b0].conn
    BY <1>1
  <1>11. conn[buf[b0].conn].submitidx = s
    BY <1>6, FlyingBefore DEF FlyingKinds, Ownership
  <1> QED
    BY <1>2, <1>5, <1>6, <1>7, <1>8, <1>9, <1>10, <1>11, FlyingMove DEF FlyingKinds

\* The submitter takes the session, or puts the buffer back.
LEMMA SubmitTryOwns ==
    ASSUME Structure, Ownership, NEW s \in Submitters, SubmitTry(s)
    PROVE  Ownership' /\ \A d \in Conns : InFlight(d)' = InFlight(d)
  <1>00. \A q \in Seq(Buffers) : \A b \in Buffers \ Elems(q) :
          Elems(Append(q, b)) = Elems(q) \cup {b} /\ (Inj(q) => Inj(Append(q, b)))
    BY AppendElems
  <1> PICK c \in Conns : c = sub[s].conn
    BY SubmitTryDoes
  <1> PICK b0 \in Buffers : b0 = sub[s].buff
    BY SubmitTryDoes
  <1>1. /\ UNCHANGED <<buf, empty_connections, empty_buffers, compute_inbox, cmp, acc>>
        /\ OnlySub(s) /\ sub[s].pc = "try"
    BY SubmitTryDoes
  <1>2. CASE sub'[s].pc = "put"
    <2>1. /\ OnlyConn(c) /\ SameOwner(c) /\ SameBuffers(c) /\ UNCHANGED submitter_inbox
          /\ sub'[s].buff = b0 /\ sub'[s].conn = c
      BY <1>2, SubmitTryDoes
    <2>2. \A b \in Buffers : SubmitSame(b)
      BY <1>1, <1>2, <2>1 DEF SubmitSame, Submitting, OnlySub
    <2>3. OwnersStay
      <3>1. \A d \in Conns : conn'[d].submitidx = conn[d].submitidx
        BY <2>1 DEF OnlyConn, SameOwner
      <3> QED
        BY <1>1, <3>1, OwnersByFrame
    <2> QED
      BY <1>1, <2>1, <2>2, <2>3, NothingMoves
  <1>3. CASE sub'[s].pc = "get"
    <2>1. /\ UNCHANGED conn /\ submitter_inbox'[s] = Append(submitter_inbox[s], b0)
          /\ \A t \in Submitters \ {s} : submitter_inbox'[t] = submitter_inbox[t]
      BY <1>3, SubmitTryDoes
    <2>2. /\ Located(b0) /\ s \in PlaceIds /\ "submit" \in PlaceKinds
          /\ "submitting" \in PlaceKinds
          /\ At(b0, "submitting", s) /\ ~At(b0, "submitting", s)'
      BY <1>1, <1>3 DEF At, PlaceIds, PlaceKinds, Ownership
    <2>3. b0 \notin Elems(submitter_inbox[s])
      <3>1. ~At(b0, "submit", s)
        BY <2>2, OnePlace
      <3> QED
        BY <3>1 DEF At
    <2>4. /\ Elems(submitter_inbox'[s]) = Elems(submitter_inbox[s]) \cup {b0}
          /\ Inj(submitter_inbox'[s])
      <3>1. submitter_inbox[s] \in Seq(Buffers) /\ Inj(submitter_inbox[s])
        BY DEF Structure, Types, Ownership, QueuesInj
      <3>2. /\ Elems(Append(submitter_inbox[s], b0)) = Elems(submitter_inbox[s]) \cup {b0}
            /\ Inj(Append(submitter_inbox[s], b0))
        BY <1>00, <2>3, <3>1
      <3>3. submitter_inbox'[s] = Append(submitter_inbox[s], b0)
        BY <2>1
      <3> QED
        BY <3>2, <3>3
    <2>5. \A b \in Buffers \ {b0} : SubmitSame(b)
      BY <1>1, <1>3, <2>1, <2>4 DEF SubmitSame, Submitting, OnlySub
    <2>6. \A b \in Buffers \ {b0} : Stays(b)
      BY <1>1, <2>1, <2>5, SameByFrame, StaysBy
    <2>7. At(b0, "submit", s)'
      BY <2>4 DEF At
    <2>8. Now(b0, "submit", s)
      <3>1. \A q \in PlaceKinds, j \in PlaceIds :
              At(b0, q, j)' => At(b0, q, j) \/ (q = "submit" /\ j = s)
        <4> SUFFICES ASSUME NEW q \in PlaceKinds, NEW j \in PlaceIds, At(b0, q, j)',
                            ~(q = "submit" /\ j = s)
                     PROVE  At(b0, q, j)
          OBVIOUS
        <4>1. CASE q = "submit"
          BY <2>1, <4>1 DEF At
        <4>2. CASE q = "submitting"
          BY <1>1, <1>3, <4>2 DEF At, OnlySub
        <4>3. CASE q \notin {"submit", "submitting"}
          BY <1>1, <2>1, <4>3 DEF At
        <4> QED
          BY <4>1, <4>2, <4>3
      <3> QED
        BY <2>2, <2>7, <3>1, NowBy
    <2>9. QueuesInj'
      <3>1. /\ Inj(empty_buffers)' /\ \A y \in Computes : Inj(compute_inbox[y])'
            /\ \A d \in Conns : Inj(conn[d].send_queue)'
        BY <1>1, <2>1 DEF Ownership, QueuesInj, Inj
      <3>2. \A t \in Submitters :
              submitter_inbox'[t] = submitter_inbox[t] \/ Inj(submitter_inbox'[t])
        BY <2>1, <2>4
      <3>3. \A t \in Submitters : Inj(submitter_inbox[t])'
        BY <3>2 DEF Ownership, QueuesInj, Inj
      <3> QED
        BY <3>1, <3>3 DEF QueuesInj
    <2>10. OwnersStay
      BY <1>1, <2>1, OwnersByFrame
    <2>11. buf'[b0].conn = buf[b0].conn
      BY <1>1
    <2>12. conn[buf[b0].conn].submitidx = s
      BY <2>2, FlyingBefore DEF FlyingKinds, Ownership
    <2> QED
      BY <2>2, <2>6, <2>8, <2>9, <2>10, <2>11, <2>12, FlyingMove DEF FlyingKinds
  <1> QED
    BY <1>2, <1>3, SubmitTryDoes

\* A complete request is in flight from now on.
LEMMA ReqPutOwns ==
    ASSUME Structure, Ownership, NEW w \in IOs, ReqPut(w), NEW c \in Conns, c = io[w].conn
    PROVE  /\ Ownership'
           /\ \E b \in Buffers \ InFlight(c) : InFlight(c)' = InFlight(c) \cup {b}
           /\ \A d \in Conns \ {c} : InFlight(d)' = InFlight(d)
  <1>00. \A q \in Seq(Buffers) : \A b \in Buffers \ Elems(q) :
          Elems(Append(q, b)) = Elems(q) \cup {b} /\ (Inj(q) => Inj(Append(q, b)))
    BY AppendElems
  <1> PICK b0 \in Buffers : b0 = conn[c].recvbuf
    BY ReqPutDoes
  <1> PICK x \in Computes : x = conn[c].computeidx
    BY ReqPutDoes
  <1>1. /\ UNCHANGED <<buf, empty_connections, empty_buffers, submitter_inbox, sub, cmp, acc>>
        /\ ~conn[c].closed
    BY ReqPutDoes DEF Structure, IOInv, Busy
  <1>2. /\ OnlyConn(c) /\ SameOwner(c) /\ conn'[c].recvbuf = NULL
        /\ conn'[c].sendbuf = conn[c].sendbuf /\ conn'[c].send_queue = conn[c].send_queue
        /\ \A y \in Computes \ {x} : compute_inbox'[y] = compute_inbox[y]
    BY ReqPutDoes
  <1>3. compute_inbox'[x] = Append(compute_inbox[x], b0)
    BY ReqPutDoes
  <1>4. /\ Located(b0) /\ c \in PlaceIds /\ x \in PlaceIds /\ "recvbuf" \in PlaceKinds
        /\ "compute" \in PlaceKinds /\ At(b0, "recvbuf", c) /\ ~At(b0, "recvbuf", c)'
    BY <1>1, <1>2, Constants DEF At, PlaceIds, PlaceKinds, Ownership
  <1>5. b0 \notin Elems(compute_inbox[x])
    <2>1. ~At(b0, "compute", x)
      BY <1>4, OnePlace
    <2> QED
      BY <2>1 DEF At
  <1>6. /\ Elems(compute_inbox'[x]) = Elems(compute_inbox[x]) \cup {b0}
        /\ Inj(compute_inbox'[x])
    <2>1. compute_inbox[x] \in Seq(Buffers) /\ Inj(compute_inbox[x])
      BY DEF Structure, Types, Ownership, QueuesInj
    <2>2. /\ Elems(Append(compute_inbox[x], b0)) = Elems(compute_inbox[x]) \cup {b0}
          /\ Inj(Append(compute_inbox[x], b0))
      BY <1>00, <1>5, <2>1
    <2> QED
      BY <1>3, <2>2, Zenon
  <1>7. ~conn'[c].closed
    BY <1>1, <1>2 DEF SameOwner
  <1>8. \A b \in Buffers \ {b0} : SessionSame(b) /\ ComputeSame(b)
    <2>1. \A b \in Buffers \ {b0} : SessionSame(b)
      BY <1>1, <1>2, <1>7, Constants DEF SessionSame, OnlyConn
    <2>2. \A b \in Buffers \ {b0} : ComputeSame(b)
      BY <1>1, <1>2, <1>6 DEF ComputeSame
    <2> QED
      BY <2>1, <2>2
  <1>9. \A b \in Buffers \ {b0} : Stays(b)
    BY <1>1, <1>8, SameByFrame, StaysBy
  <1>10. At(b0, "compute", x)'
    BY <1>6 DEF At
  <1>11. Now(b0, "compute", x)
    <2>1. \A q \in PlaceKinds, j \in PlaceIds :
            At(b0, q, j)' => At(b0, q, j) \/ (q = "compute" /\ j = x)
      <3> SUFFICES ASSUME NEW q \in PlaceKinds, NEW j \in PlaceIds, At(b0, q, j)',
                          ~(q = "compute" /\ j = x)
                   PROVE  At(b0, q, j)
        OBVIOUS
      <3>1. ASSUME NEW d \in Conns \ {c} PROVE conn'[d] = conn[d]
        BY <1>2 DEF OnlyConn
      <3>2. CASE q = "queue"
        BY <1>2, <3>1, <3>2 DEF At
      <3>3. CASE q = "sendbuf"
        BY <1>1, <1>2, <3>1, <3>3 DEF At
      <3>4. CASE q = "recvbuf"
        BY <1>2, <3>1, <3>4, Constants DEF At
      <3>5. CASE q = "compute"
        BY <1>2, <3>5 DEF At
      <3>6. CASE q \notin {"compute", "queue", "sendbuf", "recvbuf"}
        BY <1>1, <3>6 DEF At
      <3> QED
        BY <3>2, <3>3, <3>4, <3>5, <3>6
    <2> QED
      BY <1>4, <1>10, <2>1, NowBy
  <1>12. QueuesInj'
    <2>1. /\ Inj(empty_buffers)' /\ \A s \in Submitters : Inj(submitter_inbox[s])'
      BY <1>1 DEF Ownership, QueuesInj, Inj
    <2>2. \A d \in Conns : conn'[d].send_queue = conn[d].send_queue
      BY <1>2 DEF OnlyConn
    <2>3. \A d \in Conns : Inj(conn[d].send_queue)'
      BY <2>2 DEF Ownership, QueuesInj, Inj
    <2>4. \A y \in Computes : compute_inbox'[y] = compute_inbox[y] \/ Inj(compute_inbox'[y])
      BY <1>2, <1>6
    <2>5. \A y \in Computes : Inj(compute_inbox[y])'
      BY <2>4 DEF Ownership, QueuesInj, Inj
    <2> QED
      BY <2>1, <2>3, <2>5 DEF QueuesInj
  <1>13. OwnersStay
    <2>1. \A d \in Conns : conn'[d].submitidx = conn[d].submitidx
      BY <1>2 DEF OnlyConn, SameOwner
    <2> QED
      BY <1>1, <2>1, OwnersByFrame
  <1>14. buf'[b0].conn = c /\ ~Released(c)'
    <2>1. BufferInv(b0) /\ ~Released(c)
      BY ReqPutDoes, BusyConn DEF Ownership, Busy
    <2>2. buf[b0].conn = c
      BY <1>1, <2>1 DEF BufferInv
    <2> QED
      BY <1>1, <2>1, <2>2 DEF Released, Pooled, Taken
  <1>15. BufferInv(b0)' /\ \A d \in Conns : b0 \in InFlight(d)' <=> d = c
    BY <1>4, <1>11, <1>14, FlyingNow DEF FlyingKinds
  <1>16. \A d \in Conns : b0 \notin InFlight(d)
    BY <1>4, HeldBefore DEF HeldKinds
  <1>17. /\ Ownership'
         /\ \A d \in Conns : InFlight(d)' \subseteq Buffers /\ InFlight(d) \subseteq Buffers
         /\ \A d \in Conns, b \in Buffers \ {b0} : b \in InFlight(d)' <=> b \in InFlight(d)
    BY <1>4, <1>9, <1>11, <1>12, <1>13, <1>15, OneMoves
  <1>18. \A d \in Conns \ {c}, b \in Buffers : b \in InFlight(d)' <=> b \in InFlight(d)
    BY <1>15, <1>16, <1>17
  <1>19. \A b \in Buffers : b \in InFlight(c)' <=> b \in InFlight(c) \cup {b0}
    BY <1>15, <1>17
  <1>20. \A d \in Conns \ {c} : InFlight(d)' = InFlight(d)
    BY <1>17, <1>18
  <1>21. InFlight(c)' = InFlight(c) \cup {b0}
    BY <1>17, <1>19
  <1> QED
    BY <1>16, <1>17, <1>20, <1>21

\* The response is the session's, or the pool's if the session is closed.
LEMMA SubmitPutOwns ==
    ASSUME Structure, Ownership, NEW s \in Submitters, SubmitPut(s),
           NEW c \in Conns, c = sub[s].conn
    PROVE  /\ Ownership' /\ \E b \in InFlight(c) : InFlight(c)' = InFlight(c) \ {b}
           /\ \A d \in Conns \ {c} : InFlight(d)' = InFlight(d)
  <1>00. \A q \in Seq(Buffers) : \A b \in Buffers \ Elems(q) :
          Elems(Append(q, b)) = Elems(q) \cup {b} /\ (Inj(q) => Inj(Append(q, b)))
    BY AppendElems
  <1> PICK b0 \in Buffers : b0 = sub[s].buff
    BY SubmitPutDoes
  <1>1. /\ UNCHANGED <<buf, empty_connections, compute_inbox, submitter_inbox, cmp, acc>>
        /\ OnlySub(s) /\ sub[s].pc = "put" /\ sub'[s].pc \in {"dispose", "arm"}
        /\ OnlyConn(c) /\ SameOwner(c) /\ conn'[c].sendbuf = conn[c].sendbuf
        /\ conn'[c].recvbuf = conn[c].recvbuf
    BY SubmitPutDoes
  <1>2. /\ Located(b0) /\ s \in PlaceIds /\ c \in PlaceIds /\ NULL \in PlaceIds
        /\ "submitting" \in PlaceKinds /\ "queue" \in PlaceKinds /\ "pool" \in PlaceKinds
        /\ At(b0, "submitting", s) /\ ~At(b0, "submitting", s)'
    BY <1>1 DEF At, PlaceIds, PlaceKinds, Ownership
  <1>3. b0 \notin Elems(conn[c].send_queue) /\ b0 \notin Elems(empty_buffers)
    <2>1. ~At(b0, "queue", c) /\ ~At(b0, "pool", NULL)
      BY <1>2, OnePlace
    <2> QED
      BY <2>1 DEF At
  <1>4. \A b \in Buffers \ {b0} : SubmitSame(b)
    BY <1>1 DEF SubmitSame, Submitting, OnlySub
  <1>5. OwnersStay
    <2>1. \A d \in Conns : conn'[d].submitidx = conn[d].submitidx
      BY <1>1 DEF OnlyConn, SameOwner
    <2> QED
      BY <1>1, <2>1, OwnersByFrame
  <1>6. /\ \A y \in Computes : Inj(compute_inbox[y])'
        /\ \A t \in Submitters : Inj(submitter_inbox[t])'
    BY <1>1 DEF Ownership, QueuesInj, Inj
  <1>7. buf[b0].conn = c /\ \A d \in Conns : b0 \in InFlight(d) <=> d = c
    <2>1. BufferInv(b0)
      BY DEF Ownership
    <2>2. buf[b0].conn = c
      BY <1>1, <2>1 DEF BufferInv
    <2> QED
      BY <1>2, <2>1, <2>2, FlyingBefore DEF FlyingKinds
  <1>8. \E p \in HeldKinds, i \in PlaceIds :
          /\ Now(b0, p, i) /\ p \notin {"sendbuf", "recvbuf"} /\ QueuesInj'
          /\ \A b \in Buffers \ {b0} : Stays(b)
    <2>1. CASE conn[c].closed
      <3>1. UNCHANGED conn[c].send_queue /\ empty_buffers' = Append(empty_buffers, b0)
        BY <2>1, SubmitPutDoes
      <3>2. Elems(empty_buffers') = Elems(empty_buffers) \cup {b0} /\ Inj(empty_buffers')
        BY <1>00, <1>3, <3>1 DEF Structure, Types, Ownership, QueuesInj
      <3>3. \A b \in Buffers : SessionSame(b)
        BY <1>1, <3>1, SameByFrame DEF SameBuffers, SameOwner
      <3>4. \A b \in Buffers \ {b0} : PoolSame(b)
        BY <3>2 DEF PoolSame
      <3>5. \A b \in Buffers \ {b0} : Stays(b)
        BY <1>1, <1>4, <3>3, <3>4, SameByFrame, StaysBy
      <3>6. Now(b0, "pool", NULL)
        <4>1. \A q \in PlaceKinds, j \in PlaceIds :
                At(b0, q, j)' => At(b0, q, j) \/ (q = "pool" /\ j = NULL)
          <5> SUFFICES ASSUME NEW q \in PlaceKinds, NEW j \in PlaceIds, At(b0, q, j)',
                              ~(q = "pool" /\ j = NULL)
                       PROVE  At(b0, q, j)
            OBVIOUS
          <5>1. CASE q \in {"queue", "sendbuf", "recvbuf"}
            BY <3>3, <5>1 DEF At, SessionSame
          <5>2. CASE q = "submitting"
            BY <1>1, <5>2 DEF At, OnlySub
          <5>3. CASE q = "pool"
            BY <5>3 DEF At
          <5>4. CASE q \notin {"pool", "submitting", "queue", "sendbuf", "recvbuf"}
            BY <1>1, <5>4 DEF At
          <5> QED
            BY <5>1, <5>2, <5>3, <5>4
        <4>2. At(b0, "pool", NULL)'
          BY <3>2 DEF At
        <4> QED
          BY <1>2, <4>1, <4>2, NowBy
      <3>7. QueuesInj'
        <4>1. \A d \in Conns : conn'[d].send_queue = conn[d].send_queue
          BY <1>1, <3>1 DEF OnlyConn
        <4>2. \A d \in Conns : Inj(conn[d].send_queue)'
          BY <4>1 DEF Ownership, QueuesInj, Inj
        <4> QED
          BY <1>6, <3>2, <4>2 DEF QueuesInj
      <3> QED
        BY <1>2, <3>5, <3>6, <3>7 DEF HeldKinds
    <2>2. CASE ~conn[c].closed
      <3>1. /\ conn'[c].send_queue = Append(conn[c].send_queue, b0) /\ UNCHANGED empty_buffers
        BY <2>2, SubmitPutDoes
      <3>2. /\ Elems(conn'[c].send_queue) = Elems(conn[c].send_queue) \cup {b0}
            /\ Inj(conn'[c].send_queue)
        <4>1. conn[c].send_queue \in Seq(Buffers) /\ Inj(conn[c].send_queue)
          BY DEF Structure, Types, ConnType, Ownership, QueuesInj
        <4>2. /\ Elems(Append(conn[c].send_queue, b0)) = Elems(conn[c].send_queue) \cup {b0}
              /\ Inj(Append(conn[c].send_queue, b0))
          BY <1>00, <1>3, <4>1
        <4> QED
          BY <3>1, <4>2
      <3>3. ~conn'[c].closed
        BY <1>1, <2>2 DEF SameOwner
      <3>4. \A b \in Buffers \ {b0} : SessionSame(b)
        BY <1>1, <2>2, <3>2, <3>3 DEF SessionSame, OnlyConn
      <3>5. \A b \in Buffers \ {b0} : Stays(b)
        BY <1>1, <1>4, <3>1, <3>4, SameByFrame, StaysBy
      <3>6. Now(b0, "queue", c)
        <4>1. \A q \in PlaceKinds, j \in PlaceIds :
                At(b0, q, j)' => At(b0, q, j) \/ (q = "queue" /\ j = c)
          <5> SUFFICES ASSUME NEW q \in PlaceKinds, NEW j \in PlaceIds, At(b0, q, j)',
                              ~(q = "queue" /\ j = c)
                       PROVE  At(b0, q, j)
            OBVIOUS
          <5>0. ASSUME NEW d \in Conns \ {c} PROVE conn'[d] = conn[d]
            BY <1>1 DEF OnlyConn
          <5>1. CASE q = "queue"
            BY <5>0, <5>1 DEF At
          <5>2. CASE q = "sendbuf"
            BY <1>1, <2>2, <5>0, <5>2 DEF At
          <5>3. CASE q = "recvbuf"
            BY <1>1, <2>2, <5>0, <5>3 DEF At
          <5>4. CASE q = "submitting"
            BY <1>1, <5>4 DEF At, OnlySub
          <5>5. CASE q \notin {"submitting", "queue", "sendbuf", "recvbuf"}
            BY <1>1, <3>1, <5>5 DEF At
          <5> QED
            BY <5>1, <5>2, <5>3, <5>4, <5>5
        <4>2. At(b0, "queue", c)'
          BY <3>2 DEF At
        <4> QED
          BY <1>2, <4>1, <4>2, NowBy
      <3>7. QueuesInj'
        <4>1. \A d \in Conns : conn'[d].send_queue = conn[d].send_queue \/ Inj(conn'[d].send_queue)
          BY <1>1, <3>2 DEF OnlyConn
        <4>2. \A d \in Conns : Inj(conn[d].send_queue)'
          BY <4>1 DEF Ownership, QueuesInj, Inj
        <4>3. Inj(empty_buffers)'
          BY <3>1 DEF Ownership, QueuesInj, Inj
        <4> QED
          BY <1>6, <4>2, <4>3 DEF QueuesInj
      <3> QED
        BY <1>2, <3>5, <3>6, <3>7 DEF HeldKinds
    <2> QED
      BY <2>1, <2>2
  <1> PICK p \in HeldKinds, i \in PlaceIds :
        /\ Now(b0, p, i) /\ p \notin {"sendbuf", "recvbuf"} /\ QueuesInj'
        /\ \A b \in Buffers \ {b0} : Stays(b)
    BY <1>8
  <1>9. BufferInv(b0)' /\ \A d \in Conns : b0 \notin InFlight(d)'
    BY HeldNow
  <1>10. p \in PlaceKinds
    BY DEF HeldKinds, PlaceKinds
  <1>11. /\ Ownership'
         /\ \A d \in Conns : InFlight(d)' \subseteq Buffers /\ InFlight(d) \subseteq Buffers
         /\ \A d \in Conns, b \in Buffers \ {b0} : b \in InFlight(d)' <=> b \in InFlight(d)
    BY <1>5, <1>9, <1>10, OneMoves
  <1>12. \A d \in Conns \ {c}, b \in Buffers : b \in InFlight(d)' <=> b \in InFlight(d)
    BY <1>7, <1>9, <1>11
  <1>13. \A b \in Buffers : b \in InFlight(c)' <=> b \in InFlight(c) \ {b0}
    BY <1>9, <1>11
  <1>14. \A d \in Conns \ {c} : InFlight(d)' = InFlight(d)
    BY <1>11, <1>12
  <1>15. InFlight(c)' = InFlight(c) \ {b0}
    BY <1>11, <1>13
  <1> QED
    BY <1>7, <1>11, <1>14, <1>15

\* The buffers finish_connection gives back.
LEMMA OneElems ==
    ASSUME NEW b \in Buffers \cup {NULL}
    PROVE  /\ One(b) \in Seq(Buffers) /\ Inj(One(b)) /\ Len(One(b)) = Count(b)
           /\ \A d \in Buffers : d \in Elems(One(b)) <=> d = b
  <1>1. CASE b = NULL
    <2>1. One(b) = <<>> /\ Count(b) = 0
      BY <1>1 DEF One, Count
    <2> QED
      BY <1>1, <2>1, Constants DEF Elems, Inj
  <1>2. CASE b # NULL
    <2>1. One(b) = <<b>> /\ b \in Buffers /\ Count(b) = 1
      BY <1>2 DEF One, Count
    <2>2. One(b) \in Seq(Buffers) /\ Len(One(b)) = 1 /\ DOMAIN One(b) = 1 .. 1 /\ One(b)[1] = b
      BY <2>1
    <2>3. Elems(One(b)) = {b} /\ Inj(One(b))
      BY <2>2 DEF Elems, Inj
    <2> QED
      BY <2>1, <2>2, <2>3
  <1> QED
    BY <1>1, <1>2

\* finish_connection gives back all that the session holds, and nothing in flight.
LEMMA FinishDrainOwns ==
    ASSUME Structure, Ownership, NEW w \in IOs, FinishDrain(w)
    PROVE  Ownership' /\ \A d \in Conns : InFlight(d)' = InFlight(d)
  <1> PICK c \in Conns : c = io[w].conn
    BY FinishDrainDoes
  <1> DEFINE s  == conn[c].sendbuf
             r  == conn[c].recvbuf
             q  == conn[c].send_queue
             p1 == empty_buffers \o One(s)
             p2 == p1 \o One(r)
             F  == {b \in Buffers : b = s \/ b = r \/ b \in Elems(q)}
  <1>1. /\ UNCHANGED <<buf, compute_inbox, submitter_inbox, sub, cmp, acc, empty_connections>>
        /\ ~conn[c].closed
    BY FinishDrainDoes DEF Structure, IOInv, Busy
  <1>2. /\ OnlyConn(c) /\ conn'[c].closed /\ conn'[c].send_queue = <<>>
        /\ conn'[c].submitidx = conn[c].submitidx /\ empty_buffers' = p2 \o q
    BY FinishDrainDoes
  <1>3. /\ s \in Buffers \cup {NULL} /\ r \in Buffers \cup {NULL} /\ q \in Seq(Buffers)
        /\ empty_buffers \in Seq(Buffers) /\ Inj(empty_buffers) /\ Inj(q)
    BY DEF Structure, Types, ConnType, Ownership, QueuesInj
  <1>4. \A b \in Buffers :
          /\ b \in Elems(empty_buffers) => ~(b = s \/ b = r \/ b \in Elems(q))
          /\ b = s => ~(b = r \/ b \in Elems(q))
          /\ b = r => ~(b \in Elems(q))
    <2> TAKE b \in Buffers
    <2>1. /\ b \in Elems(empty_buffers) <=> At(b, "pool", NULL)
          /\ b = s <=> At(b, "sendbuf", c)
          /\ b = r <=> At(b, "recvbuf", c)
          /\ b \in Elems(q) <=> At(b, "queue", c)
      BY <1>1 DEF At
    <2>2. /\ Located(b) /\ NULL \in PlaceIds /\ c \in PlaceIds /\ "pool" \in PlaceKinds
          /\ "sendbuf" \in PlaceKinds /\ "recvbuf" \in PlaceKinds /\ "queue" \in PlaceKinds
      BY DEF Ownership, PlaceIds, PlaceKinds
    <2> QED
      BY <2>1, <2>2, OnePlace
  <1>5. /\ One(s) \in Seq(Buffers) /\ Inj(One(s)) /\ \A b \in Buffers : b \in Elems(One(s)) <=> b = s
        /\ One(r) \in Seq(Buffers) /\ Inj(One(r)) /\ \A b \in Buffers : b \in Elems(One(r)) <=> b = r
    BY <1>3, OneElems
  <1> HIDE DEF s, r, q
  <1>6. \A t \in Seq(Buffers) : Elems(t) \subseteq Buffers
    BY DEF Elems
  <1>7. /\ p1 \in Seq(Buffers) /\ Inj(p1)
        /\ \A b \in Buffers : b \in Elems(p1) <=> b \in Elems(empty_buffers) \/ b = s
    <2>1. Elems(empty_buffers) \cap Elems(One(s)) = {}
      BY <1>3, <1>4, <1>5, <1>6
    <2>2. /\ p1 \in Seq(Buffers) /\ Inj(p1)
          /\ Elems(p1) = Elems(empty_buffers) \cup Elems(One(s))
      BY <1>3, <1>5, <2>1, ConcatElems
    <2> QED
      BY <1>5, <2>2
  <1> HIDE DEF p1
  <1>8. /\ p2 \in Seq(Buffers) /\ Inj(p2)
        /\ \A b \in Buffers : b \in Elems(p2) <=> b \in Elems(empty_buffers) \/ b = s \/ b = r
    <2>1. Elems(p1) \cap Elems(One(r)) = {}
      BY <1>4, <1>5, <1>6, <1>7
    <2>2. p2 \in Seq(Buffers) /\ Inj(p2) /\ Elems(p2) = Elems(p1) \cup Elems(One(r))
      BY <1>5, <1>7, <2>1, ConcatElems
    <2> QED
      BY <1>5, <1>7, <2>2
  <1> HIDE DEF p2
  <1>9. /\ Inj(empty_buffers')
        /\ \A b \in Buffers : b \in Elems(empty_buffers') <=> b \in Elems(empty_buffers) \/ b \in F
    <2>1. Elems(p2) \cap Elems(q) = {}
      BY <1>3, <1>4, <1>6, <1>8
    <2>2. Inj(p2 \o q) /\ Elems(p2 \o q) = Elems(p2) \cup Elems(q)
      BY <1>3, <1>8, <2>1, ConcatElems
    <2> QED
      BY <1>2, <1>8, <2>2
  <1>10. \A b \in Buffers : /\ b = s <=> conn[c].sendbuf = b
                            /\ b = r <=> conn[c].recvbuf = b
                            /\ b \in Elems(q) <=> b \in Elems(conn[c].send_queue)
    BY DEF s, r, q
  <1>11. Elems(<<>>) = {}
    BY DEF Elems
  <1>12. \A b \in Buffers \ F : Stays(b)
    <2>1. \A b \in Buffers \ F : SessionSame(b)
      BY <1>1, <1>2, <1>10, <1>11 DEF SessionSame, OnlyConn
    <2>2. \A b \in Buffers \ F : PoolSame(b)
      BY <1>9 DEF PoolSame
    <2> QED
      BY <1>1, <2>1, <2>2, SameByFrame, StaysBy
  <1>13. ASSUME NEW b \in F
         PROVE  Located(b)' /\ BufferInv(b)' /\ \A d \in Conns : b \notin InFlight(d)' /\ b \notin InFlight(d)
    <2>1. At(b, "sendbuf", c) \/ At(b, "recvbuf", c) \/ At(b, "queue", c)
      BY <1>1, <1>10 DEF At
    <2>2. /\ Located(b) /\ NULL \in PlaceIds /\ c \in PlaceIds /\ "pool" \in PlaceKinds
          /\ "sendbuf" \in PlaceKinds /\ "recvbuf" \in PlaceKinds /\ "queue" \in PlaceKinds
          /\ "pool" \in HeldKinds /\ "sendbuf" \in HeldKinds /\ "recvbuf" \in HeldKinds
          /\ "queue" \in HeldKinds
      BY DEF Ownership, PlaceIds, PlaceKinds, HeldKinds
    <2>3. PICK p \in {"sendbuf", "recvbuf", "queue"} : At(b, p, c) /\ p \in PlaceKinds
      BY <2>1, <2>2
    <2>4. At(b, "pool", NULL)'
      BY <1>9 DEF At
    <2>5. ~At(b, p, c)'
      BY <1>2, <1>11, <2>3 DEF At
    <2>6. \A k \in PlaceKinds, j \in PlaceIds :
            At(b, k, j)' => At(b, k, j) \/ (k = "pool" /\ j = NULL)
      <3> SUFFICES ASSUME NEW k \in PlaceKinds, NEW j \in PlaceIds, At(b, k, j)',
                          ~(k = "pool" /\ j = NULL)
                   PROVE  At(b, k, j)
        OBVIOUS
      <3>1. ASSUME NEW d \in Conns \ {c} PROVE conn'[d] = conn[d]
        BY <1>2 DEF OnlyConn
      <3>2. CASE k = "queue"
        BY <1>2, <1>11, <3>1, <3>2 DEF At
      <3>3. CASE k = "sendbuf"
        BY <1>2, <3>1, <3>3 DEF At
      <3>4. CASE k = "recvbuf"
        BY <1>2, <3>1, <3>4 DEF At
      <3>5. CASE k = "pool"
        BY <3>5 DEF At
      <3>6. CASE k \notin {"pool", "queue", "sendbuf", "recvbuf"}
        BY <1>1, <3>6 DEF At
      <3> QED
        BY <3>2, <3>3, <3>4, <3>5, <3>6
    <2>7. Now(b, "pool", NULL)
      BY <2>2, <2>3, <2>4, <2>5, <2>6, NowBy
    <2>8. BufferInv(b)' /\ \A d \in Conns : b \notin InFlight(d)'
      BY <2>2, <2>7, HeldNow
    <2>9. \A d \in Conns : b \notin InFlight(d)
      BY <2>1, <2>2, HeldBefore
    <2>10. Located(b)'
      BY <2>2, <2>7 DEF Located, Now
    <2> QED
      BY <2>8, <2>9, <2>10
  <1>14. OwnersStay
    <2>1. \A d \in Conns : conn'[d].submitidx = conn[d].submitidx
      BY <1>2 DEF OnlyConn
    <2> QED
      BY <1>1, <2>1, OwnersByFrame
  <1>15. ASSUME NEW b \in Buffers \ F
         PROVE  /\ Located(b)' /\ BufferInv(b)'
                /\ \A d \in Conns : b \in InFlight(d)' <=> b \in InFlight(d)
    BY <1>12, <1>14, StayKeeps DEF Ownership
  <1>16. QueuesInj'
    <2>1. /\ \A x \in Computes : Inj(compute_inbox[x])'
          /\ \A t \in Submitters : Inj(submitter_inbox[t])'
      BY <1>1 DEF Ownership, QueuesInj, Inj
    <2>2. \A d \in Conns : conn'[d].send_queue = conn[d].send_queue \/ conn'[d].send_queue = <<>>
      BY <1>2 DEF OnlyConn
    <2>3. \A d \in Conns : Inj(conn[d].send_queue)'
      BY <2>2 DEF Ownership, QueuesInj, Inj
    <2> QED
      BY <1>9, <2>1, <2>3 DEF QueuesInj
  <1>17. \A d \in Conns, b \in Buffers : b \in InFlight(d)' <=> b \in InFlight(d)
    BY <1>13, <1>15
  <1>18. \A d \in Conns : InFlight(d)' \subseteq Buffers /\ InFlight(d) \subseteq Buffers
    BY DEF InFlight
  <1>19. \A d \in Conns : InFlight(d)' = InFlight(d)
    BY <1>17, <1>18
  <1>20. \A b \in Buffers : Located(b)' /\ BufferInv(b)'
    BY <1>13, <1>15
  <1> QED
    BY <1>16, <1>19, <1>20 DEF Ownership

LEMMA OwnershipStep ==
    ASSUME Structure, Ownership, Counting, [Next]_vars
    PROVE  Ownership'
  <1>1. ASSUME NEW a \in Acceptors, AcceptStep(a) PROVE Ownership'
    BY <1>1, AcceptOwns, AcceptInitOwns, IdleOwns
       DEF AcceptStep, AcceptIdle, IdleReturn, threads
  <1>2. ASSUME NEW w \in IOs, IOStep(w) PROVE Ownership'
    <2>1. CASE EpollWait(w) \/ Dispatch(w) \/ IOIdle(w)
      BY <2>1, EpollWaitDoes, DispatchDoes, IdleOwns DEF IOIdle, IdleReturn, threads
    <2>2. CASE RespTake(w) \/ RespSent(w) \/ ReqTake(w)
      BY <2>2, RespTakeOwns, RespSentOwns, ReqTakeOwns
    <2>3. CASE \/ RespLock(w) \/ RespUnlock(w) \/ Send(w) \/ Recv(w)
               \/ ReqLock(w) \/ ReqUnlock(w) \/ FinishTry(w)
      BY <2>3, HandlerOwns
    <2>4. CASE ReqPut(w)
      <3>1. io[w].conn \in Conns
        BY <2>4, ReqPutDoes
      <3> QED
        BY <2>4, <3>1, ReqPutOwns
    <2>5. CASE FinishDrain(w) \/ FinishEnd(w)
      BY <2>5, FinishDrainOwns, FinishEndOwns
    <2> QED
      BY <1>2, <2>1, <2>2, <2>3, <2>4, <2>5 DEF IOStep
  <1>3. ASSUME NEW x \in Computes, ComputeStep(x) PROVE Ownership'
    BY <1>3, ComputeGetOwns, ComputePutOwns, IdleOwns
       DEF ComputeStep, ComputeIdle, IdleReturn, threads
  <1>4. ASSUME NEW s \in Submitters, SubmitStep(s) PROVE Ownership'
    <2>1. CASE SubmitGet(s) \/ SubmitTry(s) \/ SubmitArm(s) \/ SubmitUnlock(s) \/ SubmitLast(s)
      BY <2>1, SubmitGetOwns, SubmitTryOwns, SubmitterOwns, SubmitLastOwns
    <2>2. CASE SubmitPut(s)
      <3>1. sub[s].conn \in Conns
        BY <2>2, SubmitPutDoes
      <3> QED
        BY <2>2, <3>1, SubmitPutOwns
    <2>3. CASE SubmitIdle(s)
      BY <2>3, IdleOwns DEF SubmitIdle, IdleReturn, threads
    <2> QED
      BY <1>4, <2>1, <2>2, <2>3 DEF SubmitStep
  <1>5. ASSUME NEW k \in Clients, ClientStep(k) \/ ClientShutdown(k) PROVE Ownership'
    <2>1. UNCHANGED server
      BY <1>5, ConnectDoes, ClientWriteDoes, ClientReadDoes, ClientCloseDoes, ClientShutdownDoes
         DEF ClientStep
    <2> QED
      BY <2>1, IdleOwns DEF server, threads
  <1>6. CASE Stop \/ Over \/ UNCHANGED vars
    BY <1>6, IdleOwns DEF Stop, Over, vars, threads
  <1> QED
    BY <1>1, <1>2, <1>3, <1>4, <1>5, <1>6 DEF Next

----------------------------------------------------------------------------
\* The counters

\* A session of which nothing changes that the counters are about.
LEMMA CountSame ==
    ASSUME NEW d \in Conns, CountInv(d), SameBuffers(d), SameCounts(d),
           conn'[d].closed = conn[d].closed, InFlight(d)' = InFlight(d),
           Released(d) => Released(d)'
    PROVE  CountInv(d)'
  BY DEF CountInv, SameBuffers, SameCounts

LEMMA OutSame ==
    ASSUME NEW d \in Conns, OutInv(d), SameCounts(d), SameOut(d),
           conn'[d].closed = conn[d].closed, Arming(d)' <=> Arming(d),
           Clearing(d) => Clearing(d)'
    PROVE  OutInv(d)'
  BY DEF OutInv, SameCounts, SameOut

\* A step that changes session c only leaves the counters of the others alone.
LEMMA CountFrame ==
    ASSUME Counting, NEW c \in Conns, OnlyConn(c), CountInv(c)', OutInv(c)',
           \A d \in Conns \ {c} : /\ InFlight(d)' = InFlight(d) /\ (Released(d) => Released(d)')
                                  /\ (Arming(d)' <=> Arming(d)) /\ (Clearing(d) => Clearing(d)')
    PROVE  Counting'
  <1>1. ASSUME NEW d \in Conns \ {c} PROVE CountInv(d)' /\ OutInv(d)'
    <2>1. conn'[d] = conn[d]
      BY DEF OnlyConn
    <2>2. SameBuffers(d) /\ SameCounts(d) /\ SameOut(d) /\ conn'[d].closed = conn[d].closed
      BY <2>1 DEF SameBuffers, SameCounts, SameOut
    <2> QED
      BY <2>2, CountSame, OutSame DEF Counting
  <1> QED
    BY <1>1 DEF Counting

\* One that changes no counter.
LEMMA CountKeep ==
    ASSUME Counting,
           \A d \in Conns : /\ InFlight(d)' = InFlight(d) /\ (Released(d) => Released(d)')
                            /\ (Arming(d)' <=> Arming(d)) /\ (Clearing(d) => Clearing(d)'),
           UNCHANGED conn \/ \E c \in Conns : /\ OnlyConn(c) /\ SameOwner(c) /\ SameBuffers(c)
                                              /\ SameCounts(c) /\ SameOut(c)
    PROVE  Counting'
  <1>1. \A d \in Conns : /\ SameBuffers(d) /\ SameCounts(d) /\ SameOut(d)
                         /\ conn'[d].closed = conn[d].closed
    <2>1. CASE UNCHANGED conn
      BY <2>1 DEF SameBuffers, SameCounts, SameOut
    <2>2. ASSUME NEW c \in Conns, OnlyConn(c), SameOwner(c), SameBuffers(c), SameCounts(c),
                 SameOut(c)
          PROVE  \A d \in Conns : /\ SameBuffers(d) /\ SameCounts(d) /\ SameOut(d)
                                  /\ conn'[d].closed = conn[d].closed
      BY <2>2 DEF OnlyConn, SameOwner, SameBuffers, SameCounts, SameOut
    <2> QED
      BY <2>1, <2>2
  <1>2. ASSUME NEW d \in Conns PROVE CountInv(d)' /\ OutInv(d)'
    BY <1>1, CountSame, OutSame DEF Counting
  <1> QED
    BY <1>2 DEF Counting

\* The threads that are about to change EPOLLOUT.
LEMMA AboutOut ==
    /\ UNCHANGED sub => \A d \in Conns : Arming(d)' <=> Arming(d)
    /\ UNCHANGED io => \A d \in Conns : Clearing(d) => Clearing(d)'
    /\ UNCHANGED <<empty_connections, acc>> => \A d \in Conns : Released(d)' <=> Released(d)
    /\ \A w \in IOs :
         /\ \A v \in IOs \ {w} : io'[v] = io[v]
         /\ io[w].pc \notin {"resp_lock", "resp_unlock"}
            \/ (io'[w].conn = io[w].conn /\ io'[w].pc \in {"resp_lock", "resp_unlock"})
         => \A d \in Conns : Clearing(d) => Clearing(d)'
  <1>1. UNCHANGED sub => \A d \in Conns : Arming(d)' <=> Arming(d)
    BY DEF Arming
  <1>2. UNCHANGED io => \A d \in Conns : Clearing(d) => Clearing(d)'
    BY DEF Clearing
  <1>3. UNCHANGED <<empty_connections, acc>> => \A d \in Conns : Released(d)' <=> Released(d)
    BY DEF Released, Pooled, Taken
  <1>4. ASSUME NEW w \in IOs, \A v \in IOs \ {w} : io'[v] = io[v],
               io[w].pc \notin {"resp_lock", "resp_unlock"}
               \/ (io'[w].conn = io[w].conn /\ io'[w].pc \in {"resp_lock", "resp_unlock"}),
               NEW d \in Conns, Clearing(d)
        PROVE  Clearing(d)'
    BY <1>4 DEF Clearing
  <1> QED
    BY <1>1, <1>2, <1>3, <1>4

\* Numbers of a session.
LEMMA CountTypes ==
    ASSUME Structure, NEW c \in Conns
    PROVE  /\ conn[c].received \in Nat /\ conn[c].processed \in Nat /\ conn[c].sent \in Nat
           /\ conn[c].send_queue \in Seq(Buffers) /\ Len(conn[c].send_queue) \in Nat
           /\ conn[c].sendbuf \in Buffers \cup {NULL} /\ Count(conn[c].sendbuf) \in {0, 1}
           /\ IsFiniteSet(InFlight(c)) /\ Cardinality(InFlight(c)) \in Nat
  <1>1. conn[c] \in ConnType
    BY DEF Structure, Types
  <1>2. InFlight(c) \subseteq Buffers
    BY DEF InFlight
  <1>3. IsFiniteSet(InFlight(c)) /\ Cardinality(InFlight(c)) \in Nat
    BY <1>2, Constants, FS_Subset, FS_CardinalityType
  <1> QED
    BY <1>1, <1>3 DEF ConnType, Count

\* The handlers that lock, unlock, send, receive, or only look, but for the one
\* that clears EPOLLOUT.
LEMMA HandlerCounts ==
    ASSUME Structure, Ownership, Counting, NEW w \in IOs,
           \/ RespLock(w) \/ Send(w) \/ Recv(w) \/ ReqLock(w) \/ ReqUnlock(w)
           \/ FinishTry(w) \/ FinishEnd(w)
    PROVE  Counting'
  <1>1. \A d \in Conns : InFlight(d)' = InFlight(d)
    BY HandlerOwns, FinishEndOwns
  <1>2. UNCHANGED <<sub, acc>> /\ \A d \in Conns : Released(d) => Released(d)'
    <2>1. CASE FinishEnd(w)
      <3>1. /\ UNCHANGED <<sub, acc>> /\ io[w].conn \in Conns
            /\ \/ UNCHANGED empty_connections
               \/ empty_connections' = Append(empty_connections, io[w].conn)
        BY <2>1, FinishEndDoes
      <3>2. Elems(Append(empty_connections, io[w].conn)) = Elems(empty_connections) \cup {io[w].conn}
        BY <3>1, AppendElems DEF Structure, Types
      <3> QED
        BY <3>1, <3>2 DEF Released, Pooled, Taken
    <2>2. CASE \/ RespLock(w) \/ Send(w) \/ Recv(w) \/ ReqLock(w) \/ ReqUnlock(w) \/ FinishTry(w)
      <3>1. UNCHANGED <<queues, sub, acc>>
        BY <2>2, RespLockDoes, SendDoes, RecvDoes, ReqLockDoes, ReqUnlockDoes, FinishTryDoes, Zenon
      <3> QED
        BY <3>1, AboutOut DEF queues
    <2> QED
      BY <2>1, <2>2
  <1>3. /\ UNCHANGED conn \/ \E c \in Conns : /\ OnlyConn(c) /\ SameOwner(c) /\ SameBuffers(c)
                                              /\ SameCounts(c) /\ SameOut(c)
        /\ \A v \in IOs \ {w} : io'[v] = io[v]
        /\ io[w].pc \notin {"resp_lock", "resp_unlock"}
           \/ (io'[w].conn = io[w].conn /\ io'[w].pc \in {"resp_lock", "resp_unlock"})
    <2>1. CASE RespLock(w)
      BY <2>1, RespLockDoes DEF Goes
    <2>2. CASE Send(w)
      BY <2>2, SendDoes, Zenon DEF Goes, Returns
    <2>3. CASE Recv(w)
      BY <2>3, RecvDoes DEF Goes, Returns
    <2>4. CASE ReqLock(w)
      BY <2>4, ReqLockDoes DEF Goes
    <2>5. CASE ReqUnlock(w)
      BY <2>5, ReqUnlockDoes DEF Goes
    <2>6. CASE FinishTry(w)
      BY <2>6, FinishTryDoes DEF Goes, Returns
    <2>7. CASE FinishEnd(w)
      BY <2>7, FinishEndDoes DEF Returns
    <2> QED
      BY <2>1, <2>2, <2>3, <2>4, <2>5, <2>6, <2>7
  <1>4. \A d \in Conns : (Arming(d)' <=> Arming(d)) /\ (Clearing(d) => Clearing(d)')
    BY <1>2, <1>3, AboutOut
  <1> QED
    BY <1>1, <1>2, <1>3, <1>4, CountKeep

\* What the lemma of a handler below needs of the other sessions.
LEMMA HandlerFrame ==
    ASSUME Counting, NEW w \in IOs, NEW c \in Conns, OnlyConn(c), io[w].conn = c,
           Goes(w, io'[w].pc), UNCHANGED <<empty_connections, sub, acc>>,
           \A d \in Conns \ {c} : InFlight(d)' = InFlight(d),
           CountInv(c)', OutInv(c)'
    PROVE  Counting'
  <1>1. \A d \in Conns : (Arming(d)' <=> Arming(d)) /\ (Released(d)' <=> Released(d))
    BY AboutOut
  <1>2. \A d \in Conns \ {c} : Clearing(d) => Clearing(d)'
    BY DEF Clearing, Goes
  <1> QED
    BY <1>1, <1>2, CountFrame

LEMMA RespTakeCounts ==
    ASSUME Structure, Ownership, Counting, NEW w \in IOs, RespTake(w)
    PROVE  Counting'
  <1> PICK c \in Conns : c = io[w].conn
    BY RespTakeDoes
  <1>1. \A d \in Conns : InFlight(d)' = InFlight(d)
    BY RespTakeOwns
  <1>2. /\ UNCHANGED <<empty_connections, sub, acc>> /\ io[w].pc = "resp" /\ ~conn[c].closed
        /\ \A v \in IOs \ {w} : io'[v] = io[v]
    BY RespTakeDoes DEF queues, Goes, Returns, Structure, IOInv, Busy
  <1>3. \A d \in Conns : /\ Arming(d)' <=> Arming(d)
                         /\ Clearing(d) => Clearing(d)'
                         /\ Released(d)' <=> Released(d)
    BY <1>2, AboutOut
  <1>4. CASE UNCHANGED conn
    BY <1>1, <1>3, <1>4, CountKeep
  <1>5. CASE conn[c].sendbuf = NULL /\ conn[c].send_queue # <<>>
    <2>1. /\ OnlyConn(c) /\ SameOwner(c) /\ SameCounts(c) /\ SameOut(c)
          /\ conn'[c].sendbuf # NULL /\ conn'[c].recvbuf = conn[c].recvbuf
          /\ conn'[c].send_queue = Tail(conn[c].send_queue)
      BY <1>5, RespTakeDoes, Constants
    <2>2. Len(conn'[c].send_queue) = Len(conn[c].send_queue) - 1
      BY <1>5, <2>1, CountTypes
    <2>3. /\ conn'[c].received = conn[c].received /\ conn'[c].processed = conn[c].processed
          /\ conn'[c].sent = conn[c].sent /\ ~conn'[c].closed /\ CountInv(c)
      BY <1>2, <2>1 DEF SameCounts, SameOwner, Counting
    <2>4. Count(conn'[c].sendbuf) = 1 /\ Count(conn[c].sendbuf) = 0
      BY <1>5, <2>1 DEF Count
    <2>5. conn'[c].processed = conn'[c].sent + Len(conn'[c].send_queue) + Count(conn'[c].sendbuf)
      <3>1. conn[c].processed = conn[c].sent + Len(conn[c].send_queue) + Count(conn[c].sendbuf)
        BY <1>2, <2>3 DEF CountInv
      <3>2. conn[c].sent \in Nat /\ Len(conn[c].send_queue) \in Nat
        BY CountTypes
      <3>3. /\ conn'[c].processed = conn[c].processed /\ conn'[c].sent = conn[c].sent
            /\ Len(conn'[c].send_queue) = Len(conn[c].send_queue) - 1
            /\ Count(conn'[c].sendbuf) = 1 /\ Count(conn[c].sendbuf) = 0
        BY <2>2, <2>3, <2>4
      <3> QED
        BY ONLY <3>1, <3>2, <3>3
    <2>6. CountInv(c)'
      BY <1>1, <1>3, <2>1, <2>3, <2>5 DEF CountInv
    <2>7. OutInv(c)'
      BY <1>3, <2>1, OutSame DEF Counting, SameOwner
    <2> QED
      BY <1>1, <1>3, <2>1, <2>6, <2>7, CountFrame
  <1> QED
    BY <1>4, <1>5, RespTakeDoes

LEMMA RespSentCounts ==
    ASSUME Structure, Ownership, Counting, NEW w \in IOs, RespSent(w)
    PROVE  Counting'
  <1> PICK c \in Conns : c = io[w].conn
    BY RespSentDoes
  <1>1. \A d \in Conns : InFlight(d)' = InFlight(d)
    BY RespSentOwns
  <1>2. /\ UNCHANGED <<empty_connections, sub, acc>> /\ ~conn[c].closed
        /\ Goes(w, "resp_lock") /\ OnlyConn(c) /\ SameOwner(c) /\ SameOut(c)
        /\ conn[c].sendbuf # NULL
    BY RespSentDoes, Constants DEF Structure, IOInv, Busy
  <1>3. /\ conn'[c].sendbuf = NULL /\ conn'[c].recvbuf = conn[c].recvbuf
        /\ conn'[c].send_queue = conn[c].send_queue /\ conn'[c].sent = conn[c].sent + 1
        /\ conn'[c].received = conn[c].received /\ conn'[c].processed = conn[c].processed
        /\ ~conn'[c].closed
    BY <1>2, RespSentDoes DEF SameOwner
  <1>4. \A d \in Conns : (Arming(d)' <=> Arming(d)) /\ (Released(d)' <=> Released(d))
    BY <1>2, AboutOut
  <1>5. CountInv(c) /\ OutInv(c)
    BY DEF Counting
  <1>6. Count(conn'[c].sendbuf) = 0 /\ Count(conn[c].sendbuf) = 1
    BY <1>2, <1>3 DEF Count
  <1>7. conn[c].processed = conn[c].sent + Len(conn[c].send_queue) + 1
    BY <1>2, <1>5, <1>6 DEF CountInv
  <1>8. CountInv(c)'
    <2>1. ~Released(c)' => conn'[c].received = conn'[c].processed + Cardinality(InFlight(c)')
      BY <1>1, <1>3, <1>4, <1>5 DEF CountInv
    <2>2. conn'[c].processed = conn'[c].sent + Len(conn'[c].send_queue) + Count(conn'[c].sendbuf)
      <3>1. conn[c].sent \in Nat /\ Len(conn[c].send_queue) \in Nat
        BY CountTypes
      <3> QED
        BY <1>3, <1>6, <1>7, <3>1
    <2>3. /\ conn'[c].received <= conn'[c].sent + Readahead + 1
          /\ conn'[c].recvbuf # NULL => conn'[c].received <= conn'[c].sent + Readahead
      <3>1. /\ conn[c].received <= conn[c].sent + Readahead + 1
            /\ conn[c].recvbuf # NULL => conn[c].received <= conn[c].sent + Readahead
        BY <1>5 DEF CountInv
      <3> QED
        BY <1>3, <3>1, CountTypes, Constants, SMTT(20)
    <2> QED
      BY <1>3, <2>1, <2>2, <2>3 DEF CountInv
  <1>9. OutInv(c)'
    <2>1. Clearing(c)'
      BY <1>2 DEF Clearing, Goes
    <2>2. "OUT" \in conn[c].epoll_state \/ Arming(c)
      BY <1>2, <1>5, <1>7, CountTypes DEF OutInv
    <2> QED
      BY <1>2, <1>4, <2>1, <2>2 DEF OutInv, SameOut
  <1>10. Goes(w, io'[w].pc)
    BY <1>2 DEF Goes
  <1> QED
    BY <1>1, <1>2, <1>8, <1>9, <1>10, HandlerFrame

\* Under the lock, and only then, epoll_state may be compared with the counters.
LEMMA RespUnlockCounts ==
    ASSUME Structure, Ownership, Counting, NEW w \in IOs, RespUnlock(w)
    PROVE  Counting'
  <1> PICK c \in Conns : c = io[w].conn
    BY RespUnlockDoes
  <1>1. \A d \in Conns : InFlight(d)' = InFlight(d)
    BY HandlerOwns
  <1>2. /\ UNCHANGED <<empty_connections, sub, acc>> /\ ~conn[c].closed
        /\ Goes(w, "resp") /\ OnlyConn(c) /\ SameOwner(c) /\ SameBuffers(c) /\ SameCounts(c)
        /\ conn'[c].epoll_state = OutCleared(c) /\ io[w].pc = "resp_unlock"
    BY RespUnlockDoes DEF queues, Structure, IOInv, Busy
  <1>3. \A d \in Conns : (Arming(d)' <=> Arming(d)) /\ (Released(d)' <=> Released(d))
    BY <1>2, AboutOut
  <1>4. CountInv(c) /\ OutInv(c) /\ IOInv(w) /\ IOSection(w)
    BY <1>2 DEF Counting, Structure, IOSection
  <1>5. ~Arming(c)
    BY <1>4 DEF IOInv, Arming, SubSection
  <1>6. conn[c].processed >= conn[c].sent
    <2>1. conn[c].processed = conn[c].sent + Len(conn[c].send_queue) + Count(conn[c].sendbuf)
      BY <1>2, <1>4 DEF CountInv
    <2>2. conn[c].sent \in Nat /\ Len(conn[c].send_queue) \in Nat /\ Count(conn[c].sendbuf) \in {0, 1}
      BY CountTypes
    <2> QED
      BY <2>1, <2>2
  <1>7. CountInv(c)'
    BY <1>1, <1>2, <1>3, <1>4, CountSame DEF SameOwner
  <1>8. OutInv(c)'
    <2>1. conn'[c].processed = conn[c].processed /\ conn'[c].sent = conn[c].sent
      BY <1>2 DEF SameCounts
    <2>2. conn[c].processed = conn[c].sent \/ conn[c].processed > conn[c].sent
      BY <1>6, CountTypes
    <2>3. ~(conn[c].processed = conn[c].sent /\ conn[c].processed > conn[c].sent)
      BY CountTypes
    <2>4. conn[c].processed > conn[c].sent => "OUT" \in conn[c].epoll_state
      BY <1>2, <1>4, <1>5 DEF OutInv
    <2>5. "OUT" \in conn'[c].epoll_state <=> conn[c].processed > conn[c].sent
      BY <1>2, <2>2, <2>3, <2>4 DEF OutCleared
    <2> QED
      BY <1>3, <1>5, <2>1, <2>5 DEF OutInv
  <1>9. Goes(w, io'[w].pc)
    BY <1>2 DEF Goes
  <1> QED
    BY <1>1, <1>2, <1>7, <1>8, <1>9, HandlerFrame

LEMMA ReqTakeCounts ==
    ASSUME Structure, Ownership, Counting, NEW w \in IOs, ReqTake(w)
    PROVE  Counting'
  <1> PICK c \in Conns : c = io[w].conn
    BY ReqTakeDoes
  <1>1. \A d \in Conns : InFlight(d)' = InFlight(d)
    BY ReqTakeOwns
  <1>2. /\ UNCHANGED <<empty_connections, sub, acc>> /\ io[w].pc = "req"
        /\ \A v \in IOs \ {w} : io'[v] = io[v]
    BY ReqTakeDoes DEF Goes, Returns
  <1>3. \A d \in Conns : /\ Arming(d)' <=> Arming(d)
                         /\ Clearing(d) => Clearing(d)'
                         /\ Released(d)' <=> Released(d)
    BY <1>2, AboutOut
  <1>4. CASE UNCHANGED conn
    BY <1>1, <1>3, <1>4, CountKeep
  <1>5. CASE ~UNCHANGED conn
    <2>1. /\ OnlyConn(c) /\ SameOwner(c) /\ SameCounts(c) /\ SameOut(c)
          /\ conn'[c].sendbuf = conn[c].sendbuf /\ ~Full(c)
          /\ conn'[c].send_queue = conn[c].send_queue
      BY <1>5, ReqTakeDoes
    <2>2. /\ conn'[c].received = conn[c].received /\ conn'[c].processed = conn[c].processed
          /\ conn'[c].sent = conn[c].sent /\ conn'[c].closed = conn[c].closed /\ CountInv(c)
      BY <2>1 DEF SameCounts, SameOwner, Counting
    <2>3. conn[c].received <= conn[c].sent + Readahead
      <3>1. conn[c].received \in Nat /\ conn[c].sent \in Nat
        BY CountTypes
      <3> QED
        BY <2>1, <3>1, Constants DEF Full
    <2>4. CountInv(c)'
      BY <1>1, <1>3, <2>1, <2>2, <2>3 DEF CountInv
    <2>5. OutInv(c)'
      BY <1>3, <2>1, <2>2, OutSame DEF Counting
    <2> QED
      BY <1>1, <1>3, <2>1, <2>4, <2>5, CountFrame
  <1> QED
    BY <1>4, <1>5

LEMMA ReqPutCounts ==
    ASSUME Structure, Ownership, Counting, NEW w \in IOs, ReqPut(w)
    PROVE  Counting'
  <1> PICK c \in Conns : c = io[w].conn
    BY ReqPutDoes
  <1>1. /\ \E b \in Buffers \ InFlight(c) : InFlight(c)' = InFlight(c) \cup {b}
        /\ \A d \in Conns \ {c} : InFlight(d)' = InFlight(d)
    BY ReqPutOwns
  <1>2. /\ UNCHANGED <<empty_connections, sub, acc>> /\ ~conn[c].closed /\ ~Released(c)
        /\ Goes(w, "req_unlock") /\ OnlyConn(c) /\ SameOwner(c) /\ SameOut(c)
        /\ conn[c].recvbuf # NULL /\ io[w].pc = "req_put"
    BY ReqPutDoes, Constants DEF Structure, IOInv, Busy
  <1>3. /\ conn'[c].recvbuf = NULL /\ conn'[c].sendbuf = conn[c].sendbuf
        /\ conn'[c].send_queue = conn[c].send_queue /\ conn'[c].sent = conn[c].sent
        /\ conn'[c].received = conn[c].received + 1 /\ conn'[c].processed = conn[c].processed
        /\ ~conn'[c].closed
    BY <1>2, ReqPutDoes, Zenon DEF SameOwner
  <1>4. /\ \A d \in Conns : (Arming(d)' <=> Arming(d)) /\ (Released(d)' <=> Released(d))
        /\ \A d \in Conns : Clearing(d) => Clearing(d)'
    BY <1>2, AboutOut DEF Goes
  <1>5. CountInv(c) /\ OutInv(c)
    BY DEF Counting
  <1>6. CountInv(c)'
    <2>1. /\ conn[c].received \in Nat /\ conn[c].processed \in Nat /\ conn[c].sent \in Nat
          /\ IsFiniteSet(InFlight(c)) /\ Cardinality(InFlight(c)) \in Nat
      BY CountTypes
    <2>2. Cardinality(InFlight(c)') = Cardinality(InFlight(c)) + 1
      BY <1>1, <2>1, FS_AddElement
    <2>3. conn'[c].received = conn'[c].processed + Cardinality(InFlight(c)')
      <3>1. conn[c].received = conn[c].processed + Cardinality(InFlight(c))
        BY <1>2, <1>5 DEF CountInv
      <3> QED
        BY <1>3, <2>1, <2>2, <3>1
    <2>4. conn'[c].received <= conn'[c].sent + Readahead + 1
      <3>1. conn[c].received <= conn[c].sent + Readahead
        BY <1>2, <1>5 DEF CountInv
      <3> QED
        BY <1>3, <2>1, <3>1, Constants
    <2>5. conn'[c].processed = conn'[c].sent + Len(conn'[c].send_queue) + Count(conn'[c].sendbuf)
      BY <1>2, <1>3, <1>5 DEF CountInv
    <2> QED
      BY <1>3, <2>3, <2>4, <2>5 DEF CountInv
  <1>7. OutInv(c)'
    <2>1. /\ conn'[c].epoll_state = conn[c].epoll_state
          /\ (Arming(c)' <=> Arming(c)) /\ (Clearing(c) => Clearing(c)')
      BY <1>2, <1>4 DEF SameOut
    <2> QED
      BY <1>2, <1>3, <1>5, <2>1 DEF OutInv
  <1>8. Goes(w, io'[w].pc)
    BY <1>2 DEF Goes
  <1> QED
    BY <1>1, <1>2, <1>6, <1>7, <1>8, HandlerFrame

\* A session closed with a response half sent is one that reads one request at a
\* time, and this response answers all it has received.
LEMMA FinishDrainCounts ==
    ASSUME Structure, Ownership, Counting, NEW w \in IOs, FinishDrain(w)
    PROVE  Counting'
  <1> PICK c \in Conns : c = io[w].conn
    BY FinishDrainDoes
  <1>1. \A d \in Conns : InFlight(d)' = InFlight(d)
    BY FinishDrainOwns
  <1>2. /\ UNCHANGED <<empty_connections, sub, acc>> /\ ~conn[c].closed /\ ~Released(c)
        /\ Goes(w, "fin_end") /\ OnlyConn(c) /\ io[w].pc = "fin_drain"
        /\ conn[c].sendbuf # NULL => Readahead = 0
    BY FinishDrainDoes DEF Structure, IOInv, Busy
  <1>3. /\ conn'[c].recvbuf = conn[c].recvbuf /\ conn'[c].sendbuf = conn[c].sendbuf
        /\ conn'[c].sent = conn[c].sent + Len(conn[c].send_queue)
        /\ conn'[c].received = conn[c].received /\ conn'[c].processed = conn[c].processed
        /\ conn'[c].closed
    BY FinishDrainDoes
  <1>4. \A d \in Conns : Released(d)' <=> Released(d)
    BY <1>2, AboutOut
  <1>5. CountInv(c)
    BY DEF Counting
  <1> DEFINE r  == conn[c].received
             p  == conn[c].processed
             s  == conn[c].sent
             n  == Cardinality(InFlight(c))
             q  == Len(conn[c].send_queue)
  <1>6. /\ r \in Nat /\ p \in Nat /\ s \in Nat /\ n \in Nat /\ q \in Nat
    BY CountTypes
  <1>7. /\ r = p + n /\ r <= s + Readahead + 1
        /\ conn[c].recvbuf # NULL => r <= s + Readahead
        /\ p = s + q + Count(conn[c].sendbuf)
    BY <1>2, <1>5 DEF CountInv
  <1>8. /\ conn'[c].received = r /\ conn'[c].processed = p /\ conn'[c].sent = s + q
        /\ Cardinality(InFlight(c)') = n
    BY <1>1, <1>3
  <1> HIDE DEF r, p, s, n, q
  <1>9. conn[c].sendbuf # NULL => r = p /\ s + q < r
    <2> SUFFICES ASSUME conn[c].sendbuf # NULL PROVE r = p /\ s + q < r
      OBVIOUS
    <2>1. Count(conn[c].sendbuf) = 1 /\ Readahead = 0
      BY <1>2 DEF Count
    <2> QED
      BY <1>6, <1>7, <2>1
  <1>10. r <= s + q + Readahead + 1 /\ (conn[c].recvbuf # NULL => r <= s + q + Readahead)
    BY <1>6, <1>7, Constants
  <1>11. CountInv(c)'
    BY <1>2, <1>3, <1>7, <1>8, <1>9, <1>10 DEF CountInv
  <1>12. OutInv(c)'
    BY <1>3 DEF OutInv
  <1>13. Goes(w, io'[w].pc)
    BY <1>2 DEF Goes
  <1> QED
    BY <1>1, <1>2, <1>11, <1>12, <1>13, HandlerFrame

\* The steps that change no session and no submit thread.
LEMMA IdleCounts ==
    ASSUME Structure, Ownership, Counting, UNCHANGED <<conn, sub>>,
           \A d \in Conns : InFlight(d)' = InFlight(d),
           \A d \in Conns : (Released(d) => Released(d)') /\ (Clearing(d) => Clearing(d)')
    PROVE  Counting'
  BY AboutOut, CountKeep

LEMMA PollCounts ==
    ASSUME Structure, Ownership, Counting, NEW w \in IOs, EpollWait(w) \/ Dispatch(w)
    PROVE  Counting'
  <1>1. /\ UNCHANGED <<conn, buf, queues, sub, cmp, acc>> /\ io[w].pc \in {"wait", "dispatch"}
        /\ \A v \in IOs \ {w} : io'[v] = io[v]
    BY EpollWaitDoes, DispatchDoes
  <1>2. \A d \in Conns : (Clearing(d) => Clearing(d)') /\ (Released(d)' <=> Released(d))
    BY <1>1, AboutOut DEF queues
  <1> QED
    BY <1>1, <1>2, IdleOwns, IdleCounts

LEMMA ComputeCounts ==
    ASSUME Structure, Ownership, Counting, NEW x \in Computes, ComputeGet(x) \/ ComputePut(x)
    PROVE  Counting'
  <1>1. UNCHANGED <<conn, empty_connections, io, sub, acc>>
    BY Zenon DEF ComputeGet, ComputePut
  <1>2. \A d \in Conns : InFlight(d)' = InFlight(d)
    BY ComputeGetOwns, ComputePutOwns
  <1> QED
    BY <1>1, <1>2, AboutOut, IdleCounts

LEMMA AcceptCounts ==
    ASSUME Structure, Ownership, Counting, NEW a \in Acceptors,
           AcceptWait(a) \/ AcceptGet(a) \/ AcceptMiss(a) \/ AcceptFd(a) \/ AcceptFail(a)
    PROVE  Counting'
  <1>1. UNCHANGED <<conn, io, sub>>
    BY DEF AcceptWait, AcceptGet, AcceptMiss, AcceptFd, AcceptFail
  <1>2. \A d \in Conns : InFlight(d)' = InFlight(d)
    BY AcceptOwns
  <1>3. \A d \in Conns : Released(d) => Released(d)'
    <2>1. CASE AcceptGet(a)
      <3>1. /\ empty_connections # <<>> /\ empty_connections' = Tail(empty_connections)
            /\ OnlyAcc(a) /\ acc[a].pc = "get" /\ acc'[a].conn = Head(empty_connections)
        BY <2>1, AcceptGetDoes
      <3>2. acc[a].conn = NULL
        BY <3>1 DEF Structure, AcceptInv
      <3>3. Elems(empty_connections) = Elems(Tail(empty_connections)) \cup {Head(empty_connections)}
        BY <3>1, TailElems DEF Structure, Types
      <3> QED
        BY <3>1, <3>2, <3>3, Constants DEF Released, Taken, Pooled, OnlyAcc
    <2>2. CASE AcceptWait(a) \/ AcceptMiss(a) \/ AcceptFd(a) \/ AcceptFail(a)
      <3>1. UNCHANGED empty_connections /\ OnlyAcc(a) /\ acc'[a].conn = acc[a].conn
        BY <2>2, AcceptWaitDoes, AcceptFdDoes, AcceptFailDoes DEF queues
      <3> QED
        BY <3>1 DEF Released, Taken, Pooled, OnlyAcc
    <2> QED
      BY <2>1, <2>2
  <1> QED
    BY <1>1, <1>2, <1>3, AboutOut, IdleCounts

\* A released session has nothing in flight: it starts from zero.
LEMMA AcceptInitCounts ==
    ASSUME Structure, Ownership, Counting, NEW a \in Acceptors, AcceptInit(a) \/ AcceptCtlFail(a)
    PROVE  Counting'
  <1> PICK c \in Conns : c = acc[a].conn
    BY AcceptInitDoes, AcceptCtlFailDoes
  <1>1. /\ acc[a].pc = "init" /\ UNCHANGED <<empty_connections, io, sub>> /\ OnlyConn(c)
        /\ Fresh(c, acc[a].fd) /\ OnlyAcc(a)
    BY AcceptInitDoes, AcceptCtlFailDoes DEF queues
  <1>2. Released(c) /\ conn[c].sendbuf = NULL
    BY <1>1 DEF Structure, SessionInv, Released, Taken
  <1>3. \A d \in Conns : InFlight(d)' = InFlight(d)
    BY AcceptInitOwns
  <1>4. InFlight(c) = {}
    <2>1. \A b \in Buffers : b \notin InFlight(c)
      BY <1>2, PipelinedAt DEF Ownership, BufferInv
    <2> QED
      BY <2>1 DEF InFlight
  <1>5. \A d \in Conns \ {c} : Released(d) => Released(d)'
    BY <1>1, Constants DEF Released, Taken, Pooled, OnlyAcc
  <1>6. ~Arming(c)
    BY <1>2, Constants DEF Arming, Structure, SubmitInv
  <1>7. \A d \in Conns : (Arming(d)' <=> Arming(d)) /\ (Clearing(d) => Clearing(d)')
    BY <1>1, AboutOut
  <1>8. CountInv(c)'
    <2>1. Cardinality(InFlight(c)') = 0
      BY <1>3, <1>4, FS_EmptySet
    <2>2. /\ conn'[c].received = 0 /\ conn'[c].processed = 0 /\ conn'[c].sent = 0
          /\ conn'[c].sendbuf = NULL /\ Len(conn'[c].send_queue) = 0 /\ ~conn'[c].closed
          /\ conn'[c].recvbuf = NULL
      BY <1>1, <1>2 DEF Fresh
    <2>3. Count(conn'[c].sendbuf) = 0
      BY <2>2 DEF Count
    <2>4. 0 = 0 + 0 /\ 0 = 0 + 0 + 0 /\ 0 <= 0 + Readahead + 1
      BY Constants
    <2> QED
      BY <2>1, <2>2, <2>3, <2>4 DEF CountInv
  <1>9. OutInv(c)'
    <2>1. /\ conn'[c].processed = 0 /\ conn'[c].sent = 0 /\ "OUT" \notin conn'[c].epoll_state
      BY <1>1 DEF Fresh
    <2>2. ~(0 > 0)
      OBVIOUS
    <2> QED
      BY <1>6, <1>7, <2>1, <2>2 DEF OutInv
  <1> QED
    BY <1>1, <1>3, <1>5, <1>7, <1>8, <1>9, CountFrame

\* The submit thread's steps that change no counter.
LEMMA SubmitterCounts ==
    ASSUME Structure, Ownership, Counting, NEW s \in Submitters,
           SubmitGet(s) \/ SubmitTry(s) \/ SubmitUnlock(s) \/ SubmitLast(s)
    PROVE  Counting'
  <1>1. \A d \in Conns : InFlight(d)' = InFlight(d)
    BY SubmitGetOwns, SubmitTryOwns, SubmitterOwns, SubmitLastOwns
  <1>2. UNCHANGED <<io, acc>>
    BY DEF SubmitGet, SubmitTry, SubmitUnlock, SubmitLast
  <1>3. OnlySub(s) /\ sub[s].pc # "arm" /\ sub'[s].pc # "arm"
    <2>1. CASE SubmitGet(s)
      BY <2>1, SubmitGetDoes
    <2>2. CASE SubmitTry(s)
      BY <2>2, SubmitTryDoes
    <2>3. CASE SubmitUnlock(s)
      BY <2>3, SubmitUnlockDoes
    <2>4. CASE SubmitLast(s)
      BY <2>4, SubmitLastDoes
    <2> QED
      BY <2>1, <2>2, <2>3, <2>4
  <1>4. UNCHANGED conn \/ \E c \in Conns : /\ OnlyConn(c) /\ SameOwner(c) /\ SameBuffers(c)
                                           /\ SameCounts(c) /\ SameOut(c)
    <2>1. CASE SubmitGet(s)
      BY <2>1, SubmitGetDoes
    <2>2. CASE SubmitTry(s)
      BY <2>2, SubmitTryDoes
    <2>3. CASE SubmitUnlock(s)
      BY <2>3, SubmitUnlockDoes
    <2>4. CASE SubmitLast(s)
      BY <2>4, SubmitLastDoes
    <2> QED
      BY <2>1, <2>2, <2>3, <2>4
  <1>5. \A d \in Conns : Released(d) => Released(d)'
    <2>1. \/ UNCHANGED empty_connections
          \/ \E c \in Conns : empty_connections' = Append(empty_connections, c)
      <3>1. CASE SubmitGet(s) \/ SubmitTry(s) \/ SubmitUnlock(s)
        BY <3>1 DEF SubmitGet, SubmitTry, SubmitUnlock, queues
      <3>2. CASE SubmitLast(s)
        BY <3>2, SubmitLastDoes
      <3> QED
        BY <3>1, <3>2
    <2>2. \A c \in Conns : Elems(Append(empty_connections, c)) = Elems(empty_connections) \cup {c}
      BY AppendElems DEF Structure, Types
    <2> QED
      BY <1>2, <2>1, <2>2 DEF Released, Pooled, Taken
  <1>6. \A d \in Conns : (Arming(d)' <=> Arming(d)) /\ (Clearing(d) => Clearing(d)')
    <2>1. \A d \in Conns : Arming(d)' <=> Arming(d)
      BY <1>3 DEF Arming, OnlySub
    <2> QED
      BY <1>2, <2>1, AboutOut
  <1> QED
    BY <1>1, <1>4, <1>5, <1>6, CountKeep

\* What the lemmas of the other two need of the other sessions.
LEMMA SubmitFrame ==
    ASSUME Counting, NEW s \in Submitters, NEW c \in Conns, OnlyConn(c), OnlySub(s),
           sub[s].conn = c, sub'[s].conn = c, UNCHANGED <<empty_connections, io, acc>>,
           \A d \in Conns \ {c} : InFlight(d)' = InFlight(d),
           CountInv(c)', OutInv(c)'
    PROVE  Counting'
  <1>1. \A d \in Conns : (Clearing(d) => Clearing(d)') /\ (Released(d)' <=> Released(d))
    BY AboutOut
  <1>2. \A d \in Conns \ {c} : Arming(d)' <=> Arming(d)
    BY DEF Arming, OnlySub
  <1> QED
    BY <1>1, <1>2, CountFrame

LEMMA SubmitPutCounts ==
    ASSUME Structure, Ownership, Counting, NEW s \in Submitters, SubmitPut(s)
    PROVE  Counting'
  <1> PICK c \in Conns : c = sub[s].conn
    BY SubmitPutDoes
  <1>1. /\ \E b \in InFlight(c) : InFlight(c)' = InFlight(c) \ {b}
        /\ \A d \in Conns \ {c} : InFlight(d)' = InFlight(d)
    BY SubmitPutOwns
  <1>2. /\ UNCHANGED <<empty_connections, io, acc>> /\ OnlyConn(c) /\ OnlySub(s) /\ SameOwner(c)
        /\ sub[s].pc = "put" /\ sub'[s].conn = c
        /\ conn'[c].recvbuf = conn[c].recvbuf /\ conn'[c].sendbuf = conn[c].sendbuf
        /\ conn'[c].processed = conn[c].processed + 1
        /\ conn'[c].received = conn[c].received /\ conn'[c].sent = conn[c].sent
    BY SubmitPutDoes
  <1>3. conn'[c].closed = conn[c].closed
    BY <1>2 DEF SameOwner
  <1>4. ~conn[c].closed => /\ conn'[c].send_queue = Append(conn[c].send_queue, sub[s].buff)
                           /\ sub'[s].pc = "arm"
    BY SubmitPutDoes
  <1>5. ~Released(c) /\ (Released(c)' <=> Released(c))
    BY <1>2, SubmitterConn, AboutOut
  <1> DEFINE r  == conn[c].received
             p  == conn[c].processed
             t  == conn[c].sent
             n  == Cardinality(InFlight(c))
             q  == Len(conn[c].send_queue)
             h  == Count(conn[c].sendbuf)
  <1>6. r \in Nat /\ p \in Nat /\ t \in Nat /\ n \in Nat /\ q \in Nat /\ h \in {0, 1}
    BY CountTypes
  <1>7. Cardinality(InFlight(c)') = n - 1 /\ n >= 1
    <2>1. IsFiniteSet(InFlight(c)) /\ InFlight(c) # {}
      BY <1>1, CountTypes
    <2>2. n # 0
      BY <2>1, FS_EmptySet
    <2>3. Cardinality(InFlight(c)') = n - 1
      BY <1>1, <2>1, FS_RemoveElement
    <2> QED
      BY <1>6, <2>2, <2>3
  <1>8. Len(Append(conn[c].send_queue, sub[s].buff)) = q + 1
    BY CountTypes
  <1>9. /\ CountInv(c) /\ r = p + n
        /\ ~conn[c].closed => p = t + q + h
        /\ conn[c].closed /\ conn[c].sendbuf # NULL => r = p
    BY <1>5 DEF Counting, CountInv
  <1>10. conn'[c].received = r /\ conn'[c].processed = p + 1 /\ conn'[c].sent = t
         /\ Count(conn'[c].sendbuf) = h
    BY <1>2
  <1>11. ~conn[c].closed => Len(conn'[c].send_queue) = q + 1
    BY <1>4, <1>8
  <1>12. r <= t + Readahead + 1 /\ (conn[c].recvbuf # NULL => r <= t + Readahead)
    BY <1>9 DEF CountInv
  <1> HIDE DEF r, p, t, n, q, h
  <1>13. /\ r = (p + 1) + (n - 1)
         /\ ~conn[c].closed => p + 1 = t + (q + 1) + h
         /\ ~(conn[c].closed /\ conn[c].sendbuf # NULL)
    BY <1>6, <1>7, <1>9
  <1>14. CountInv(c)'
    BY <1>2, <1>3, <1>7, <1>10, <1>11, <1>12, <1>13 DEF CountInv
  <1>15. OutInv(c)'
    <2> SUFFICES ASSUME ~conn[c].closed PROVE OutInv(c)'
      BY <1>3 DEF OutInv
    <2>1. Arming(c)'
      BY <1>2, <1>4 DEF Arming
    <2>2. p + 1 > t
      BY <1>6, <1>9
    <2> QED
      BY <1>10, <2>1, <2>2 DEF OutInv
  <1> QED
    BY <1>1, <1>2, <1>14, <1>15, SubmitFrame

LEMMA SubmitArmCounts ==
    ASSUME Structure, Ownership, Counting, NEW s \in Submitters, SubmitArm(s)
    PROVE  Counting'
  <1> PICK c \in Conns : c = sub[s].conn
    BY SubmitArmDoes
  <1>1. \A d \in Conns : InFlight(d)' = InFlight(d)
    BY SubmitterOwns
  <1>2. /\ UNCHANGED <<empty_connections, io, acc>> /\ OnlyConn(c) /\ OnlySub(s) /\ SameOwner(c)
        /\ SameBuffers(c) /\ SameCounts(c) /\ sub[s].pc = "arm" /\ sub'[s].conn = c
        /\ conn'[c].epoll_state = conn[c].epoll_state \cup {"OUT"}
    BY SubmitArmDoes DEF queues
  <1>3. /\ \A d \in Conns : Clearing(d) => Clearing(d)'
        /\ \A d \in Conns : Released(d)' <=> Released(d)
    BY <1>2, AboutOut
  <1>4. CountInv(c)'
    BY <1>1, <1>2, <1>3, CountSame DEF Counting, SameOwner
  <1>5. OutInv(c)'
    <2>1. Arming(c) /\ OutInv(c)
      BY <1>2 DEF Arming, Counting
    <2>2. "OUT" \in conn'[c].epoll_state
      BY <1>2
    <2> QED
      BY <1>2, <1>3, <2>1, <2>2 DEF OutInv, SameOwner, SameCounts
  <1> QED
    BY <1>1, <1>2, <1>4, <1>5, SubmitFrame

LEMMA CountingStep ==
    ASSUME Structure, Ownership, Counting, [Next]_vars
    PROVE  Counting'
  <1>0. ASSUME UNCHANGED <<conn, buf, queues, threads>> PROVE Counting'
    <2>1. \A d \in Conns : InFlight(d)' = InFlight(d)
      BY <1>0, IdleOwns DEF threads
    <2>2. UNCHANGED <<conn, empty_connections, io, sub, acc>>
      BY <1>0 DEF queues, threads
    <2> QED
      BY <2>1, <2>2, AboutOut, IdleCounts
  <1>1. ASSUME NEW a \in Acceptors, AcceptStep(a) PROVE Counting'
    BY <1>0, <1>1, AcceptCounts, AcceptInitCounts DEF AcceptStep, AcceptIdle, IdleReturn
  <1>2. ASSUME NEW w \in IOs, IOStep(w) PROVE Counting'
    <2>1. CASE EpollWait(w) \/ Dispatch(w) \/ IOIdle(w)
      BY <1>0, <2>1, PollCounts DEF IOIdle, IdleReturn
    <2>2. CASE RespTake(w) \/ RespSent(w) \/ RespUnlock(w) \/ ReqTake(w) \/ ReqPut(w) \/ FinishDrain(w)
      BY <2>2, RespTakeCounts, RespSentCounts, RespUnlockCounts, ReqTakeCounts, ReqPutCounts,
         FinishDrainCounts
    <2>3. CASE \/ RespLock(w) \/ Send(w) \/ Recv(w) \/ ReqLock(w) \/ ReqUnlock(w)
               \/ FinishTry(w) \/ FinishEnd(w)
      BY <2>3, HandlerCounts
    <2> QED
      BY <1>2, <2>1, <2>2, <2>3 DEF IOStep
  <1>3. ASSUME NEW x \in Computes, ComputeStep(x) PROVE Counting'
    BY <1>0, <1>3, ComputeCounts DEF ComputeStep, ComputeIdle, IdleReturn
  <1>4. ASSUME NEW s \in Submitters, SubmitStep(s) PROVE Counting'
    BY <1>0, <1>4, SubmitterCounts, SubmitPutCounts, SubmitArmCounts
       DEF SubmitStep, SubmitIdle, IdleReturn
  <1>5. ASSUME NEW k \in Clients, ClientStep(k) \/ ClientShutdown(k) PROVE Counting'
    <2>1. UNCHANGED server
      BY <1>5, ConnectDoes, ClientWriteDoes, ClientReadDoes, ClientCloseDoes, ClientShutdownDoes
         DEF ClientStep
    <2> QED
      BY <1>0, <2>1 DEF server
  <1>6. CASE Stop \/ Over \/ UNCHANGED vars
    BY <1>0, <1>6 DEF Stop, Over, vars
  <1> QED
    BY <1>1, <1>2, <1>3, <1>4, <1>5, <1>6 DEF Next
=============================================================================

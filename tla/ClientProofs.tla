---------------------------- MODULE ClientProofs ----------------------------
(***************************************************************************)
(* Proofs about Client for any workers, connections, message sizes, socket *)
(* buffer and number of requests, and for a server that may close or not.  *)
(* ClientInv ties the counters of a connection to the bytes on its wire,   *)
(* the epoll interest and the time stamps to the counters, the events a    *)
(* worker holds to its connections, and the start to the barrier.          *)
(***************************************************************************)
EXTENDS Client, FiniteSetTheorems, TLAPS

Unstarted == {"none", "created", "barrier"}
Serving   == {"wait", "dispatch", "output", "input"}
EndStates == {"reported", "failed", "crashed", "killed"}

Events == [conn : Conns, out : BOOLEAN, in : BOOLEAN]
WorkerType == [pc : Unstarted \cup {"epoll", "returned"} \cup Serving, ti : BOOLEAN,
               conn : Conns \cup {NULL}, in : BOOLEAN, events : SUBSET Events, ret : {0, -1}]
ConnType == [state : {"none", "open", "closed"}, epoll : SUBSET {"IN", "OUT"},
             sleft : 0 .. ReqLen, rleft : 0 .. RespLen,
             sent : Nat, received : Nat, total : Nat,
             started : BOOLEAN, ended : BOOLEAN]
NetType == [up : Nat, taken : Nat, down : Nat, read : Nat, closed : BOOLEAN, err : BOOLEAN]

\* Types.
Typed ==
    /\ main \in {"init", "start", "barrier", "watch", "cleanup", "stuck"} \cup EndStates
    /\ stopping \in BOOLEAN
    /\ worker \in [Workers -> WorkerType]
    /\ conn \in [Conns -> ConnType] /\ net \in [Conns -> NetType]

\* The bytes of a message of length size of which left are to come.
Partial(left, size) == IF left = 0 THEN 0 ELSE size - left

\* A connection c and its socket n.
OnWire(c, n) ==
    /\ n.up = c.sent * ReqLen + Partial(c.sleft, ReqLen)
    /\ n.read = c.received * RespLen + Partial(c.rleft, RespLen)
    /\ n.taken <= n.up /\ n.up <= n.taken + SockBuf
    /\ n.read <= n.down /\ n.down <= n.read + SockBuf
    /\ n.down <= (n.taken \div ReqLen) * RespLen
    /\ c.sent <= c.total /\ c.total <= Requests
    /\ c.sleft # 0 => c.sent < c.total

WireInv == \A k \in Conns : OnWire(conn[k], net[k])

\* The barrier: no worker serves before main has stored every ti.
StartInv ==
    /\ \A t \in Workers : worker[t].ti => worker[t].pc # "none"
    /\ \A t \in Workers : worker[t].pc \notin Unstarted => worker[t].ti
    /\ main = "barrier" => \A t \in Workers : worker[t].ti
    /\ main \in {"init", "start", "barrier", "cleanup", "stuck"} =>
         \A t \in Workers : worker[t].pc \in Unstarted
    /\ main \in {"watch", "reported", "crashed", "killed"} =>
         \A t \in Workers : worker[t].pc \notin Unstarted

\* Before its worker serves it a connection has carried nothing.
Fresh(c) ==
    /\ c.sent = 0 /\ c.received = 0 /\ c.sleft = 0 /\ c.rleft = 0 /\ ~c.started

\* A connection c of a worker w that serves: its epoll interest.
Interest(c) ==
    /\ c.sent < c.total => "OUT" \in c.epoll
    /\ c.received < c.total => "IN" \in c.epoll
    /\ c.sent = c.total /\ Requests # 0 => "OUT" \notin c.epoll

\* Requests answered in full carry both time stamps, unless the deadline came or
\* the worker w is about to take the second one.
Stamped(k, c, w) ==
    /\ c.sent > 0 => c.started
    /\ ~stopping /\ c.received = c.total /\ c.total > 0 =>
         c.ended \/ (w.pc = "input" /\ w.conn = k /\ c.rleft = 0)

ConnOK(k, c, w) ==
    /\ w.pc \in Unstarted \cup {"epoll"} =>
         Fresh(c) /\ (c.state = "none" \/ c.total = Requests) /\ (~Ended => c.state # "closed")
    /\ w.pc \in Serving => Interest(c)
    /\ ~Ended /\ w.pc \in Serving /\ c.epoll # {} => c.state = "open"
    /\ Stamped(k, c, w)
    /\ w.pc = "returned" => c.received = c.total \/ (w.ret # 0 /\ Fresh(c))
    /\ c.state = "none" => main \in {"init", "failed"}
    /\ ~stopping /\ c.state # "none" => c.total = Requests

ConnInv == \A k \in Conns : ConnOK(k, conn[k], worker[OwnerOf[k]])

\* A worker w holds events of its own connections, one of each; the one it
\* handles is open, and has something to send when output is handled.
Held(t, w) ==
    /\ w.pc \notin Serving \ {"wait"} => w.events = {}
    /\ w.pc \in Serving \ {"wait"} => Requests # 0
    /\ \A e \in w.events :
         /\ OwnerOf[e.conn] = t /\ (e.out \/ e.in)
         /\ e.out => conn[e.conn].sent < conn[e.conn].total
         /\ ~Ended => conn[e.conn].state = "open"
         /\ w.pc \in {"output", "input"} => e.conn # w.conn
    /\ \A e, f \in w.events : e.conn = f.conn => e = f
    /\ w.pc \in {"output", "input"} => /\ w.conn \in Conns /\ OwnerOf[w.conn] = t
                                       /\ ~Ended => conn[w.conn].state = "open"
    /\ w.pc = "output" => /\ conn[w.conn].sent < conn[w.conn].total
                          /\ conn[w.conn].started

WorkerInv == \A t \in Workers : Held(t, worker[t])

ClientInv == Typed /\ WireInv /\ StartInv /\ ConnInv /\ WorkerInv /\ StatsComplete

----------------------------------------------------------------------------
\* Arithmetic on messages and bytes

LEMMA Times ==
    ASSUME NEW a \in Int, NEW b \in Int, NEW m \in Nat \ {0}
    PROVE  /\ a * m < b * m => a < b
           /\ a * m <= b * m => a <= b
           /\ a <= b => a * m <= b * m
           /\ (a + 1) * m = a * m + m
           /\ a * m \in Int
  OBVIOUS

\* taken \div ReqLen is the number of whole requests among the bytes taken.
LEMMA WholeRequests ==
    ASSUME NEW taken \in Nat, NEW up \in Nat, NEW sent \in Nat, NEW m \in Nat \ {0},
           taken <= up, up < (sent + 1) * m
    PROVE  taken \div m \in Nat /\ taken \div m <= sent
  <1>1. taken \div m \in Nat /\ (taken \div m) * m <= taken
    OBVIOUS
  <1>2. (taken \div m) * m < (sent + 1) * m
    BY <1>1, Times
  <1> QED
    BY <1>1, <1>2, Times

\* No response is received, and none begun, before its request is sent.
LEMMA AnsweredAtMost ==
    ASSUME NEW c \in ConnType, NEW n \in NetType, OnWire(c, n)
    PROVE  /\ c.received <= c.sent
           /\ c.rleft \notin {0, RespLen} => c.received < c.sent
  <1>1. ReqLen \in Nat \ {0} /\ RespLen \in Nat \ {0}
    BY ClientAssumption
  <1>2. Partial(c.sleft, ReqLen) \in 0 .. ReqLen - 1 /\ Partial(c.rleft, RespLen) \in 0 .. RespLen - 1
        /\ (c.rleft \notin {0, RespLen} => Partial(c.rleft, RespLen) > 0)
    BY <1>1 DEF Partial, ConnType
  <1>3. n.up < (c.sent + 1) * ReqLen
    BY <1>1, <1>2, Times DEF OnWire, ConnType, NetType
  <1>4. n.taken \div ReqLen \in Nat /\ n.taken \div ReqLen <= c.sent
    BY <1>1, <1>3, WholeRequests DEF OnWire, ConnType, NetType
  <1>5. (n.taken \div ReqLen) * RespLen <= c.sent * RespLen
    BY <1>1, <1>4, Times DEF ConnType
  <1>6. n.read <= c.sent * RespLen
    BY <1>1, <1>4, <1>5, Times DEF OnWire, ConnType, NetType
  <1>7. c.received * RespLen + Partial(c.rleft, RespLen) <= c.sent * RespLen
    BY <1>6 DEF OnWire
  <1>8. c.received * RespLen <= c.sent * RespLen
    BY <1>1, <1>2, <1>7, Times DEF ConnType
  <1>9. c.rleft \notin {0, RespLen} => c.received * RespLen < c.sent * RespLen
    BY <1>1, <1>2, <1>7, Times DEF ConnType
  <1> QED
    BY <1>1, <1>8, <1>9, Times DEF ConnType

\* A connection that has nothing to come, or has carried nothing, is answered.
LEMMA NothingOwed ==
    ASSUME NEW c \in ConnType, NEW n \in NetType, OnWire(c, n),
           c.received = c.total \/ Fresh(c)
    PROVE  n.up * RespLen = n.read * ReqLen
  <1>1. ReqLen \in Nat \ {0} /\ RespLen \in Nat \ {0}
    BY ClientAssumption
  <1>2. c.received = c.sent /\ c.sleft = 0 /\ c.rleft \in {0, RespLen}
    BY AnsweredAtMost DEF OnWire, Fresh, ConnType
  <1>3. n.up = c.sent * ReqLen /\ n.read = c.sent * RespLen
    BY <1>1, <1>2, Times DEF OnWire, Partial, ConnType
  <1> QED
    BY <1>1, <1>3 DEF ConnType

----------------------------------------------------------------------------
LEMMA InitInvariant == Init => ClientInv
  <1> SUFFICES ASSUME Init PROVE ClientInv
    OBVIOUS
  <1>1. Typed
    <2>1. worker \in [Workers -> WorkerType]
      BY DEF Init, WorkerType, Unstarted
    <2>2. ReqLen \in Nat /\ RespLen \in Nat
      BY ClientAssumption
    <2>3. conn \in [Conns -> ConnType]
      BY <2>2 DEF Init, ConnType
    <2>4. net \in [Conns -> NetType]
      BY DEF Init, NetType
    <2> QED
      BY <2>1, <2>3, <2>4 DEF Init, Typed
  <1>2. ASSUME NEW k \in Conns
        PROVE  OnWire(conn[k], net[k]) /\ ConnOK(k, conn[k], worker[OwnerOf[k]])
    <2>1. conn[k] = [state |-> "none", epoll |-> {}, sleft |-> 0, rleft |-> 0, sent |-> 0,
                     received |-> 0, total |-> 0, started |-> FALSE, ended |-> FALSE]
      BY <1>2 DEF Init
    <2>2. net[k] = [up |-> 0, taken |-> 0, down |-> 0, read |-> 0, closed |-> FALSE, err |-> FALSE]
      BY <1>2 DEF Init
    <2>3. worker[OwnerOf[k]].pc = "none" /\ main = "init"
      BY <1>2, ClientAssumption DEF Init
    <2>4. OnWire(conn[k], net[k])
      BY <2>1, <2>2, ClientAssumption DEF OnWire, Partial
    <2>5. ConnOK(k, conn[k], worker[OwnerOf[k]])
      BY <2>1, <2>3 DEF ConnOK, Unstarted, Serving, Fresh, Stamped
    <2> QED
      BY <2>4, <2>5
  <1>3. ASSUME NEW t \in Workers PROVE Held(t, worker[t])
    <2>1. worker[t].pc = "none" /\ worker[t].events = {}
      BY <1>3 DEF Init
    <2> QED
      BY <2>1 DEF Held, Serving
  <1>4. StartInv /\ StatsComplete
    BY DEF Init, StartInv, Unstarted, StatsComplete
  <1> QED
    BY <1>1, <1>2, <1>3, <1>4 DEF ClientInv, WireInv, ConnInv, WorkerInv

\* What a step leaves alone keeps its part of the invariant.
LEMMA ConnFrame ==
    ASSUME NEW k \in Conns, ConnOK(k, conn[k], worker[OwnerOf[k]]),
           conn'[k] = conn[k], worker'[OwnerOf[k]] = worker[OwnerOf[k]],
           stopping' \in {stopping, TRUE}, conn[k].state = "none" => main' \in {"init", "failed"},
           Ended => Ended'
    PROVE  ConnOK(k, conn[k], worker[OwnerOf[k]])'
  BY DEF ConnOK, Stamped

LEMMA HeldFrame ==
    ASSUME NEW t \in Workers, Held(t, worker[t]), worker[t] \in WorkerType, worker'[t] = worker[t],
           \A k \in Conns : OwnerOf[k] = t => conn'[k] = conn[k],
           Ended => Ended'
    PROVE  Held(t, worker[t])'
  <1>1. \A e \in worker[t].events : e.conn \in Conns
    BY DEF WorkerType, Events
  <1> QED
    BY <1>1 DEF Held

\* Steps of main that leave connections and workers alone.
LEMMA MainMoves ==
    ASSUME ClientInv, UNCHANGED <<worker, conn, net>>, ~Ended, ~Ended',
           main' \in {"start", "barrier", "watch", "cleanup", "stuck"},
           stopping' \in {stopping, TRUE},
           \A k \in Conns : conn[k].state # "none",
           StartInv'
    PROVE  ClientInv'
  <1>1. Typed' /\ WireInv' /\ StatsComplete'
    BY DEF ClientInv, Typed, WireInv, StatsComplete
  <1>2. ConnInv'
    BY ConnFrame, ClientAssumption DEF ClientInv, ConnInv
  <1>3. WorkerInv'
    BY HeldFrame DEF ClientInv, WorkerInv, Typed
  <1> QED
    BY <1>1, <1>2, <1>3 DEF ClientInv

LEMMA PreparedInv == ASSUME ClientInv, Prepared PROVE ClientInv'
  <1>1. main = "init" /\ main' = "start" /\ \A k \in Conns : conn[k].state # "none"
    BY DEF Prepared
  <1>2. StartInv'
    BY <1>1 DEF Prepared, ClientInv, StartInv
  <1> QED
    BY <1>1, <1>2, MainMoves DEF Prepared, Ended

LEMMA CreateFailInv == ASSUME ClientInv, CreateFail PROVE ClientInv'
  <1>1. main = "start" /\ main' = "cleanup" /\ \A k \in Conns : conn[k].state # "none"
    BY DEF CreateFail, ClientInv, ConnInv, ConnOK
  <1>2. StartInv'
    BY <1>1 DEF CreateFail, ClientInv, StartInv
  <1> QED
    BY <1>1, <1>2, MainMoves DEF CreateFail, Ended

LEMMA MainArrivesInv == ASSUME ClientInv, MainArrives PROVE ClientInv'
  <1>1. main = "start" /\ main' = "barrier" /\ \A k \in Conns : conn[k].state # "none"
    BY DEF MainArrives, ClientInv, ConnInv, ConnOK
  <1>2. StartInv'
    BY <1>1 DEF MainArrives, ClientInv, StartInv
  <1> QED
    BY <1>1, <1>2, MainMoves DEF MainArrives, Ended

LEMMA DeadlineInv == ASSUME ClientInv, Deadline PROVE ClientInv'
  <1>1. main = "watch" /\ main' = "watch" /\ \A k \in Conns : conn[k].state # "none"
    BY DEF Deadline, ClientInv, ConnInv, ConnOK
  <1>2. StartInv'
    BY <1>1 DEF Deadline, ClientInv, StartInv
  <1> QED
    BY <1>1, <1>2, MainMoves DEF Deadline, Ended

\* Closing a connection changes nothing else of it.
LEMMA ClosedConn ==
    ASSUME NEW c \in ConnType
    PROVE  LET d == [c EXCEPT !.state = "closed"]
           IN  /\ d.epoll = c.epoll /\ d.sleft = c.sleft /\ d.rleft = c.rleft
               /\ d.sent = c.sent /\ d.received = c.received /\ d.total = c.total
               /\ d.started = c.started /\ d.ended = c.ended /\ d.state = "closed"
               /\ d \in ConnType
  BY DEF ConnType

LEMMA CleanedFields ==
    ASSUME Typed, conn' = Cleaned, NEW k \in Conns
    PROVE  LET c == conn[k]  d == conn'[k]
           IN  /\ d.epoll = c.epoll /\ d.sleft = c.sleft /\ d.rleft = c.rleft
               /\ d.sent = c.sent /\ d.received = c.received /\ d.total = c.total
               /\ d.started = c.started /\ d.ended = c.ended
               /\ (d.state = "none" <=> c.state = "none") /\ d.state # "open"
               /\ d \in ConnType
  <1>1. conn'[k] = IF conn[k].state = "open" THEN [conn[k] EXCEPT !.state = "closed"] ELSE conn[k]
    BY DEF Cleaned
  <1>2. conn[k] \in ConnType
    BY DEF Typed
  <1>3. CASE conn[k].state = "open"
    BY <1>1, <1>2, <1>3, ClosedConn
  <1>4. CASE conn[k].state # "open"
    BY <1>1, <1>2, <1>4
  <1> QED
    BY <1>3, <1>4

\* The end of the process closes what is open and ends the workers' steps.
LEMMA CleanedInv ==
    ASSUME ClientInv, ~Ended, main' \in EndStates, conn' = Cleaned,
           UNCHANGED <<stopping, worker, net>>,
           main # "init" \/ main' = "failed", StartInv', StatsComplete'
    PROVE  ClientInv'
  <1>1. Typed
    BY DEF ClientInv
  <1>2. Typed'
    <2>1. conn' \in [Conns -> ConnType]
      BY <1>1, CleanedFields DEF Cleaned
    <2> QED
      BY <2>1 DEF ClientInv, Typed
  <1>3. WireInv'
    BY <1>1, CleanedFields DEF ClientInv, WireInv, OnWire
  <1>4. Ended'
    BY DEF Ended, EndStates
  <1>5. ConnInv'
    <2> SUFFICES ASSUME NEW k \in Conns PROVE ConnOK(k, conn[k], worker[OwnerOf[k]])'
      BY DEF ConnInv
    <2>1. ConnOK(k, conn[k], worker[OwnerOf[k]])
      BY DEF ClientInv, ConnInv
    <2> QED
      BY <1>1, <1>4, <2>1, CleanedFields DEF ConnOK, Fresh, Interest, Stamped, Ended
  <1>6. WorkerInv'
    <2> SUFFICES ASSUME NEW t \in Workers PROVE Held(t, worker[t])'
      BY DEF WorkerInv
    <2>1. Held(t, worker[t]) /\ \A e \in worker[t].events : e.conn \in Conns
      BY DEF ClientInv, WorkerInv, Typed, WorkerType, Events
    <2> QED
      BY <1>1, <1>4, <2>1, CleanedFields DEF Held
  <1> QED
    BY <1>2, <1>3, <1>5, <1>6 DEF ClientInv

LEMMA InitFailInv == ASSUME ClientInv, InitFail PROVE ClientInv'
  <1>1. main = "init" /\ main' = "failed"
    BY DEF InitFail
  <1>2. StartInv' /\ StatsComplete'
    BY <1>1 DEF InitFail, ClientInv, StartInv, StatsComplete
  <1> QED
    BY <1>1, <1>2, CleanedInv DEF InitFail, Ended, EndStates

LEMMA CleanupStartedInv == ASSUME ClientInv, CleanupStarted PROVE ClientInv'
  <1>1. CASE main' = "failed" /\ conn' = Cleaned
    <2>1. StartInv' /\ StatsComplete'
      BY <1>1 DEF CleanupStarted, ClientInv, StartInv, StatsComplete
    <2> QED
      BY <1>1, <2>1, CleanedInv DEF CleanupStarted, Ended, EndStates
  <1>2. CASE main' = "stuck" /\ UNCHANGED conn
    <2>1. main = "cleanup" /\ \A k \in Conns : conn[k].state # "none"
      BY DEF CleanupStarted, ClientInv, ConnInv, ConnOK
    <2>2. StartInv'
      BY <1>2, <2>1 DEF CleanupStarted, ClientInv, StartInv
    <2> QED
      BY <1>2, <2>1, <2>2, MainMoves DEF CleanupStarted, Ended
  <1> QED
    BY <1>1, <1>2 DEF CleanupStarted

\* What a worker has done by the time it returns.
LEMMA FinishInv == ASSUME ClientInv, Finish PROVE ClientInv'
  <1>1. /\ main = "watch" /\ main' \in {"failed", "crashed", "reported"} /\ ThreadsDone
        /\ conn' = Cleaned /\ UNCHANGED <<stopping, worker, net>>
    BY DEF Finish
  <1>2. StartInv'
    BY <1>1 DEF ClientInv, StartInv
  <1>3. ASSUME main' = "reported", ~stopping, NEW k \in Conns
        PROVE  conn[k].started /\ conn[k].ended /\ conn[k].received = Requests
    <2>1. conn[k] \in ConnType /\ OnWire(conn[k], net[k])
          /\ ConnOK(k, conn[k], worker[OwnerOf[k]]) /\ OwnerOf[k] \in Workers
      BY ClientAssumption DEF ClientInv, Typed, WireInv, ConnInv
    <2>2. worker[OwnerOf[k]].pc = "returned" /\ worker[OwnerOf[k]].ret = 0
      BY <1>1, <1>3, <2>1 DEF Finish, JoinFails, ThreadsDone
    <2>3. conn[k].received = conn[k].total /\ conn[k].total = Requests
      BY <1>1, <1>3, <2>1, <2>2 DEF ConnOK
    <2>4. Requests > 0
      <3>1. PICK j \in Conns : conn[j].sent # 0
        BY <1>3 DEF Finish, NothingSent
      <3>2. conn[j].sent \in Nat /\ conn[j].total \in Nat
            /\ conn[j].sent <= conn[j].total /\ conn[j].total <= Requests
        BY DEF ClientInv, Typed, ConnType, WireInv, OnWire
      <3> QED
        BY <3>1, <3>2, ClientAssumption
    <2>5. conn[k].sent > 0
      BY <2>1, <2>3, <2>4, AnsweredAtMost, ClientAssumption DEF ClientInv, Typed, ConnType
    <2> QED
      BY <1>3, <2>1, <2>2, <2>3, <2>4, <2>5 DEF ConnOK, Stamped
  <1>4. StatsComplete'
    <2> SUFFICES ASSUME main' = "reported", ~stopping', NEW k \in Conns
                 PROVE  conn'[k].started /\ conn'[k].ended /\ conn'[k].received = Requests
      BY DEF StatsComplete
    <2>1. conn[k].started /\ conn[k].ended /\ conn[k].received = Requests
      BY <1>1, <1>3
    <2> QED
      BY <1>1, <2>1, CleanedFields DEF ClientInv
  <1> QED
    BY <1>1, <1>2, <1>4, CleanedInv DEF Ended, EndStates

LEMMA KilledInv == ASSUME ClientInv, ~Ended, NEW t \in Workers, Killed(t) PROVE ClientInv'
  <1>1. worker[t].pc = "output" /\ main' = "killed" /\ conn' = Cleaned
        /\ UNCHANGED <<stopping, worker, net>>
    BY DEF Killed
  <1>2. main = "watch"
    BY <1>1 DEF ClientInv, Typed, StartInv, Unstarted, Ended, EndStates
  <1>3. StartInv' /\ StatsComplete'
    BY <1>1, <1>2 DEF ClientInv, StartInv, StatsComplete
  <1> QED
    BY <1>1, <1>2, <1>3, CleanedInv DEF EndStates

----------------------------------------------------------------------------
\* The workers

\* A step that concerns worker t and its connections alone.
LEMMA WorkerChanges ==
    ASSUME ClientInv, ~Ended, UNCHANGED <<main, stopping>>, NEW t \in Workers,
           \A u \in Workers \ {t} : worker'[u] = worker[u],
           \A j \in Conns : OwnerOf[j] # t => conn'[j] = conn[j] /\ net'[j] = net[j],
           Typed',
           \A j \in Conns : OwnerOf[j] = t => /\ OnWire(conn'[j], net'[j])
                                            /\ ConnOK(j, conn'[j], worker'[t]),
           Held(t, worker[t])', StartInv'
    PROVE  ClientInv'
  <1>1. Ended' = Ended
    BY DEF Ended
  <1>2. WireInv'
    BY DEF ClientInv, WireInv
  <1>3. ASSUME NEW j \in Conns PROVE ConnOK(j, conn[j], worker[OwnerOf[j]])'
    <2>1. CASE OwnerOf[j] = t
      BY <1>1, <2>1 DEF ConnOK, Stamped
    <2>2. CASE OwnerOf[j] # t
      <3>1. worker'[OwnerOf[j]] = worker[OwnerOf[j]] /\ conn'[j] = conn[j]
        BY <2>2, ClientAssumption
      <3> QED
        BY <1>1, <3>1, ConnFrame DEF ClientInv, ConnInv, ConnOK
    <2> QED
      BY <2>1, <2>2
  <1>4. ASSUME NEW u \in Workers PROVE Held(u, worker[u])'
    <2>1. CASE u # t
      BY <1>1, <2>1, HeldFrame DEF ClientInv, WorkerInv, Typed
    <2> QED
      BY <2>1
  <1>5. StatsComplete'
    BY DEF StatsComplete, Ended
  <1> QED
    BY <1>2, <1>3, <1>4, <1>5 DEF ClientInv, ConnInv, WorkerInv

\* A connection the serving worker is not at does not notice it move on.
LEMMA Sibling ==
    ASSUME NEW j \in Conns, NEW c, NEW w, NEW v, ConnOK(j, c, w),
           w.pc \in Serving, v.pc \in Serving,
           w.pc = "input" /\ w.conn = j => v.pc = "input" /\ v.conn = j
    PROVE  ConnOK(j, c, v)
  BY DEF ConnOK, Stamped, Serving, Unstarted

\* What is known of a worker and of a connection.
LEMMA WorkerFacts ==
    ASSUME ClientInv, NEW t \in Workers
    PROVE  worker[t] \in WorkerType /\ Held(t, worker[t])
  BY DEF ClientInv, Typed, WorkerInv

LEMMA ConnFacts ==
    ASSUME ClientInv, NEW k \in Conns
    PROVE  /\ conn[k] \in ConnType /\ net[k] \in NetType /\ OwnerOf[k] \in Workers
           /\ OnWire(conn[k], net[k]) /\ ConnOK(k, conn[k], worker[OwnerOf[k]])
  BY ClientAssumption DEF ClientInv, Typed, WireInv, ConnInv

\* Worker t becomes w, and nothing else changes.
LEMMA WorkerMoves ==
    ASSUME ClientInv, ~Ended, NEW t \in Workers, NEW w \in WorkerType,
           worker' = [worker EXCEPT ![t] = w], UNCHANGED <<main, stopping, conn, net>>,
           \A j \in Conns : OwnerOf[j] = t => ConnOK(j, conn[j], w),
           Held(t, w), StartInv'
    PROVE  ClientInv'
  <1>1. worker'[t] = w /\ worker' \in [Workers -> WorkerType]
        /\ \A u \in Workers \ {t} : worker'[u] = worker[u]
    BY DEF ClientInv, Typed
  <1>2. Typed'
    BY <1>1 DEF ClientInv, Typed
  <1>3. Held(t, worker[t])'
    BY <1>1 DEF Held, Ended
  <1>4. \A j \in Conns : OwnerOf[j] = t => /\ OnWire(conn'[j], net'[j])
                                         /\ ConnOK(j, conn'[j], worker'[t])
    BY <1>1, ConnFacts
  <1> QED
    BY <1>1, <1>2, <1>3, <1>4, WorkerChanges

LEMMA ArrivesInv == ASSUME ClientInv, ~Ended, NEW t \in Workers, Arrives(t) PROVE ClientInv'
  <1> DEFINE w == [worker[t] EXCEPT !.pc = "barrier"]
  <1>1. /\ worker[t].pc = "created" /\ worker' = [worker EXCEPT ![t] = w]
        /\ UNCHANGED <<main, stopping, conn, net>>
    BY DEF Arrives
  <1>2. /\ w \in WorkerType /\ w.pc = "barrier" /\ w.ti = worker[t].ti
        /\ w.events = worker[t].events /\ worker'[t] = w
    BY <1>1, WorkerFacts DEF WorkerType, Unstarted, ClientInv, Typed
  <1> HIDE DEF w
  <1>3. StartInv'
    BY <1>1, <1>2 DEF ClientInv, StartInv, Unstarted, Typed
  <1>4. Held(t, w)
    BY <1>1, <1>2, WorkerFacts DEF Held, Serving
  <1>5. ASSUME NEW j \in Conns, OwnerOf[j] = t PROVE ConnOK(j, conn[j], w)
    <2>1. ConnOK(j, conn[j], worker[t])
      BY <1>5, ConnFacts
    <2> QED
      BY <1>1, <1>2, <2>1 DEF ConnOK, Stamped, Unstarted, Serving
  <1> QED
    BY <1>1, <1>2, <1>3, <1>4, <1>5, WorkerMoves

LEMMA CreateThreadInv == ASSUME ClientInv, NEW t \in Workers, CreateThread(t) PROVE ClientInv'
  <1> DEFINE w == [worker[t] EXCEPT !.pc = "created"]
  <1>1. /\ worker[t].pc = "none" /\ worker' = [worker EXCEPT ![t] = w] /\ main = "start"
        /\ UNCHANGED <<main, stopping, conn, net>>
    BY DEF CreateThread
  <1>2. /\ w \in WorkerType /\ w.pc = "created" /\ w.ti = worker[t].ti
        /\ w.events = worker[t].events /\ worker'[t] = w
    BY <1>1, WorkerFacts DEF WorkerType, Unstarted, ClientInv, Typed
  <1> HIDE DEF w
  <1>3. StartInv'
    BY <1>1, <1>2 DEF ClientInv, StartInv, Unstarted, Typed
  <1>4. Held(t, w)
    BY <1>1, <1>2, WorkerFacts DEF Held, Serving
  <1>5. ASSUME NEW j \in Conns, OwnerOf[j] = t PROVE ConnOK(j, conn[j], w)
    <2>1. ConnOK(j, conn[j], worker[t])
      BY <1>5, ConnFacts
    <2> QED
      BY <1>1, <1>2, <2>1 DEF ConnOK, Stamped, Unstarted, Serving
  <1> QED
    BY <1>1, <1>2, <1>3, <1>4, <1>5, WorkerMoves DEF Ended

LEMMA StoreTiInv == ASSUME ClientInv, NEW t \in Workers, StoreTi(t) PROVE ClientInv'
  <1> DEFINE w == [worker[t] EXCEPT !.ti = TRUE]
  <1>1. /\ worker[t].pc # "none" /\ worker' = [worker EXCEPT ![t] = w] /\ main = "start"
        /\ UNCHANGED <<main, stopping, conn, net>>
    BY DEF StoreTi, Storing
  <1>2. /\ w \in WorkerType /\ w.pc = worker[t].pc /\ w.ti = TRUE /\ w.conn = worker[t].conn
        /\ w.events = worker[t].events /\ w.ret = worker[t].ret /\ worker'[t] = w
    BY <1>1, WorkerFacts DEF WorkerType, ClientInv, Typed
  <1> HIDE DEF w
  <1>3. StartInv'
    BY <1>1, <1>2 DEF ClientInv, StartInv, Typed
  <1>4. Held(t, w)
    BY <1>2, WorkerFacts DEF Held
  <1>5. ASSUME NEW j \in Conns, OwnerOf[j] = t PROVE ConnOK(j, conn[j], w)
    <2>1. ConnOK(j, conn[j], worker[t])
      BY <1>5, ConnFacts
    <2> QED
      BY <1>2, <2>1 DEF ConnOK, Stamped
  <1> QED
    BY <1>1, <1>2, <1>3, <1>4, <1>5, WorkerMoves DEF Ended

LEMMA InitEpollFailInv ==
    ASSUME ClientInv, ~Ended, NEW t \in Workers, InitEpollFail(t)
    PROVE  ClientInv'
  <1> DEFINE w == [worker[t] EXCEPT !.pc = "returned", !.ret = -1]
  <1>1. /\ worker[t].pc = "epoll" /\ worker' = [worker EXCEPT ![t] = w]
        /\ UNCHANGED <<main, stopping, conn, net>>
    BY DEF InitEpollFail
  <1>2. /\ w \in WorkerType /\ w.pc = "returned" /\ w.ti = worker[t].ti /\ w.ret = -1
        /\ w.events = worker[t].events /\ worker'[t] = w
    BY <1>1, WorkerFacts DEF WorkerType, ClientInv, Typed
  <1> HIDE DEF w
  <1>3. StartInv'
    BY <1>1, <1>2 DEF ClientInv, StartInv, Unstarted, Typed
  <1>4. Held(t, w)
    BY <1>1, <1>2, WorkerFacts DEF Held, Serving
  <1>5. ASSUME NEW j \in Conns, OwnerOf[j] = t PROVE ConnOK(j, conn[j], w)
    <2>1. ConnOK(j, conn[j], worker[t]) /\ -1 # 0
      BY <1>5, ConnFacts
    <2> QED
      BY <1>1, <1>2, <2>1 DEF ConnOK, Stamped, Unstarted, Serving
  <1> QED
    BY <1>1, <1>2, <1>3, <1>4, <1>5, WorkerMoves

\* The worker returns when all its connections have their responses.
LEMMA WorkerReturnInv ==
    ASSUME ClientInv, ~Ended, NEW t \in Workers, WorkerReturn(t)
    PROVE  ClientInv'
  <1> DEFINE w == [worker[t] EXCEPT !.pc = "returned"]
  <1>1. /\ worker[t].pc = "wait" /\ worker' = [worker EXCEPT ![t] = w]
        /\ \A k \in Conns : OwnerOf[k] = t => ~Active(k)
        /\ UNCHANGED <<main, stopping, conn, net>>
    BY DEF WorkerReturn, Mine
  <1>2. /\ w \in WorkerType /\ w.pc = "returned" /\ w.ti = worker[t].ti
        /\ w.events = worker[t].events /\ worker'[t] = w
    BY <1>1, WorkerFacts DEF WorkerType, ClientInv, Typed
  <1> HIDE DEF w
  <1>3. StartInv'
    BY <1>1, <1>2 DEF ClientInv, StartInv, Unstarted, Typed
  <1>4. Held(t, w)
    BY <1>1, <1>2, WorkerFacts DEF Held, Serving
  <1>5. ASSUME NEW j \in Conns, OwnerOf[j] = t PROVE ConnOK(j, conn[j], w)
    <2>1. ConnOK(j, conn[j], worker[t]) /\ conn[j] \in ConnType /\ OnWire(conn[j], net[j])
          /\ net[j] \in NetType
      BY <1>5, ConnFacts
    <2>2. conn[j].received >= conn[j].total
      BY <1>1, <1>5, <2>1 DEF Active, ConnType
    <2>3. conn[j].received = conn[j].total
      BY <2>1, <2>2, AnsweredAtMost DEF OnWire, ConnType
    <2> QED
      BY <1>1, <1>2, <2>1, <2>3 DEF ConnOK, Stamped, Unstarted, Serving
  <1> QED
    BY <1>1, <1>2, <1>3, <1>4, <1>5, WorkerMoves

LEMMA InitEpollInv == ASSUME ClientInv, ~Ended, NEW t \in Workers, InitEpoll(t) PROVE ClientInv'
  <1> DEFINE w == [worker[t] EXCEPT !.pc = "wait"]
  <1>1. /\ worker[t].pc = "epoll" /\ worker' = [worker EXCEPT ![t] = w]
        /\ conn' = [k \in Conns |-> IF OwnerOf[k] = t
                                    THEN [conn[k] EXCEPT !.epoll = {"IN", "OUT"}] ELSE conn[k]]
        /\ UNCHANGED <<main, stopping, net>>
    BY DEF InitEpoll, Mine
  <1>2. /\ w \in WorkerType /\ w.pc = "wait" /\ w.ti = worker[t].ti
        /\ w.events = worker[t].events /\ worker'[t] = w
        /\ worker' \in [Workers -> WorkerType] /\ \A u \in Workers \ {t} : worker'[u] = worker[u]
    BY <1>1, WorkerFacts DEF WorkerType, Serving, ClientInv, Typed
  <1> HIDE DEF w
  <1>3. ASSUME NEW j \in Conns, OwnerOf[j] = t
        PROVE  /\ conn'[j] \in ConnType /\ OnWire(conn'[j], net'[j])
               /\ ConnOK(j, conn'[j], worker'[t])
    <2> DEFINE c == conn[j]
               d == [conn[j] EXCEPT !.epoll = {"IN", "OUT"}]
    <2>1. /\ c \in ConnType /\ OnWire(c, net[j]) /\ ConnOK(j, c, worker[t])
          /\ conn'[j] = d
      BY <1>1, <1>3, ConnFacts
    <2>2. /\ d \in ConnType /\ d.state = c.state /\ d.sleft = c.sleft /\ d.rleft = c.rleft
          /\ d.sent = c.sent /\ d.received = c.received /\ d.total = c.total
          /\ d.started = c.started /\ d.ended = c.ended /\ d.epoll = {"IN", "OUT"}
      BY <2>1 DEF ConnType
    <2> HIDE DEF c, d
    <2>3. OnWire(d, net[j])
      BY <2>1, <2>2 DEF OnWire
    <2>4. Fresh(c) /\ c.state = "open" /\ c.total = Requests
      <3>1. main # "init" /\ main # "failed"
        BY <1>1 DEF ClientInv, StartInv, Unstarted, Ended
      <3> QED
        BY <1>1, <2>1, <3>1 DEF ConnOK, ConnType
    <2>5. ConnOK(j, d, w)
      BY <1>2, <2>2, <2>4 DEF ConnOK, Stamped, Interest, Fresh, Serving, Unstarted
    <2> QED
      BY <1>1, <1>2, <2>1, <2>2, <2>3, <2>5
  <1>4. Typed'
    <2>1. \A j \in Conns : conn'[j] \in ConnType
      BY <1>1, <1>3, ConnFacts
    <2>2. conn' \in [Conns -> ConnType]
      BY <1>1, <2>1
    <2> QED
      BY <1>1, <1>2, <2>2 DEF ClientInv, Typed
  <1>5. StartInv'
    BY <1>1, <1>2 DEF ClientInv, StartInv, Unstarted, Typed
  <1>6. Held(t, worker[t])'
    BY <1>1, <1>2, WorkerFacts DEF Held, Serving
  <1> QED
    BY <1>1, <1>2, <1>3, <1>4, <1>5, <1>6, WorkerChanges

\* epoll_wait reports each connection at most once, and output only where
\* requests are left to send.
LEMMA EpollWaitInv == ASSUME ClientInv, ~Ended, NEW t \in Workers, EpollWait(t) PROVE ClientInv'
  <1> PICK E \in SUBSET Ready(t) :
        worker' = [worker EXCEPT ![t].pc = "dispatch", ![t].events = E]
    BY DEF EpollWait
  <1> DEFINE w == [worker[t] EXCEPT !.pc = "dispatch", !.events = E]
  <1>1. /\ worker[t].pc = "wait" /\ worker' = [worker EXCEPT ![t] = w]
        /\ \E k \in Conns : OwnerOf[k] = t /\ Active(k)
        /\ UNCHANGED <<main, stopping, conn, net>>
    BY DEF EpollWait, Mine
  <1>2. ASSUME NEW e \in Ready(t)
        PROVE  /\ e \in Events /\ e.conn \in Conns /\ OwnerOf[e.conn] = t /\ e = Event(e.conn)
               /\ (e.out \/ e.in) /\ (e.out => "OUT" \in conn[e.conn].epoll)
               /\ conn[e.conn].epoll # {}
    <2>1. PICK k \in Conns : OwnerOf[k] = t /\ e = Event(k) /\ (e.out \/ e.in)
      BY DEF Ready, Mine
    <2>2. e.conn = k /\ e \in Events
      BY <2>1 DEF Event, Events
    <2>3. (e.out => "OUT" \in conn[k].epoll) /\ (e.in => "IN" \in conn[k].epoll)
      BY <2>1 DEF Event
    <2> QED
      BY <2>1, <2>2, <2>3
  <1>3. /\ w \in WorkerType /\ w.pc = "dispatch" /\ w.ti = worker[t].ti
        /\ w.events = E /\ worker'[t] = w
    <2>1. E \in SUBSET Events
      BY <1>2
    <2> QED
      BY <1>1, <2>1, WorkerFacts DEF WorkerType, Serving, ClientInv, Typed
  <1> HIDE DEF w
  <1>4. StartInv'
    BY <1>1, <1>3 DEF ClientInv, StartInv, Unstarted, Typed
  <1>5. Requests # 0
    <2>1. PICK k \in Conns : Active(k)
      BY <1>1
    <2>2. conn[k] \in ConnType /\ OnWire(conn[k], net[k])
      BY ConnFacts
    <2> QED
      BY <2>1, <2>2, ClientAssumption DEF Active, OnWire, ConnType
  <1>6. ASSUME NEW e \in Ready(t)
        PROVE  /\ e.out => conn[e.conn].sent < conn[e.conn].total
               /\ conn[e.conn].state = "open"
    <2> DEFINE c == conn[e.conn]
    <2>1. c \in ConnType /\ OnWire(c, net[e.conn]) /\ ConnOK(e.conn, c, worker[t])
      BY <1>2, ConnFacts
    <2> QED
      BY <1>1, <1>2, <1>5, <2>1 DEF ConnOK, Interest, Serving, OnWire, ConnType
  <1>7. Held(t, w)
    BY <1>2, <1>3, <1>5, <1>6 DEF Held, Serving
  <1>8. ASSUME NEW j \in Conns, OwnerOf[j] = t PROVE ConnOK(j, conn[j], w)
    <2>1. ConnOK(j, conn[j], worker[t])
      BY <1>8, ConnFacts
    <2> QED
      BY <1>1, <1>3, <2>1, Sibling DEF Serving
  <1> QED
    BY <1>1, <1>3, <1>4, <1>7, <1>8, WorkerMoves

\* The end of a batch of events.
LEMMA BatchDoneInv ==
    ASSUME ClientInv, ~Ended, NEW t \in Workers, Dispatch(t), worker[t].events = {}
    PROVE  ClientInv'
  <1> DEFINE w == [worker[t] EXCEPT !.pc = "wait", !.conn = NULL]
  <1>1. /\ worker[t].pc = "dispatch" /\ worker' = [worker EXCEPT ![t] = w]
        /\ UNCHANGED <<main, stopping, conn, net>>
    BY DEF Dispatch
  <1>2. /\ w \in WorkerType /\ w.pc = "wait" /\ w.ti = worker[t].ti
        /\ w.events = {} /\ worker'[t] = w
    BY <1>1, WorkerFacts DEF WorkerType, Serving, ClientInv, Typed
  <1> HIDE DEF w
  <1>3. StartInv'
    BY <1>1, <1>2 DEF ClientInv, StartInv, Unstarted, Typed
  <1>4. Held(t, w)
    BY <1>2 DEF Held, Serving
  <1>5. ASSUME NEW j \in Conns, OwnerOf[j] = t PROVE ConnOK(j, conn[j], w)
    <2>1. ConnOK(j, conn[j], worker[t])
      BY <1>5, ConnFacts
    <2> QED
      BY <1>1, <1>2, <2>1, Sibling DEF Serving
  <1> QED
    BY <1>1, <1>2, <1>3, <1>4, <1>5, WorkerMoves

\* A worker at connection k becomes w, and the connection d with the socket n.
LEMMA WorkerServes ==
    ASSUME ClientInv, ~Ended, NEW k \in Conns, NEW w \in WorkerType, NEW d \in ConnType,
           NEW n \in NetType,
           worker' = [worker EXCEPT ![OwnerOf[k]] = w], conn' = [conn EXCEPT ![k] = d],
           net' = [net EXCEPT ![k] = n], UNCHANGED <<main, stopping>>,
           worker[OwnerOf[k]].pc \in Serving, w.pc \in Serving, w.ti = worker[OwnerOf[k]].ti,
           worker[OwnerOf[k]].pc = "input" => worker[OwnerOf[k]].conn = k,
           OnWire(d, n), ConnOK(k, d, w), Held(OwnerOf[k], worker[OwnerOf[k]])'
    PROVE  ClientInv'
  <1> DEFINE t == OwnerOf[k]
  <1>0. t \in Workers
    BY ConnFacts
  <1>1. /\ worker' \in [Workers -> WorkerType] /\ worker'[t] = w
        /\ \A u \in Workers \ {t} : worker'[u] = worker[u]
    BY <1>0 DEF ClientInv, Typed
  <1>2. /\ conn' \in [Conns -> ConnType] /\ net' \in [Conns -> NetType]
        /\ conn'[k] = d /\ net'[k] = n
        /\ \A j \in Conns \ {k} : conn'[j] = conn[j] /\ net'[j] = net[j]
    BY DEF ClientInv, Typed
  <1>3. Typed'
    BY <1>1, <1>2 DEF ClientInv, Typed
  <1>4. StartInv'
    BY <1>0, <1>1 DEF ClientInv, StartInv, Serving, Unstarted
  <1>5. ASSUME NEW j \in Conns, OwnerOf[j] = t
        PROVE  OnWire(conn'[j], net'[j]) /\ ConnOK(j, conn'[j], worker'[t])
    <2>1. CASE j = k
      BY <1>1, <1>2, <2>1
    <2>2. CASE j # k
      <3>1. OnWire(conn[j], net[j]) /\ ConnOK(j, conn[j], worker[t])
        BY <1>5, ConnFacts
      <3>2. ConnOK(j, conn[j], w)
        BY <2>2, <3>1, Sibling
      <3> QED
        BY <1>1, <1>2, <2>2, <3>1, <3>2
    <2> QED
      BY <2>1, <2>2
  <1> QED
    BY <1>0, <1>1, <1>2, <1>3, <1>4, <1>5, WorkerChanges

\* A worker turns to one of the events it holds.
LEMMA DispatchInv == ASSUME ClientInv, ~Ended, NEW t \in Workers, Dispatch(t) PROVE ClientInv'
  <1>1. CASE worker[t].events = {}
    BY <1>1, BatchDoneInv
  <1>2. CASE worker[t].events # {}
    <2>1. PICK e \in worker[t].events :
            /\ worker' = [worker EXCEPT ![t] =
                 [@ EXCEPT !.pc = IF e.out THEN "output" ELSE "input", !.conn = e.conn,
                           !.in = e.out /\ e.in, !.events = worker[t].events \ {e}]]
            /\ conn' = [conn EXCEPT ![e.conn].started =
                          @ \/ (e.out /\ conn[e.conn].sent = 0)]
      BY <1>2 DEF Dispatch
    <2>2. worker[t].pc = "dispatch" /\ UNCHANGED <<main, stopping, net>>
      BY DEF Dispatch
    <2> DEFINE k == e.conn
               w == [worker[t] EXCEPT !.pc = IF e.out THEN "output" ELSE "input", !.conn = k,
                                      !.in = e.out /\ e.in, !.events = @ \ {e}]
               c == conn[k]
               d == [c EXCEPT !.started = @ \/ (e.out /\ c.sent = 0)]
    <2>3. /\ worker[t] \in WorkerType /\ Held(t, worker[t])
          /\ e \in Events /\ k \in Conns /\ OwnerOf[k] = t /\ e.out \in BOOLEAN /\ e.in \in BOOLEAN
      BY <2>1, WorkerFacts DEF WorkerType, Events, Held
    <2>4. /\ w \in WorkerType /\ w.pc = (IF e.out THEN "output" ELSE "input") /\ w.conn = k
          /\ w.ti = worker[t].ti /\ w.events = worker[t].events \ {e} /\ w.ret = worker[t].ret
      BY <2>3 DEF WorkerType, Serving
    <2>5. /\ c \in ConnType /\ net[k] \in NetType
          /\ OnWire(c, net[k]) /\ ConnOK(k, c, worker[t])
      BY <2>3, ConnFacts
    <2>6. /\ d \in ConnType /\ d.state = c.state /\ d.sleft = c.sleft /\ d.rleft = c.rleft
          /\ d.sent = c.sent /\ d.received = c.received /\ d.total = c.total
          /\ d.started = (c.started \/ (e.out /\ c.sent = 0)) /\ d.ended = c.ended
          /\ d.epoll = c.epoll
      BY <2>3, <2>5 DEF ConnType
    <2>6a. worker' = [worker EXCEPT ![t] = w]
      BY <2>1
    <2>6b. conn' = [conn EXCEPT ![k] = d]
      BY <2>1
    <2> HIDE DEF w, d
    <2>7. /\ net' = [net EXCEPT ![k] = net[k]] /\ worker'[t] = w /\ conn'[k] = d
          /\ \A j \in Conns \ {k} : conn'[j] = conn[j]
      BY <2>2, <2>3, <2>6a, <2>6b DEF ClientInv, Typed
    <2>8. OnWire(d, net[k])
      BY <2>5, <2>6 DEF OnWire
    <2>9. ConnOK(k, d, w)
      BY <2>2, <2>4, <2>5, <2>6 DEF ConnOK, Stamped, Interest, Fresh, Serving, Unstarted
    <2>10. e.out => c.sent < c.total /\ d.started
      BY <2>3, <2>5, <2>6 DEF Held, ConnOK, Stamped, ConnType
    <2>11. c.state = "open" /\ Requests # 0
      BY <2>2, <2>3 DEF Held, Serving
    <2>12. ASSUME NEW f \in w.events
           PROVE  /\ f \in worker[t].events /\ f.conn \in Conns /\ f.conn # k
                  /\ conn'[f.conn] = conn[f.conn]
      <3>1. f \in worker[t].events /\ f # e
        BY <2>4
      <3>2. f.conn \in Conns /\ f.conn # k
        BY <2>3, <3>1 DEF Held, WorkerType, Events
      <3> QED
        BY <2>7, <3>1, <3>2
    <2>13. Held(t, worker[t])'
      <3>1. ~Ended'
        BY <2>2 DEF Ended
      <3> QED
        BY <2>3, <2>4, <2>6, <2>7, <2>10, <2>11, <2>12, <3>1 DEF Held, Serving
    <2> QED
      BY <2>2, <2>3, <2>4, <2>5, <2>6, <2>6a, <2>6b, <2>7, <2>8, <2>9, <2>13, WorkerServes DEF Serving
  <1> QED
    BY <1>1, <1>2

\* len bytes of the want that are left of a request go on the wire.
LEMMA SendWire ==
    ASSUME NEW c \in ConnType, NEW n \in NetType, OnWire(c, n), c.sent < c.total
    PROVE  LET want == IF c.sleft = 0 THEN ReqLen ELSE c.sleft
               len == min(want, SockBuf - (n.up - n.taken))
               d == AfterSend(c, want, len)
               m == [n EXCEPT !.up = @ + len]
           IN  /\ d \in ConnType /\ m \in NetType /\ OnWire(d, m)
               /\ d.state = c.state /\ d.epoll = c.epoll /\ d.rleft = c.rleft
               /\ d.received = c.received /\ d.total = c.total
               /\ d.started = c.started /\ d.ended = c.ended
  <1> DEFINE want == IF c.sleft = 0 THEN ReqLen ELSE c.sleft
             len == min(want, SockBuf - (n.up - n.taken))
             sent == IF len = want THEN c.sent + 1 ELSE c.sent
             d == AfterSend(c, want, len)
             m == [n EXCEPT !.up = @ + len]
  <1>1. {ReqLen, RespLen, SockBuf} \subseteq Nat \ {0}
    BY ClientAssumption
  <1>2. want \in 1 .. ReqLen /\ Partial(c.sleft, ReqLen) = ReqLen - want
    BY <1>1 DEF Partial, ConnType
  <1>3. len \in 0 .. want /\ n.up + len <= n.taken + SockBuf
    BY <1>1, <1>2 DEF min, OnWire, NetType
  <1>3a. sent \in Nat /\ want - len \in 0 .. ReqLen /\ d = [c EXCEPT !.sleft = want - len, !.sent = sent]
    BY <1>1, <1>2, <1>3 DEF AfterSend, ConnType
  <1> HIDE DEF want, len, sent, d
  <1>4. /\ d \in ConnType /\ d.sleft = want - len /\ d.sent = sent
        /\ d.state = c.state /\ d.epoll = c.epoll /\ d.rleft = c.rleft
        /\ d.received = c.received /\ d.total = c.total
        /\ d.started = c.started /\ d.ended = c.ended
    BY <1>3a DEF ConnType
  <1>5. /\ m \in NetType /\ m.up = n.up + len
        /\ m.taken = n.taken /\ m.down = n.down /\ m.read = n.read
    BY <1>1, <1>2, <1>3 DEF NetType
  <1> HIDE DEF m
  <1>6. m.up = d.sent * ReqLen + Partial(d.sleft, ReqLen)
    <2>0. c.sent \in Nat /\ ReqLen \in Nat
      BY <1>1 DEF ConnType
    <2>1. c.sent * ReqLen \in Int /\ (c.sent + 1) * ReqLen = c.sent * ReqLen + ReqLen
      BY <1>1, Times DEF ConnType
    <2>2. n.up = c.sent * ReqLen + (ReqLen - want)
      BY <1>2 DEF OnWire
    <2>3. CASE len = want
      <3>1. d.sent = c.sent + 1 /\ d.sleft = 0
        BY <1>1, <1>2, <1>4, <2>3 DEF sent
      <3>2. d.sent * ReqLen + Partial(d.sleft, ReqLen) = c.sent * ReqLen + ReqLen
        BY <2>0, <2>1, <3>1 DEF Partial
      <3> QED
        BY <1>2, <1>5, <2>0, <2>1, <2>2, <2>3, <3>2
    <2>4. CASE len # want
      <3>1. d.sent = c.sent /\ d.sleft = want - len /\ d.sleft # 0
        BY <1>1, <1>2, <1>3, <1>4, <2>4 DEF sent
      <3>2. d.sent * ReqLen + Partial(d.sleft, ReqLen) = c.sent * ReqLen + (ReqLen - (want - len))
        BY <3>1 DEF Partial
      <3> QED
        BY <1>2, <1>3, <1>5, <2>0, <2>1, <2>2, <3>2
    <2> QED
      BY <2>3, <2>4
  <1>7. d.sent <= d.total /\ (d.sleft # 0 => d.sent < d.total)
    BY <1>2, <1>3, <1>4 DEF ConnType, sent
  <1>8. m.taken <= m.up /\ m.up <= m.taken + SockBuf
    BY <1>1, <1>2, <1>3, <1>5 DEF OnWire, NetType
  <1>9. OnWire(d, m)
    BY <1>4, <1>5, <1>6, <1>7, <1>8 DEF OnWire
  <1> QED
    BY <1>4, <1>5, <1>9 DEF d, m, want, len

\* The output part of an event is over, with the connection in state c.
LEMMA OutputReturnsInv ==
    ASSUME ClientInv, ~Ended, NEW t \in Workers, worker[t].pc = "output",
           NEW c \in ConnType, NEW n \in NetType, OutputReturns(t, c),
           net' = [net EXCEPT ![worker[t].conn] = n], UNCHANGED <<main, stopping>>,
           OnWire(c, n), c.state = "open", c.started, c.epoll = conn[worker[t].conn].epoll,
           ~stopping => c.total = Requests /\ c.received < c.total
    PROVE  ClientInv'
  <1> DEFINE k == worker[t].conn
             w == [worker[t] EXCEPT !.pc = IF worker[t].in THEN "input" ELSE "dispatch",
                                    !.in = FALSE]
             d == AfterOutput(c)
  <1>1. /\ worker[t] \in WorkerType /\ Held(t, worker[t])
        /\ k \in Conns /\ OwnerOf[k] = t /\ conn[k].sent < conn[k].total
    BY WorkerFacts DEF Held
  <1>2. /\ w \in WorkerType /\ w.pc \in {"input", "dispatch"} /\ w.conn = k
        /\ w.ti = worker[t].ti /\ w.events = worker[t].events
    BY <1>1 DEF WorkerType, Serving
  <1>3. /\ d \in ConnType /\ d.state = c.state /\ d.sleft = c.sleft /\ d.rleft = c.rleft
        /\ d.sent = c.sent /\ d.received = c.received /\ d.total = c.total
        /\ d.started = c.started /\ d.ended = c.ended
        /\ d.epoll = IF c.sent = c.total THEN {"IN"} ELSE c.epoll
    BY DEF AfterOutput, ConnType
  <1>4. worker' = [worker EXCEPT ![t] = w] /\ conn' = [conn EXCEPT ![k] = d]
    BY DEF OutputReturns
  <1> HIDE DEF w, d
  <1>5. /\ worker'[t] = w /\ conn'[k] = d
        /\ \A j \in Conns \ {k} : conn'[j] = conn[j]
    BY <1>1, <1>4 DEF ClientInv, Typed
  <1>6. OnWire(d, n)
    BY <1>3 DEF OnWire
  <1>7. {"OUT", "IN"} \subseteq conn[k].epoll
    <2>1. /\ conn[k] \in ConnType /\ net[k] \in NetType /\ OnWire(conn[k], net[k])
          /\ ConnOK(k, conn[k], worker[t])
      BY <1>1, ConnFacts
    <2>2. conn[k].received < conn[k].total
      BY <1>1, <2>1, AnsweredAtMost DEF ConnType
    <2> QED
      BY <1>1, <2>1, <2>2 DEF ConnOK, Interest, Serving
  <1>8. Interest(d)
    BY <1>3, <1>7 DEF Interest, ConnType
  <1>9. Stamped(k, d, w)
    BY <1>3 DEF Stamped, ConnType
  <1>10. ConnOK(k, d, w)
    BY <1>2, <1>3, <1>8, <1>9 DEF ConnOK, Serving, Unstarted
  <1>11. ASSUME NEW f \in w.events
         PROVE  f \in worker[t].events /\ f.conn \in Conns /\ f.conn # k /\ conn'[f.conn] = conn[f.conn]
    BY <1>1, <1>2, <1>5 DEF Held, WorkerType, Events
  <1>12. Held(t, worker[t])'
    <2>1. Ended' = Ended
      BY DEF Ended
    <2> QED
      BY <1>1, <1>2, <1>3, <1>5, <1>11, <2>1 DEF Held, Serving
  <1> QED
    BY <1>1, <1>2, <1>3, <1>4, <1>6, <1>10, <1>12, WorkerServes DEF Serving

\* client_conn_handle_output
LEMMA OutputInv == ASSUME ClientInv, ~Ended, NEW t \in Workers, Output(t) PROVE ClientInv'
  <1> DEFINE k == worker[t].conn
             c == conn[k]
             want == IF c.sleft = 0 THEN ReqLen ELSE c.sleft
             len == min(want, SockBuf - (net[k].up - net[k].taken))
             d == AfterSend(c, want, len)
             n == [net[k] EXCEPT !.up = @ + len]
  <1>1. /\ worker[t].pc = "output" /\ UNCHANGED <<main, stopping>>
        /\ \/ /\ StopOutput(c)
              /\ OutputReturns(t, [c EXCEPT !.total = c.sent])
              /\ UNCHANGED net
           \/ /\ net' = [net EXCEPT ![k].up = @ + len]
              /\ IF len = 0 \/ (d.sleft = 0 /\ d.sent = d.total)
                 THEN OutputReturns(t, d)
                 ELSE conn' = [conn EXCEPT ![k] = d] /\ UNCHANGED worker
    BY DEF Output, UpRoom
  <1>2. /\ worker[t] \in WorkerType /\ Held(t, worker[t])
        /\ k \in Conns /\ OwnerOf[k] = t /\ c.state = "open" /\ c.sent < c.total /\ c.started
    BY <1>1, WorkerFacts DEF Held
  <1>3. /\ c \in ConnType /\ net[k] \in NetType /\ OnWire(c, net[k]) /\ ConnOK(k, c, worker[t])
        /\ c.received <= c.sent
    BY <1>2, ConnFacts, AnsweredAtMost
  <1>3a. c.received < c.total
    BY <1>2, <1>3 DEF ConnType
  <1>4. CASE StopOutput(c) /\ OutputReturns(t, [c EXCEPT !.total = c.sent]) /\ UNCHANGED net
    <2> DEFINE b == [c EXCEPT !.total = c.sent]
    <2>1. /\ b \in ConnType /\ b.state = c.state /\ b.sleft = c.sleft /\ b.rleft = c.rleft
          /\ b.sent = c.sent /\ b.received = c.received /\ b.total = c.sent
          /\ b.started = c.started /\ b.ended = c.ended /\ b.epoll = c.epoll
      BY <1>3 DEF ConnType
    <2>2. OutputReturns(t, b) /\ stopping /\ c.sleft = 0
      BY <1>4 DEF StopOutput
    <2>2a. net' = [net EXCEPT ![worker[t].conn] = net[k]]
      BY <1>2, <1>4 DEF ClientInv, Typed
    <2>2b. b.epoll = conn[worker[t].conn].epoll
      BY <2>1
    <2> HIDE DEF b
    <2>3. OnWire(b, net[k])
      BY <1>2, <1>3, <2>1, <2>2, ClientAssumption DEF OnWire, ConnType
    <2> QED
      BY <1>1, <1>2, <1>3, <2>1, <2>2, <2>2a, <2>2b, <2>3, OutputReturnsInv
  <1>5. CASE net' = [net EXCEPT ![k].up = @ + len]
             /\ IF len = 0 \/ (d.sleft = 0 /\ d.sent = d.total)
                THEN OutputReturns(t, d)
                ELSE conn' = [conn EXCEPT ![k] = d] /\ UNCHANGED worker
    <2>1. /\ d \in ConnType /\ n \in NetType /\ OnWire(d, n)
          /\ d.state = c.state /\ d.epoll = c.epoll /\ d.rleft = c.rleft
          /\ d.received = c.received /\ d.total = c.total
          /\ d.started = c.started /\ d.ended = c.ended
      BY <1>2, <1>3, SendWire
    <2>2. net' = [net EXCEPT ![k] = n]
      BY <1>5
    <2>3. ~stopping => d.total = Requests
      BY <1>2, <1>3, <2>1 DEF ConnOK
    <2>4. d.received < d.total
      BY <1>3a, <2>1
    <2>5. CASE OutputReturns(t, d)
      <3> HIDE DEF d, n
      <3> QED
        BY <1>1, <1>2, <1>3, <2>1, <2>2, <2>3, <2>4, <2>5, OutputReturnsInv
    <2>6. CASE conn' = [conn EXCEPT ![k] = d] /\ UNCHANGED worker
               /\ ~(d.sleft = 0 /\ d.sent = d.total)
      <3> HIDE DEF d, n
      <3>1. d.sent < d.total
        BY <2>1, <2>6 DEF OnWire, ConnType
      <3>2. /\ worker' = [worker EXCEPT ![t] = worker[t]] /\ worker'[t] = worker[t] /\ conn'[k] = d
            /\ \A j \in Conns \ {k} : conn'[j] = conn[j]
        BY <1>2, <2>6 DEF ClientInv, Typed
      <3>3. "OUT" \in c.epoll /\ "IN" \in c.epoll
        BY <1>1, <1>2, <1>3 DEF ConnOK, Interest, Serving, ConnType
      <3>4. ConnOK(k, d, worker[t])
        BY <1>1, <1>2, <2>1, <2>3, <2>4, <3>1, <3>3
           DEF ConnOK, Stamped, Interest, Serving, Unstarted, ConnType
      <3>5. ASSUME NEW f \in worker[t].events
            PROVE  /\ f.conn # k /\ OwnerOf[f.conn] = t /\ (f.out \/ f.in)
                   /\ f.out => conn'[f.conn].sent < conn'[f.conn].total
                   /\ conn'[f.conn].state = "open"
        <4>1. f.conn \in Conns /\ f.conn # k
          BY <1>1, <1>2 DEF Held, WorkerType, Events
        <4>2. conn'[f.conn] = conn[f.conn]
          BY <3>2, <4>1
        <4> QED
          BY <1>2, <4>1, <4>2 DEF Held
      <3>6. Held(t, worker[t])'
        <4>1. conn'[k].state = "open" /\ conn'[k].started /\ conn'[k].sent < conn'[k].total
          BY <1>2, <2>1, <3>1, <3>2
        <4> QED
          BY <1>1, <1>2, <3>2, <3>5, <4>1 DEF Held, Serving
      <3> QED
        BY <1>1, <1>2, <2>1, <2>2, <2>6, <3>2, <3>4, <3>6, WorkerServes DEF Serving
    <2> QED
      BY <1>5, <2>5, <2>6
  <1> QED
    BY <1>1, <1>4, <1>5

\* recv takes len bytes of the want that are left of a response.
LEMMA ReceiveWire ==
    ASSUME NEW c \in ConnType, NEW n \in NetType, OnWire(c, n)
    PROVE  LET want == IF c.rleft = 0 THEN RespLen ELSE c.rleft
               len == min(want, n.down - n.read)
               d == [c EXCEPT !.rleft = want - len, !.received = IF len = want THEN @ + 1 ELSE @]
               m == [n EXCEPT !.read = @ + len]
           IN  /\ d \in ConnType /\ m \in NetType /\ OnWire(d, m)
               /\ len = 0 => d.received = c.received /\ OnWire(d, n)
               /\ d.received = c.received \/ (d.received = c.received + 1 /\ d.rleft = 0)
               /\ d.state = c.state /\ d.epoll = c.epoll /\ d.sleft = c.sleft
               /\ d.sent = c.sent /\ d.total = c.total
               /\ d.started = c.started /\ d.ended = c.ended
  <1> DEFINE want == IF c.rleft = 0 THEN RespLen ELSE c.rleft
             len == min(want, n.down - n.read)
             received == IF len = want THEN c.received + 1 ELSE c.received
             d == [c EXCEPT !.rleft = want - len, !.received = IF len = want THEN @ + 1 ELSE @]
             m == [n EXCEPT !.read = @ + len]
  <1>1. {ReqLen, RespLen, SockBuf} \subseteq Nat \ {0}
    BY ClientAssumption
  <1>2. want \in 1 .. RespLen /\ Partial(c.rleft, RespLen) = RespLen - want
    BY <1>1 DEF Partial, ConnType
  <1>3. len \in 0 .. want /\ n.read + len <= n.down
    BY <1>1, <1>2 DEF min, OnWire, NetType
  <1>4. /\ received \in Nat /\ want - len \in 0 .. RespLen
        /\ d = [c EXCEPT !.rleft = want - len, !.received = received]
    BY <1>1, <1>2, <1>3 DEF ConnType
  <1> HIDE DEF want, len, received, d
  <1>5. /\ d \in ConnType /\ d.rleft = want - len /\ d.received = received
        /\ d.state = c.state /\ d.epoll = c.epoll /\ d.sleft = c.sleft
        /\ d.sent = c.sent /\ d.total = c.total
        /\ d.started = c.started /\ d.ended = c.ended
    BY <1>4 DEF ConnType
  <1>6. /\ m \in NetType /\ m.read = n.read + len
        /\ m.taken = n.taken /\ m.down = n.down /\ m.up = n.up
    BY <1>1, <1>2, <1>3 DEF NetType
  <1> HIDE DEF m
  <1>7. m.read = d.received * RespLen + Partial(d.rleft, RespLen)
    <2>1. c.received \in Nat /\ RespLen \in Nat
      BY <1>1 DEF ConnType
    <2>2. /\ c.received * RespLen \in Int
          /\ (c.received + 1) * RespLen = c.received * RespLen + RespLen
      BY <1>1, Times DEF ConnType
    <2>3. n.read = c.received * RespLen + (RespLen - want)
      BY <1>2 DEF OnWire
    <2>4. CASE len = want
      <3>1. d.received = c.received + 1 /\ d.rleft = 0
        BY <1>2, <1>5, <2>4 DEF received
      <3>2. d.received * RespLen + Partial(d.rleft, RespLen) = c.received * RespLen + RespLen
        BY <2>1, <2>2, <3>1 DEF Partial
      <3> QED
        BY <1>2, <1>6, <2>1, <2>2, <2>3, <2>4, <3>2
    <2>5. CASE len # want
      <3>1. d.received = c.received /\ d.rleft = want - len /\ d.rleft # 0
        BY <1>2, <1>3, <1>5, <2>5 DEF received
      <3>2. d.received * RespLen + Partial(d.rleft, RespLen)
              = c.received * RespLen + (RespLen - (want - len))
        BY <3>1 DEF Partial
      <3> QED
        BY <1>2, <1>3, <1>6, <2>1, <2>2, <2>3, <3>2
    <2> QED
      BY <2>4, <2>5
  <1>8. m.read <= m.down /\ m.down <= m.read + SockBuf
    BY <1>1, <1>2, <1>3, <1>6 DEF OnWire, NetType
  <1>9. OnWire(d, m)
    BY <1>5, <1>6, <1>7, <1>8 DEF OnWire
  <1>10. len = 0 => d.received = c.received /\ OnWire(d, n)
    <2> SUFFICES ASSUME len = 0 PROVE d.received = c.received /\ OnWire(d, n)
      OBVIOUS
    <2>1. m.read = n.read
      BY <1>6 DEF NetType
    <2>2. d.received = c.received
      BY <1>2, <1>5 DEF received
    <2> QED
      BY <1>6, <1>9, <2>1, <2>2 DEF OnWire
  <1>11. d.received = c.received \/ (d.received = c.received + 1 /\ d.rleft = 0)
    BY <1>2, <1>5 DEF received
  <1> QED
    BY <1>5, <1>6, <1>9, <1>10, <1>11 DEF d, m, want, len

\* The input part of an event is over, with the connection in state c.
LEMMA InputReturnsInv ==
    ASSUME ClientInv, ~Ended, NEW t \in Workers, worker[t].pc = "input",
           NEW c \in ConnType, InputReturns(t, c), UNCHANGED <<main, stopping, net>>,
           OnWire(c, net[worker[t].conn]), c.state = "open",
           c.epoll = conn[worker[t].conn].epoll, c.sent = conn[worker[t].conn].sent,
           c.received = conn[worker[t].conn].received, c.total = conn[worker[t].conn].total,
           c.started = conn[worker[t].conn].started
    PROVE  ClientInv'
  <1> DEFINE k == worker[t].conn
             w == [worker[t] EXCEPT !.pc = "dispatch"]
             d == AfterInput(c)
  <1>1. /\ worker[t] \in WorkerType /\ Held(t, worker[t]) /\ k \in Conns /\ OwnerOf[k] = t
    BY WorkerFacts DEF Held
  <1>2. /\ w \in WorkerType /\ w.pc = "dispatch" /\ w.ti = worker[t].ti
        /\ w.events = worker[t].events
    BY <1>1 DEF WorkerType, Serving
  <1>3. /\ conn[k] \in ConnType /\ net[k] \in NetType /\ OnWire(conn[k], net[k])
        /\ ConnOK(k, conn[k], worker[t])
    BY <1>1, ConnFacts
  <1>4. /\ d \in ConnType /\ d.sleft = c.sleft /\ d.rleft = c.rleft
        /\ d.sent = c.sent /\ d.received = c.received /\ d.total = c.total
        /\ d.started = c.started
        /\ IF c.received = c.total
           THEN d.state = "closed" /\ d.epoll = {} /\ d.ended
           ELSE d.state = c.state /\ d.epoll = c.epoll
    BY DEF AfterInput, ConnType
  <1>5. worker' = [worker EXCEPT ![t] = w]
    BY DEF InputReturns
  <1>6. conn' = [conn EXCEPT ![k] = d]
    BY DEF InputReturns
  <1> HIDE DEF w, d
  <1>7. /\ worker'[t] = w /\ conn'[k] = d /\ net' = [net EXCEPT ![k] = net[k]]
        /\ \A j \in Conns \ {k} : conn'[j] = conn[j]
    BY <1>1, <1>5, <1>6 DEF ClientInv, Typed
  <1>8. OnWire(d, net[k])
    BY <1>4 DEF OnWire
  <1>9. c.received = c.total => c.sent = c.total
    BY <1>3, AnsweredAtMost DEF OnWire, ConnType
  <1>10. Interest(d)
    BY <1>3, <1>4, <1>9, worker[t].pc \in Serving, worker[t].pc \notin Unstarted \cup {"epoll"}
       DEF ConnOK, Interest, ConnType, Serving, Unstarted
  <1>11. Stamped(k, d, w)
    BY <1>3, <1>4 DEF Stamped, ConnOK
  <1>12. ConnOK(k, d, w)
    <2>1. d.state # "none"
      BY <1>4
    <2>2. ~stopping => d.total = Requests
      BY <1>1, <1>3, <1>4 DEF ConnOK, Held
    <2> QED
      BY <1>2, <1>4, <1>10, <1>11, <2>1, <2>2 DEF ConnOK, Serving, Unstarted
  <1>13. ASSUME NEW f \in worker[t].events
         PROVE  /\ OwnerOf[f.conn] = t /\ (f.out \/ f.in)
                /\ f.out => conn'[f.conn].sent < conn'[f.conn].total
                /\ conn'[f.conn].state = "open"
    <2>1. f.conn \in Conns /\ f.conn # k
      BY <1>1 DEF Held, WorkerType, Events
    <2>2. conn'[f.conn] = conn[f.conn]
      BY <1>7, <2>1
    <2> QED
      BY <1>1, <2>1, <2>2 DEF Held
  <1>14. Held(t, worker[t])'
    BY <1>1, <1>2, <1>7, <1>13 DEF Held, Serving
  <1> QED
    BY <1>1, <1>2, <1>3, <1>4, <1>5, <1>6, <1>7, <1>8, <1>12, <1>14, WorkerServes DEF Serving

\* client_conn_handle_input
LEMMA InputInv == ASSUME ClientInv, ~Ended, NEW t \in Workers, Input(t) PROVE ClientInv'
  <1> DEFINE k == worker[t].conn
             c == conn[k]
             want == IF c.rleft = 0 THEN RespLen ELSE c.rleft
             len == min(want, net[k].down - net[k].read)
             d == [c EXCEPT !.rleft = want - len, !.received = IF len = want THEN @ + 1 ELSE @]
             m == [net[k] EXCEPT !.read = @ + len]
             n == [net[k] EXCEPT !.err = FALSE]
             w == [worker[t] EXCEPT !.pc = "wait", !.conn = NULL, !.events = {}, !.ret = -1]
  <1>1. /\ worker[t].pc = "input" /\ UNCHANGED <<main, stopping>>
        /\ \/ InputDone(c) /\ InputReturns(t, c) /\ UNCHANGED net
           \/ /\ ~InputDone(c) /\ net' = [net EXCEPT ![k].read = @ + len]
              /\ conn' = [conn EXCEPT ![k] = d] /\ UNCHANGED worker
           \/ len = 0 /\ InputReturns(t, d) /\ UNCHANGED net
           \/ /\ ~InputDone(c) /\ len = 0
              /\ conn' = [conn EXCEPT ![k] = d] /\ UNCHANGED <<worker, net>>
           \/ /\ ~InputDone(c) /\ len = 0
              /\ conn' = [conn EXCEPT ![k] = d] /\ net' = [net EXCEPT ![k].err = FALSE]
              /\ worker' = [worker EXCEPT ![t].pc = "wait", ![t].conn = NULL,
                                          ![t].events = {}, ![t].ret = -1]
    BY DEF Input, DownWait
  <1>2. /\ worker[t] \in WorkerType /\ Held(t, worker[t])
        /\ k \in Conns /\ OwnerOf[k] = t /\ c.state = "open"
    BY <1>1, WorkerFacts DEF Held
  <1>3. /\ c \in ConnType /\ net[k] \in NetType /\ OnWire(c, net[k]) /\ ConnOK(k, c, worker[t])
    BY <1>2, ConnFacts
  <1>4. /\ d \in ConnType /\ m \in NetType /\ OnWire(d, m)
        /\ len = 0 => d.received = c.received /\ OnWire(d, net[k])
        /\ d.received = c.received \/ (d.received = c.received + 1 /\ d.rleft = 0)
        /\ d.state = c.state /\ d.epoll = c.epoll /\ d.sleft = c.sleft
        /\ d.sent = c.sent /\ d.total = c.total
        /\ d.started = c.started /\ d.ended = c.ended
    BY <1>3, ReceiveWire
  <1>5. CASE InputDone(c) /\ InputReturns(t, c) /\ UNCHANGED net
    BY <1>1, <1>2, <1>3, <1>5, InputReturnsInv
  <1>6. CASE len = 0 /\ InputReturns(t, d) /\ UNCHANGED net
    <2> HIDE DEF d, len
    <2> QED
      BY <1>1, <1>2, <1>4, <1>6, InputReturnsInv
  <1>7. /\ n \in NetType /\ n.up = net[k].up /\ n.taken = net[k].taken
        /\ n.down = net[k].down /\ n.read = net[k].read
    BY <1>3 DEF NetType
  <1>8. /\ w \in WorkerType /\ w.pc = "wait" /\ w.ti = worker[t].ti /\ w.events = {}
    BY <1>2 DEF WorkerType, Serving
  <1> HIDE DEF d, len, m, n, w
  <1>9. ASSUME ~InputDone(c), d.received = c.received
        PROVE  ConnOK(k, d, w)
    <2>1. Interest(d)
      BY <1>1, <1>3, <1>4, <1>9 DEF ConnOK, Interest, Serving
    <2>2. Stamped(k, d, w)
      BY <1>3, <1>4, <1>9 DEF Stamped, ConnOK, InputDone
    <2> QED
      BY <1>1, <1>2, <1>3, <1>4, <1>8, <2>1, <2>2 DEF ConnOK, Serving, Unstarted
  <1>10. ASSUME ~InputDone(c)
         PROVE  ConnOK(k, d, worker[t])
    <2>1. Interest(d)
      BY <1>1, <1>3, <1>4 DEF ConnOK, Interest, Serving, ConnType
    <2>2. Stamped(k, d, worker[t])
      BY <1>1, <1>3, <1>4, <1>10 DEF Stamped, ConnOK, InputDone
    <2> QED
      BY <1>1, <1>2, <1>3, <1>4, <2>1, <2>2 DEF ConnOK, Serving, Unstarted
  <1>11. ASSUME conn' = [conn EXCEPT ![k] = d]
         PROVE  /\ conn'[k] = d
                /\ \A f \in worker[t].events :
                     /\ OwnerOf[f.conn] = t /\ (f.out \/ f.in)
                     /\ f.out => conn'[f.conn].sent < conn'[f.conn].total
                     /\ conn'[f.conn].state = "open" /\ f.conn # k
    <2>1. conn'[k] = d /\ \A j \in Conns \ {k} : conn'[j] = conn[j]
      BY <1>2, <1>11 DEF ClientInv, Typed
    <2>2. ASSUME NEW f \in worker[t].events PROVE f.conn \in Conns /\ f.conn # k
      BY <1>1, <1>2 DEF Held, WorkerType, Events
    <2> QED
      BY <1>2, <2>1, <2>2 DEF Held
  <1>12. CASE /\ ~InputDone(c) /\ conn' = [conn EXCEPT ![k] = d] /\ UNCHANGED worker
              /\ net' = [net EXCEPT ![k].read = @ + len] \/ (len = 0 /\ UNCHANGED net)
    <2>1. PICK b \in NetType : net' = [net EXCEPT ![k] = b] /\ OnWire(d, b)
      <3>1. CASE net' = [net EXCEPT ![k].read = @ + len]
        <4>1. net' = [net EXCEPT ![k] = m]
          BY <3>1 DEF m
        <4> QED
          BY <1>4, <4>1
      <3>2. CASE len = 0 /\ UNCHANGED net
        <4>1. net' = [net EXCEPT ![k] = net[k]]
          BY <1>2, <3>2 DEF ClientInv, Typed
        <4> QED
          BY <1>3, <1>4, <3>2, <4>1
      <3> QED
        BY <1>12, <3>1, <3>2
    <2>2. worker' = [worker EXCEPT ![t] = worker[t]] /\ worker'[t] = worker[t]
      BY <1>2, <1>12 DEF ClientInv, Typed
    <2>3. Held(t, worker[t])'
      <3>1. conn'[k].state = "open"
        BY <1>2, <1>4, <1>11, <1>12
      <3> QED
        BY <1>1, <1>2, <1>11, <1>12, <2>2, <3>1 DEF Held, Serving
    <2> QED
      BY <1>1, <1>2, <1>4, <1>10, <1>12, <2>1, <2>2, <2>3, WorkerServes DEF Serving
  <1>13. CASE /\ ~InputDone(c) /\ len = 0
              /\ conn' = [conn EXCEPT ![k] = d] /\ net' = [net EXCEPT ![k].err = FALSE]
              /\ worker' = [worker EXCEPT ![t].pc = "wait", ![t].conn = NULL,
                                          ![t].events = {}, ![t].ret = -1]
    <2>1. worker' = [worker EXCEPT ![t] = w]
      BY <1>13 DEF w
    <2>2. net' = [net EXCEPT ![k] = n]
      BY <1>13 DEF n
    <2>3. worker'[t] = w
      BY <2>1 DEF ClientInv, Typed
    <2>4. OnWire(d, n)
      BY <1>4, <1>7, <1>13 DEF OnWire
    <2>5. Held(t, worker[t])'
      BY <1>8, <2>3 DEF Held, Serving
    <2> QED
      BY <1>1, <1>2, <1>4, <1>7, <1>8, <1>9, <1>13, <2>1, <2>2, <2>4, <2>5, WorkerServes DEF Serving
  <1> QED
    BY <1>1, <1>5, <1>6, <1>12, <1>13

----------------------------------------------------------------------------
\* init_client_conn, the barrier and the server

LEMMA ConnectInv == ASSUME ClientInv, NEW k \in Conns, Connect(k) PROVE ClientInv'
  <1> DEFINE c == conn[k]
             d == [c EXCEPT !.state = "open", !.total = Requests]
  <1>1. /\ main = "init" /\ c.state = "none" /\ conn' = [conn EXCEPT ![k] = d]
        /\ UNCHANGED <<main, stopping, worker, net>>
    BY DEF Connect
  <1>2. ASSUME NEW t \in Workers PROVE worker[t].pc \in Unstarted /\ worker[t].pc \notin Serving
    BY <1>1 DEF ClientInv, StartInv, Unstarted, Serving
  <1>3. /\ c \in ConnType /\ net[k] \in NetType /\ OwnerOf[k] \in Workers
        /\ OnWire(c, net[k]) /\ ConnOK(k, c, worker[OwnerOf[k]])
    BY ConnFacts
  <1>4. /\ d \in ConnType /\ d.state = "open" /\ d.epoll = c.epoll /\ d.sleft = c.sleft
        /\ d.rleft = c.rleft /\ d.sent = c.sent /\ d.received = c.received
        /\ d.total = Requests /\ d.started = c.started /\ d.ended = c.ended
    BY <1>3, ClientAssumption DEF ConnType
  <1> HIDE DEF d
  <1>5. /\ conn' \in [Conns -> ConnType] /\ conn'[k] = d
        /\ \A j \in Conns \ {k} : conn'[j] = conn[j]
    BY <1>1, <1>4 DEF ClientInv, Typed
  <1>6. Typed' /\ StartInv' /\ StatsComplete' /\ Ended' = Ended
    BY <1>1, <1>5 DEF ClientInv, Typed, StartInv, StatsComplete, Ended
  <1>7. Fresh(c)
    BY <1>2, <1>3 DEF ConnOK
  <1>8. OnWire(d, net[k])
    BY <1>3, <1>4, <1>7, ClientAssumption DEF OnWire, Fresh
  <1>9. ConnOK(k, conn[k], worker[OwnerOf[k]])'
    BY <1>1, <1>2, <1>3, <1>4, <1>5, <1>7
       DEF ConnOK, Fresh, Stamped, Unstarted
  <1>10. WireInv'
    BY <1>1, <1>5, <1>8, ConnFacts DEF WireInv
  <1>11. ConnInv'
    <2> SUFFICES ASSUME NEW j \in Conns PROVE ConnOK(j, conn[j], worker[OwnerOf[j]])'
      BY DEF ConnInv
    <2>1. CASE j = k
      BY <1>9, <2>1
    <2>2. CASE j # k
      BY <1>1, <1>5, <1>6, <2>2, ConnFacts, ConnFrame
    <2> QED
      BY <2>1, <2>2
  <1>12. WorkerInv'
    <2> SUFFICES ASSUME NEW t \in Workers PROVE Held(t, worker[t])'
      BY DEF WorkerInv
    <2>1. worker'[t].pc \notin Serving /\ worker'[t].events = {}
      BY <1>1, <1>2, WorkerFacts DEF Held
    <2> QED
      BY <2>1 DEF Held, Serving
  <1> QED
    BY <1>6, <1>10, <1>11, <1>12 DEF ClientInv

\* The barrier opens for main and all workers at once.
LEMMA BarrierOpens ==
    ASSUME ClientInv, Barrier
    PROVE  main = "barrier" /\ \A t \in Workers : worker[t].pc = "barrier"
  <1> DEFINE arrived == {t \in Workers : worker[t].pc = "barrier"}
  <1>1. Cardinality(arrived) + (IF main = "barrier" THEN 1 ELSE 0) = Cardinality(Workers) + 1
    BY DEF Barrier, BarrierSize
  <1>2. IsFiniteSet(Workers) /\ arrived \subseteq Workers
    BY ClientAssumption
  <1>3. /\ Cardinality(arrived) \in Nat /\ Cardinality(Workers) \in Nat
        /\ Cardinality(arrived) <= Cardinality(Workers)
        /\ (Cardinality(arrived) = Cardinality(Workers) => arrived = Workers)
    BY <1>2, FS_CardinalityType, FS_Subset
  <1> HIDE DEF arrived
  <1>4. main = "barrier" /\ Cardinality(arrived) = Cardinality(Workers)
    BY <1>1, <1>3
  <1> QED
    BY <1>3, <1>4 DEF arrived

LEMMA BarrierInv == ASSUME ClientInv, Barrier PROVE ClientInv'
  <1>1. main = "barrier" /\ \A t \in Workers : worker[t].pc = "barrier"
    BY BarrierOpens
  <1>2. main' = "watch" /\ UNCHANGED <<stopping, conn, net>>
    BY <1>1 DEF Barrier
  <1>3. worker' = [t \in Workers |-> [worker[t] EXCEPT !.pc = "epoll"]]
    BY <1>1 DEF Barrier
  <1>4. ASSUME NEW t \in Workers
        PROVE  /\ worker'[t] \in WorkerType /\ worker'[t].pc = "epoll"
               /\ worker'[t].ti /\ worker'[t].events = {}
    <2>1. worker[t] \in WorkerType /\ Held(t, worker[t]) /\ worker[t].ti
      BY <1>1, WorkerFacts DEF ClientInv, StartInv
    <2>2. worker'[t] = [worker[t] EXCEPT !.pc = "epoll"]
      BY <1>3
    <2> QED
      BY <1>1, <2>1, <2>2 DEF WorkerType, Held, Serving
  <1>5. Typed'
    <2>1. worker' \in [Workers -> WorkerType]
      BY <1>3, <1>4
    <2> QED
      BY <1>2, <2>1 DEF ClientInv, Typed
  <1>6. StartInv'
    BY <1>2, <1>4 DEF StartInv, Unstarted
  <1>7. ConnInv'
    <2> SUFFICES ASSUME NEW j \in Conns PROVE ConnOK(j, conn[j], worker[OwnerOf[j]])'
      BY DEF ConnInv
    <2>1. ConnOK(j, conn[j], worker[OwnerOf[j]]) /\ OwnerOf[j] \in Workers
      BY ConnFacts
    <2>2. worker[OwnerOf[j]].pc = "barrier" /\ worker'[OwnerOf[j]].pc = "epoll" /\ conn'[j] = conn[j]
      BY <1>1, <1>2, <1>4, <2>1
    <2>3. Fresh(conn[j]) /\ (conn[j].state = "none" \/ conn[j].total = Requests)
          /\ conn[j].state \notin {"none", "closed"}
      BY <1>1, <2>1, <2>2 DEF ConnOK, Unstarted, Ended
    <2>4. Stamped(j, conn[j], worker[OwnerOf[j]])'
      BY <2>2, <2>3, ConnFacts DEF Stamped, Fresh, ConnType
    <2> QED
      BY <1>2, <2>2, <2>3, <2>4 DEF ConnOK, Serving
  <1>8. WorkerInv'
    <2> SUFFICES ASSUME NEW t \in Workers PROVE Held(t, worker[t])'
      BY DEF WorkerInv
    <2> QED
      BY <1>4 DEF Held, Serving
  <1>9. WireInv' /\ StatsComplete'
    BY <1>2 DEF ClientInv, WireInv, StatsComplete
  <1> QED
    BY <1>5, <1>6, <1>7, <1>8, <1>9 DEF ClientInv

\* The server's end of a connection.
LEMMA NetMoves ==
    ASSUME ClientInv, NEW k \in Conns, NEW n \in NetType, net' = [net EXCEPT ![k] = n],
           UNCHANGED <<main, stopping, worker, conn>>, OnWire(conn[k], n)
    PROVE  ClientInv'
  <1>1. /\ net' \in [Conns -> NetType] /\ net'[k] = n
        /\ \A j \in Conns \ {k} : net'[j] = net[j]
    BY DEF ClientInv, Typed
  <1>2. Typed' /\ StartInv' /\ StatsComplete' /\ Ended' = Ended
    BY <1>1 DEF ClientInv, Typed, StartInv, StatsComplete, Ended
  <1>3. WireInv'
    BY <1>1, ConnFacts DEF WireInv
  <1>4. ConnInv'
    BY DEF ClientInv, ConnInv, ConnOK, Stamped, Ended
  <1>5. WorkerInv'
    BY <1>2, HeldFrame, WorkerFacts DEF WorkerInv
  <1> QED
    BY <1>2, <1>3, <1>4, <1>5 DEF ClientInv

\* One more byte taken makes no fewer whole requests.
LEMMA MoreRequests ==
    ASSUME NEW a \in Nat, NEW m \in Nat \ {0}
    PROVE  a \div m \in Nat /\ (a + 1) \div m \in Nat /\ a \div m <= (a + 1) \div m
  <1>1. a \div m \in Nat /\ (a + 1) \div m \in Nat
    OBVIOUS
  <1>2. (a \div m) * m <= a /\ a + 1 < ((a + 1) \div m + 1) * m
    OBVIOUS
  <1>3. (a \div m) * m < ((a + 1) \div m + 1) * m
    BY <1>1, <1>2, Times
  <1>4. a \div m < (a + 1) \div m + 1
    BY <1>1, <1>3, Times
  <1> QED
    BY <1>1, <1>4

LEMMA ServerTakeInv == ASSUME ClientInv, NEW k \in Conns, ServerTake(k) PROVE ClientInv'
  <1> DEFINE o == net[k]
             n == [o EXCEPT !.taken = @ + 1]
  <1>1. /\ o.taken < o.up /\ net' = [net EXCEPT ![k] = n]
        /\ UNCHANGED <<main, stopping, worker, conn>>
    BY DEF ServerTake
  <1>2. conn[k] \in ConnType /\ o \in NetType /\ OnWire(conn[k], o)
    BY ConnFacts
  <1>3. /\ n \in NetType /\ n.up = o.up /\ n.taken = o.taken + 1
        /\ n.down = o.down /\ n.read = o.read
    BY <1>2 DEF NetType
  <1> HIDE DEF n
  <1>4. {ReqLen, RespLen, SockBuf} \subseteq Nat \ {0}
    BY ClientAssumption
  <1>5. (o.taken \div ReqLen) * RespLen <= ((o.taken + 1) \div ReqLen) * RespLen
        /\ (o.taken \div ReqLen) * RespLen \in Int /\ ((o.taken + 1) \div ReqLen) * RespLen \in Int
    <2>1. o.taken \in Nat
      BY <1>2 DEF NetType
    <2>2. /\ o.taken \div ReqLen \in Nat /\ (o.taken + 1) \div ReqLen \in Nat
          /\ o.taken \div ReqLen <= (o.taken + 1) \div ReqLen
      BY <1>4, <2>1, MoreRequests
    <2> QED
      BY <1>4, <2>2, Times
  <1>6. n.down <= (n.taken \div ReqLen) * RespLen
    BY <1>2, <1>3, <1>5 DEF OnWire, NetType
  <1>7. OnWire(conn[k], n)
    BY <1>1, <1>2, <1>3, <1>4, <1>6 DEF OnWire, NetType
  <1> QED
    BY <1>1, <1>3, <1>7, NetMoves

LEMMA ServerReplyInv == ASSUME ClientInv, NEW k \in Conns, ServerReply(k) PROVE ClientInv'
  <1> DEFINE o == net[k]
             n == [o EXCEPT !.down = @ + 1]
  <1>1. /\ o.down - o.read < SockBuf /\ o.down < (o.taken \div ReqLen) * RespLen
        /\ net' = [net EXCEPT ![k] = n] /\ UNCHANGED <<main, stopping, worker, conn>>
    BY DEF ServerReply, DownWait
  <1>2. conn[k] \in ConnType /\ o \in NetType /\ OnWire(conn[k], o)
    BY ConnFacts
  <1>3. /\ n \in NetType /\ n.up = o.up /\ n.taken = o.taken
        /\ n.down = o.down + 1 /\ n.read = o.read
    BY <1>2 DEF NetType
  <1> HIDE DEF n
  <1>4. {ReqLen, RespLen, SockBuf} \subseteq Nat \ {0}
    BY ClientAssumption
  <1>5. (o.taken \div ReqLen) * RespLen \in Int
    <2>1. o.taken \div ReqLen \in Nat
      BY <1>2, <1>4, MoreRequests DEF NetType
    <2> QED
      BY <1>4, <2>1, Times
  <1>6. n.down <= (n.taken \div ReqLen) * RespLen
    BY <1>1, <1>2, <1>3, <1>5 DEF NetType
  <1>7. OnWire(conn[k], n)
    BY <1>1, <1>2, <1>3, <1>4, <1>6 DEF OnWire, NetType
  <1> QED
    BY <1>1, <1>3, <1>7, NetMoves

LEMMA ServerCloseInv == ASSUME ClientInv, NEW k \in Conns, ServerClose(k) PROVE ClientInv'
  <1> DEFINE o == net[k]
             err == o.taken < o.up
             n == [o EXCEPT !.closed = TRUE, !.err = err]
  <1>1. net' = [net EXCEPT ![k] = n] /\ UNCHANGED <<main, stopping, worker, conn>>
    BY DEF ServerClose
  <1>2. conn[k] \in ConnType /\ o \in NetType /\ OnWire(conn[k], o)
    BY ConnFacts
  <1>2a. err \in BOOLEAN
    OBVIOUS
  <1> HIDE DEF err
  <1>3. n \in NetType /\ n.up = o.up /\ n.taken = o.taken /\ n.down = o.down /\ n.read = o.read
    BY <1>2, <1>2a DEF NetType
  <1> HIDE DEF n
  <1>4. OnWire(conn[k], n)
    BY <1>2, <1>3 DEF OnWire
  <1> QED
    BY <1>1, <1>3, <1>4, NetMoves

----------------------------------------------------------------------------
LEMMA NextInvariant == ClientInv /\ [Next]_vars => ClientInv'
  <1> SUFFICES ASSUME ClientInv, [Next]_vars PROVE ClientInv'
    OBVIOUS
  <1>1. CASE MainStep
    <2>1. CASE \E k \in Conns : Connect(k)
      BY <2>1, ConnectInv
    <2>2. CASE \E t \in Workers : CreateThread(t) \/ StoreTi(t)
      BY <2>2, CreateThreadInv, StoreTiInv
    <2>3. CASE Prepared \/ InitFail \/ CreateFail \/ CleanupStarted
      BY <2>3, PreparedInv, InitFailInv, CreateFailInv, CleanupStartedInv
    <2>4. CASE MainArrives \/ Barrier \/ Finish
      BY <2>4, MainArrivesInv, BarrierInv, FinishInv
    <2> QED
      BY <1>1, <2>1, <2>2, <2>3, <2>4 DEF MainStep
  <1>2. CASE Deadline
    BY <1>2, DeadlineInv
  <1>3. ASSUME NEW t \in Workers, WorkerStep(t) PROVE ClientInv'
    <2>1. ~Ended
      BY <1>3 DEF WorkerStep
    <2>2. CASE Arrives(t) \/ InitEpoll(t) \/ InitEpollFail(t) \/ WorkerReturn(t)
      BY <2>1, <2>2, ArrivesInv, InitEpollInv, InitEpollFailInv, WorkerReturnInv
    <2>3. CASE EpollWait(t) \/ Dispatch(t)
      BY <2>1, <2>3, EpollWaitInv, DispatchInv
    <2>4. CASE Output(t) \/ Killed(t) \/ Input(t)
      BY <2>1, <2>4, OutputInv, KilledInv, InputInv
    <2> QED
      BY <1>3, <2>2, <2>3, <2>4 DEF WorkerStep
  <1>4. ASSUME NEW k \in Conns, ServerStep(k) \/ ServerClose(k) PROVE ClientInv'
    BY <1>4, ServerTakeInv, ServerReplyInv, ServerCloseInv DEF ServerStep
  <1>5. CASE UNCHANGED vars
    <2>1. Typed' /\ WireInv' /\ StartInv' /\ StatsComplete'
      BY <1>5 DEF vars, ClientInv, Typed, WireInv, StartInv, StatsComplete
    <2>2. ConnInv'
      BY <1>5 DEF vars, ClientInv, ConnInv, ConnOK, Stamped, Ended
    <2>3. WorkerInv'
      BY <1>5 DEF vars, ClientInv, WorkerInv, Held, Ended
    <2> QED
      BY <2>1, <2>2, <2>3 DEF ClientInv
  <1> QED
    BY <1>1, <1>2, <1>3, <1>4, <1>5 DEF Next, Over

\* The wire, the connections, the workers' events and the start stay in step.
THEOREM ClientInvariant == Spec => []ClientInv
  BY InitInvariant, NextInvariant, PTL DEF Spec

----------------------------------------------------------------------------
\* What the runs check

\* The remainders and the counts stay within a message and nr_requests, and the
\* sockets within their buffer.
THEOREM ClientTypeOK == Spec => []TypeOK
  <1>1. ClientInv => TypeOK
    <2> SUFFICES ASSUME ClientInv PROVE TypeOK
      OBVIOUS
    <2>1. main \in {"init", "start", "barrier", "watch", "cleanup", "stuck",
                    "reported", "failed", "crashed", "killed"}
      BY DEF ClientInv, Typed, EndStates
    <2>2. ASSUME NEW k \in Conns
          PROVE  /\ conn[k].sleft \in 0 .. ReqLen /\ conn[k].rleft \in 0 .. RespLen
                 /\ {conn[k].sent, conn[k].received, conn[k].total} \subseteq 0 .. Requests
                 /\ conn[k].epoll \in SUBSET {"IN", "OUT"}
                 /\ UpRoom(k) \in 0 .. SockBuf /\ DownWait(k) \in 0 .. SockBuf
      <3>1. /\ conn[k] \in ConnType /\ net[k] \in NetType /\ OnWire(conn[k], net[k])
            /\ conn[k].received <= conn[k].sent
        BY ConnFacts, AnsweredAtMost
      <3>2. SockBuf \in Nat /\ Requests \in Nat
        BY ClientAssumption
      <3>3. UpRoom(k) \in 0 .. SockBuf /\ DownWait(k) \in 0 .. SockBuf
        BY <3>1, <3>2 DEF UpRoom, DownWait, OnWire, NetType
      <3>4. {conn[k].sent, conn[k].received, conn[k].total} \subseteq 0 .. Requests
        BY <3>1, <3>2 DEF OnWire, ConnType
      <3> QED
        BY <3>1, <3>3, <3>4 DEF ConnType
    <2> QED
      BY <2>1, <2>2 DEF TypeOK
  <1> QED
    BY <1>1, ClientInvariant, PTL

\* sent and received are what the socket carried, and no response is counted
\* before its request.
THEOREM ClientCountsMatchWire == Spec => []CountsMatchWire
  <1>1. ClientInv => CountsMatchWire
    <2> SUFFICES ASSUME ClientInv, NEW k \in Conns
                 PROVE  /\ net[k].up = conn[k].sent * ReqLen + Partial(conn[k].sleft, ReqLen)
                        /\ net[k].read = conn[k].received * RespLen
                                           + Partial(conn[k].rleft, RespLen)
                        /\ conn[k].received <= conn[k].sent /\ conn[k].sent <= conn[k].total
      BY DEF CountsMatchWire, Partial
    <2> QED
      BY ConnFacts, AnsweredAtMost DEF OnWire
  <1> QED
    BY <1>1, ClientInvariant, PTL

\* A worker past the barrier finds its ti stored.
THEOREM ClientBarrierPublishes == Spec => []BarrierPublishes
  <1>1. ClientInv => BarrierPublishes
    BY DEF ClientInv, StartInv, BarrierPublishes, Unstarted
  <1> QED
    BY <1>1, ClientInvariant, PTL

\* epoll interest follows what is left to send and to receive.
THEOREM ClientArmed == Spec => []Armed
  <1>1. ClientInv => Armed
    <2> SUFFICES ASSUME ClientInv, NEW k \in Conns, worker[OwnerOf[k]].pc \in Serving
                 PROVE  /\ conn[k].sent < conn[k].total => "OUT" \in conn[k].epoll
                        /\ conn[k].received < conn[k].total => "IN" \in conn[k].epoll
                        /\ conn[k].sent = conn[k].total /\ "OUT" \in conn[k].epoll =>
                              Requests = 0
      BY DEF Armed, Serving
    <2> QED
      BY ConnFacts DEF ConnOK, Interest
  <1> QED
    BY <1>1, ClientInvariant, PTL

\* A report without a deadline has every response and both time stamps.
THEOREM ClientStatsComplete == Spec => []StatsComplete
  <1>1. ClientInv => StatsComplete
    BY DEF ClientInv
  <1> QED
    BY <1>1, ClientInvariant, PTL

----------------------------------------------------------------------------
\* The client keeps the contract with the server.

\* A connection c and its socket n as the contract sees them.
Link(c, n) == [up |-> n.up, taken |-> n.taken, down |-> n.down, read |-> n.read,
               left |-> c.state = "closed", closed |-> n.closed]

LEMMA LinkFields ==
    ASSUME NEW k \in Conns
    PROVE  /\ Wire[k] = Link(conn[k], net[k])
           /\ Wire[k].up = net[k].up /\ Wire[k].taken = net[k].taken
           /\ Wire[k].down = net[k].down /\ Wire[k].read = net[k].read
           /\ Wire[k].left = (conn[k].state = "closed") /\ Wire[k].closed = net[k].closed
  BY DEF Wire, Link

LEMMA LinkIs ==
    ASSUME NEW a, NEW b, NEW c, NEW d, NEW e, NEW f,
           NEW l \in [up : {a}, taken : {b}, down : {c}, read : {d}, left : {e}, closed : {f}]
    PROVE  l = [up |-> a, taken |-> b, down |-> c, read |-> d, left |-> e, closed |-> f]
  OBVIOUS

\* One field of a link changes.
LEMMA LinkLeaves ==
    ASSUME NEW c, NEW d, NEW n, d.state = "closed"
    PROVE  Link(d, n) = [Link(c, n) EXCEPT !.left = TRUE]
  <1> DEFINE e == TRUE
  <1>1. (d.state = "closed") = e
    OBVIOUS
  <1>2. [Link(c, n) EXCEPT !.left = e]
          \in [up : {n.up}, taken : {n.taken}, down : {n.down}, read : {n.read}, left : {e}, closed : {n.closed}]
    BY DEF Link
  <1>3. Link(d, n) = [up |-> n.up, taken |-> n.taken, down |-> n.down, read |-> n.read, left |-> e, closed |-> n.closed]
    BY <1>1, Zenon DEF Link
  <1> HIDE DEF e
  <1>4. [Link(c, n) EXCEPT !.left = e]
          = [up |-> n.up, taken |-> n.taken, down |-> n.down, read |-> n.read, left |-> e, closed |-> n.closed]
    BY <1>2, LinkIs
  <1>5. Link(d, n) = [Link(c, n) EXCEPT !.left = e]
    BY <1>3, <1>4
  <1> QED
    BY <1>5 DEF e

LEMMA LinkWrites ==
    ASSUME NEW c, NEW d, NEW n, NEW m, NEW x, d.state = "closed" <=> c.state = "closed",
           m.up = x, m.taken = n.taken, m.down = n.down, m.read = n.read, m.closed = n.closed
    PROVE  Link(d, m) = [Link(c, n) EXCEPT !.up = x]
  <1> DEFINE e == c.state = "closed"
  <1>1. Link(d, m) = [up |-> x, taken |-> n.taken, down |-> n.down, read |-> n.read, left |-> e, closed |-> n.closed]
    BY DEF Link
  <1>2. [Link(c, n) EXCEPT !.up = x]
          \in [up : {x}, taken : {n.taken}, down : {n.down}, read : {n.read}, left : {e}, closed : {n.closed}]
    BY DEF Link
  <1> HIDE DEF e
  <1>3. [Link(c, n) EXCEPT !.up = x]
          = [up |-> x, taken |-> n.taken, down |-> n.down, read |-> n.read, left |-> e, closed |-> n.closed]
    BY <1>2, LinkIs
  <1> QED
    BY <1>1, <1>3

LEMMA LinkReads ==
    ASSUME NEW c, NEW d, NEW n, NEW m, NEW x, d.state = "closed" <=> c.state = "closed",
           m.read = x, m.up = n.up, m.taken = n.taken, m.down = n.down, m.closed = n.closed
    PROVE  Link(d, m) = [Link(c, n) EXCEPT !.read = x]
  <1> DEFINE e == c.state = "closed"
  <1>1. Link(d, m) = [up |-> n.up, taken |-> n.taken, down |-> n.down, read |-> x, left |-> e, closed |-> n.closed]
    BY DEF Link
  <1>2. [Link(c, n) EXCEPT !.read = x]
          \in [up : {n.up}, taken : {n.taken}, down : {n.down}, read : {x}, left : {e}, closed : {n.closed}]
    BY DEF Link
  <1> HIDE DEF e
  <1>3. [Link(c, n) EXCEPT !.read = x]
          = [up |-> n.up, taken |-> n.taken, down |-> n.down, read |-> x, left |-> e, closed |-> n.closed]
    BY <1>2, LinkIs
  <1> QED
    BY <1>1, <1>3

LEMMA LinkTakes ==
    ASSUME NEW c, NEW d, NEW n, NEW m, NEW x, d.state = "closed" <=> c.state = "closed",
           m.taken = x, m.up = n.up, m.down = n.down, m.read = n.read, m.closed = n.closed
    PROVE  Link(d, m) = [Link(c, n) EXCEPT !.taken = x]
  <1> DEFINE e == c.state = "closed"
  <1>1. Link(d, m) = [up |-> n.up, taken |-> x, down |-> n.down, read |-> n.read, left |-> e, closed |-> n.closed]
    BY DEF Link
  <1>2. [Link(c, n) EXCEPT !.taken = x]
          \in [up : {n.up}, taken : {x}, down : {n.down}, read : {n.read}, left : {e}, closed : {n.closed}]
    BY DEF Link
  <1> HIDE DEF e
  <1>3. [Link(c, n) EXCEPT !.taken = x]
          = [up |-> n.up, taken |-> x, down |-> n.down, read |-> n.read, left |-> e, closed |-> n.closed]
    BY <1>2, LinkIs
  <1> QED
    BY <1>1, <1>3

LEMMA LinkReplies ==
    ASSUME NEW c, NEW d, NEW n, NEW m, NEW x, d.state = "closed" <=> c.state = "closed",
           m.down = x, m.up = n.up, m.taken = n.taken, m.read = n.read, m.closed = n.closed
    PROVE  Link(d, m) = [Link(c, n) EXCEPT !.down = x]
  <1> DEFINE e == c.state = "closed"
  <1>1. Link(d, m) = [up |-> n.up, taken |-> n.taken, down |-> x, read |-> n.read, left |-> e, closed |-> n.closed]
    BY DEF Link
  <1>2. [Link(c, n) EXCEPT !.down = x]
          \in [up : {n.up}, taken : {n.taken}, down : {x}, read : {n.read}, left : {e}, closed : {n.closed}]
    BY DEF Link
  <1> HIDE DEF e
  <1>3. [Link(c, n) EXCEPT !.down = x]
          = [up |-> n.up, taken |-> n.taken, down |-> x, read |-> n.read, left |-> e, closed |-> n.closed]
    BY <1>2, LinkIs
  <1> QED
    BY <1>1, <1>3

LEMMA LinkCloses ==
    ASSUME NEW c, NEW n, NEW m, m.closed = TRUE,
           m.up = n.up, m.taken = n.taken, m.down = n.down, m.read = n.read
    PROVE  Link(c, m) = [Link(c, n) EXCEPT !.closed = TRUE]
  <1> DEFINE e == c.state = "closed"
             x == TRUE
  <1>1. Link(c, m) = [up |-> n.up, taken |-> n.taken, down |-> n.down, read |-> n.read, left |-> e, closed |-> x]
    BY DEF Link
  <1>2. [Link(c, n) EXCEPT !.closed = x]
          \in [up : {n.up}, taken : {n.taken}, down : {n.down}, read : {n.read}, left : {e}, closed : {x}]
    BY DEF Link
  <1> HIDE DEF e, x
  <1>3. [Link(c, n) EXCEPT !.closed = x]
          = [up |-> n.up, taken |-> n.taken, down |-> n.down, read |-> n.read, left |-> e, closed |-> x]
    BY <1>2, LinkIs
  <1>4. Link(c, m) = [Link(c, n) EXCEPT !.closed = x]
    BY <1>1, <1>3
  <1> QED
    BY <1>4 DEF x

LEMMA WireStutters ==
    ASSUME \A k \in Conns : Link(conn'[k], net'[k]) = Link(conn[k], net[k])
    PROVE  UNCHANGED Wire
  <1>1. Wire = [k \in Conns |-> Link(conn[k], net[k])]
    BY DEF Wire, Link
  <1>2. Wire' = [k \in Conns |-> Link(conn'[k], net'[k])]
    BY DEF Wire, Link
  <1> QED
    BY <1>1, <1>2

LEMMA WireMoves ==
    ASSUME NEW k \in Conns, \A j \in Conns \ {k} : conn'[j] = conn[j] /\ net'[j] = net[j]
    PROVE  /\ Wire' = [Wire EXCEPT ![k] = Link(conn'[k], net'[k])]
           /\ Wire' = [j \in Conns |-> IF j = k THEN Link(conn'[k], net'[k]) ELSE Wire[j]]
  <1>1. Wire = [j \in Conns |-> Link(conn[j], net[j])]
    BY DEF Wire, Link
  <1>2. Wire' = [j \in Conns |-> Link(conn'[j], net'[j])]
    BY DEF Wire, Link
  <1> QED
    BY <1>1, <1>2

LEMMA InitRefines == Init => Contract!Init
  <1> SUFFICES ASSUME Init PROVE Contract!Init
    OBVIOUS
  <1>1. Wire = [k \in Conns |-> Link(conn[k], net[k])]
    BY DEF Wire, Link
  <1>2. ASSUME NEW k \in Conns
        PROVE  Link(conn[k], net[k]) = [up |-> 0, taken |-> 0, down |-> 0, read |-> 0,
                                        left |-> FALSE, closed |-> FALSE]
    <2>1. (conn[k].state = "closed") = FALSE
      BY DEF Init
    <2>2. /\ net[k].up = 0 /\ net[k].taken = 0 /\ net[k].down = 0 /\ net[k].read = 0
          /\ net[k].closed = FALSE
      BY DEF Init
    <2> QED
      BY <2>1, <2>2, Zenon DEF Link
  <1> QED
    BY <1>1, <1>2 DEF Contract!Init

\* The open connections are closed together at the end.
LEMMA CleanedRefines ==
    ASSUME ClientInv, conn' = Cleaned, UNCHANGED net,
           \A k \in Conns : conn[k].state = "open" =>
             \/ conn[k].received = conn[k].total \/ Fresh(conn[k])
             \/ \E j \in Conns : net[j].closed /\ conn[j].state = "open"
    PROVE  Contract!Next
  <1> DEFINE K == {k \in Conns : conn[k].state = "open"}
  <1>1. ASSUME NEW k \in K PROVE ~Wire[k].left /\ (Contract!Answered(k) \/ Contract!Excused)
    <2>1. ~Wire[k].left
      BY LinkFields
    <2>2. CASE conn[k].received = conn[k].total \/ Fresh(conn[k])
      <3>1. net[k].up * RespLen = net[k].read * ReqLen
        BY <2>2, ConnFacts, NothingOwed
      <3> QED
        BY <2>1, <3>1, LinkFields DEF Contract!Answered
    <2>3. ASSUME NEW j \in Conns, net[j].closed, conn[j].state = "open"
          PROVE  Contract!Excused
      BY <2>3, LinkFields DEF Contract!Excused
    <2> QED
      BY <2>1, <2>2, <2>3
  <1>2. Wire' = [k \in Conns |-> IF k \in K THEN [Wire[k] EXCEPT !.left = TRUE] ELSE Wire[k]]
    <2>1. Wire' = [k \in Conns |-> Link(conn'[k], net[k])]
      BY DEF Wire, Link
    <2>2. ASSUME NEW k \in Conns
          PROVE  Link(conn'[k], net[k])
                   = IF k \in K THEN [Wire[k] EXCEPT !.left = TRUE] ELSE Wire[k]
      <3>1. conn'[k] = IF conn[k].state = "open" THEN [conn[k] EXCEPT !.state = "closed"] ELSE conn[k]
        BY DEF Cleaned
      <3>2. conn[k] \in ConnType
        BY ConnFacts
      <3>3. CASE k \in K
        <4>1. conn'[k].state = "closed" /\ conn[k].state # "closed"
          BY <3>1, <3>2, <3>3, ClosedConn
        <4> DEFINE c == conn[k]
                   d == conn'[k]
                   n == net[k]
        <4>a. d.state = "closed"
          BY <4>1
        <4> HIDE DEF c, d, n
        <4>2. Link(d, n) = [Link(c, n) EXCEPT !.left = TRUE]
          BY <4>a, LinkLeaves
        <4> QED
          BY <3>3, <4>2, LinkFields DEF c, d, n
      <3>4. CASE k \notin K
        BY <3>1, <3>4, LinkFields
      <3> QED
        BY <3>3, <3>4
    <2> QED
      BY <2>1, <2>2
  <1>3. K \in SUBSET Conns /\ Contract!Leave(K)
    BY <1>1, <1>2 DEF Contract!Leave
  <1> QED
    BY <1>3 DEF Contract!Next

\* client_conn_handle_output writes, or only looks at its counters.
LEMMA OutputRefines ==
    ASSUME ClientInv, ~Ended, NEW t \in Workers, Output(t)
    PROVE  [Contract!Next]_Wire
  <1> DEFINE k == worker[t].conn
             c == conn[k]
             want == IF c.sleft = 0 THEN ReqLen ELSE c.sleft
             len == min(want, SockBuf - (net[k].up - net[k].taken))
             d == AfterSend(c, want, len)
             n == [net[k] EXCEPT !.up = @ + len]
  <1>1. /\ worker[t].pc = "output"
        /\ \/ OutputReturns(t, [c EXCEPT !.total = c.sent]) /\ UNCHANGED net
           \/ /\ ~net[k].closed /\ net' = [net EXCEPT ![k].up = @ + len]
              /\ OutputReturns(t, d) \/ conn' = [conn EXCEPT ![k] = d]
    BY DEF Output, UpRoom
  <1>2. k \in Conns /\ c.state = "open" /\ c.sent < c.total
    BY <1>1, WorkerFacts DEF Held
  <1>3. c \in ConnType /\ net[k] \in NetType /\ OnWire(c, net[k])
    BY <1>2, ConnFacts
  <1>4. ASSUME NEW b \in ConnType, b.state = "open",
               OutputReturns(t, b) \/ conn' = [conn EXCEPT ![k] = b]
        PROVE  \E a : conn' = [conn EXCEPT ![k] = a] /\ a.state = "open"
    <2>1. AfterOutput(b).state = "open"
      BY <1>4 DEF AfterOutput, ConnType
    <2> QED
      BY <1>4, <2>1 DEF OutputReturns
  <1>5. CASE OutputReturns(t, [c EXCEPT !.total = c.sent]) /\ UNCHANGED net
    <2> DEFINE b == [c EXCEPT !.total = c.sent]
    <2>1. b \in ConnType /\ b.state = "open"
      BY <1>2, <1>3 DEF ConnType
    <2> HIDE DEF b
    <2>2. PICK a : conn' = [conn EXCEPT ![k] = a] /\ a.state = "open"
      BY <1>4, <1>5, <2>1 DEF b
    <2>3. \A j \in Conns : conn'[j] = conn[j] \/ (j = k /\ conn'[j].state = "open")
      BY <1>2, <2>2 DEF ClientInv, Typed
    <2>4. UNCHANGED Wire
      BY <1>2, <1>5, <2>3, WireStutters DEF Link
    <2> QED
      BY <2>4
  <1>6. CASE /\ ~net[k].closed /\ net' = [net EXCEPT ![k].up = @ + len]
             /\ OutputReturns(t, d) \/ conn' = [conn EXCEPT ![k] = d]
    <2>1. d \in ConnType /\ n \in NetType /\ d.state = "open"
      BY <1>2, <1>3, SendWire
    <2>2. len \in 0 .. ReqLen
      BY <1>3, ClientAssumption DEF min, OnWire, ConnType, NetType
    <2>3. net' = [net EXCEPT ![k] = n]
      BY <1>6
    <2>4. /\ n.up = net[k].up + len /\ n.taken = net[k].taken /\ n.down = net[k].down
          /\ n.read = net[k].read /\ n.closed = net[k].closed
      BY <1>3 DEF NetType
    <2> HIDE DEF d, len, n
    <2>5. PICK a : conn' = [conn EXCEPT ![k] = a] /\ a.state = "open"
      BY <1>4, <1>6, <2>1
    <2>6. Wire' = [Wire EXCEPT ![k] = Link(a, n)]
      <3>1. /\ conn'[k] = a /\ net'[k] = n
            /\ \A j \in Conns \ {k} : conn'[j] = conn[j] /\ net'[j] = net[j]
        BY <1>2, <2>3, <2>5 DEF ClientInv, Typed
      <3>2. Wire' = [Wire EXCEPT ![k] = Link(conn'[k], net'[k])]
        BY <1>2, <3>1, WireMoves
      <3> QED
        BY <3>1, <3>2
    <2>7. Link(a, n) = [Link(c, net[k]) EXCEPT !.up = net[k].up + len]
      BY <1>2, <2>4, <2>5, LinkWrites
    <2>8. Wire[k] = Link(c, net[k]) /\ Wire[k].up = net[k].up
          /\ ~Wire[k].left /\ ~Wire[k].closed
      BY <1>2, <1>6, LinkFields
    <2>9. Wire' = [Wire EXCEPT ![k].up = @ + len]
      BY <2>6, <2>7, <2>8
    <2>10. CASE len = 0
      <3>1. n.up = net[k].up
        BY <1>3, <2>4, <2>10 DEF NetType
      <3>2. \A j \in Conns : Link(conn'[j], net'[j]) = Link(conn[j], net[j])
        BY <1>2, <2>3, <2>4, <2>5, <3>1 DEF Link, ClientInv, Typed
      <3> QED
        BY <3>2, WireStutters
    <2>11. CASE len # 0
      <3>1. len \in 1 .. ReqLen
        BY <2>2, <2>11
      <3>2. Contract!Write(k)
        BY <2>8, <2>9, <3>1 DEF Contract!Write
      <3> QED
        BY <1>2, <3>2 DEF Contract!Next
    <2> QED
      BY <2>10, <2>11
  <1> QED
    BY <1>1, <1>5, <1>6

\* The client closes one connection, all of its requests answered.
LEMMA LeaveRefines ==
    ASSUME ClientInv, NEW k \in Conns, NEW a, conn[k].state = "open",
           conn[k].received = conn[k].total,
           conn' = [conn EXCEPT ![k] = a], a.state = "closed", UNCHANGED net
    PROVE  Contract!Next
  <1> DEFINE c == conn[k]
             n == net[k]
             K == {k}
  <1>1. /\ conn'[k] = a /\ net'[k] = n
        /\ \A j \in Conns \ {k} : conn'[j] = conn[j] /\ net'[j] = net[j]
    BY DEF ClientInv, Typed
  <1>2. n.up * RespLen = n.read * ReqLen
    BY ConnFacts, NothingOwed
  <1>3. Wire[k] = Link(c, n) /\ ~Wire[k].left /\ Contract!Answered(k)
    BY <1>2, LinkFields DEF Contract!Answered
  <1> HIDE DEF c, n
  <1>4. Wire' = [j \in Conns |-> IF j = k THEN Link(conn'[k], net'[k]) ELSE Wire[j]]
    BY <1>1, WireMoves
  <1>5. Link(conn'[k], net'[k]) = [Wire[k] EXCEPT !.left = TRUE]
    <2>1. Link(a, n) = [Link(c, n) EXCEPT !.left = TRUE]
      BY LinkLeaves
    <2> QED
      BY <1>1, <1>3, <2>1
  <1>6. Wire' = [j \in Conns |-> IF j \in K THEN [Wire[j] EXCEPT !.left = TRUE] ELSE Wire[j]]
    BY <1>4, <1>5 DEF K
  <1>7. Contract!Leave(K)
    BY <1>3, <1>6 DEF Contract!Leave
  <1> QED
    BY <1>7 DEF Contract!Next

\* client_conn_handle_input reads, or closes an answered connection, or neither.
LEMMA InputRefines ==
    ASSUME ClientInv, ~Ended, NEW t \in Workers, Input(t)
    PROVE  [Contract!Next]_Wire
  <1> DEFINE k == worker[t].conn
             c == conn[k]
             want == IF c.rleft = 0 THEN RespLen ELSE c.rleft
             len == min(want, net[k].down - net[k].read)
             d == [c EXCEPT !.rleft = want - len, !.received = IF len = want THEN @ + 1 ELSE @]
             m == [net[k] EXCEPT !.read = @ + len]
  <1>1. /\ worker[t].pc = "input"
        /\ \/ InputDone(c) /\ InputReturns(t, c) /\ UNCHANGED net
           \/ /\ len > 0 /\ net' = [net EXCEPT ![k].read = @ + len]
              /\ conn' = [conn EXCEPT ![k] = d]
           \/ len = 0 /\ InputReturns(t, d) /\ UNCHANGED net
           \/ /\ conn' = [conn EXCEPT ![k] = d]
              /\ UNCHANGED net \/ net' = [net EXCEPT ![k].err = FALSE]
    BY DEF Input, DownWait
  <1>2. k \in Conns /\ c.state = "open"
    BY <1>1, WorkerFacts DEF Held
  <1>3. c \in ConnType /\ net[k] \in NetType /\ OnWire(c, net[k])
    BY <1>2, ConnFacts
  <1>4. /\ d \in ConnType /\ m \in NetType /\ d.state = c.state /\ d.total = c.total
        /\ len = 0 => d.received = c.received
    BY <1>3, ReceiveWire
  <1>5. len <= net[k].down - net[k].read
    BY <1>3, ClientAssumption DEF min, OnWire, ConnType, NetType
  <1>6. len \in Int /\ net[k].down \in Nat /\ net[k].read \in Nat
    BY <1>3, ClientAssumption DEF min, ConnType, NetType
  <1>7. m.read = net[k].read + len /\ m.up = net[k].up /\ m.taken = net[k].taken
        /\ m.down = net[k].down /\ m.closed = net[k].closed
    BY <1>3 DEF NetType
  <1> HIDE DEF d, len, m
  <1>8. ASSUME NEW b \in ConnType, b.state = "open", b.received = c.received, b.total = c.total,
               InputReturns(t, b), UNCHANGED net
        PROVE  [Contract!Next]_Wire
    <2>1. conn' = [conn EXCEPT ![k] = AfterInput(b)]
      BY <1>8 DEF InputReturns
    <2>2. CASE b.received = b.total
      <3>1. AfterInput(b).state = "closed"
        BY <1>8, <2>2 DEF AfterInput, ConnType
      <3> QED
        BY <1>2, <1>8, <2>1, <2>2, <3>1, LeaveRefines
    <2>3. CASE b.received # b.total
      <3>1. AfterInput(b).state = "open"
        BY <1>8, <2>3 DEF AfterInput
      <3>2. \A j \in Conns : conn'[j] = conn[j] \/ (j = k /\ conn'[j].state = "open")
        BY <1>2, <2>1, <3>1 DEF ClientInv, Typed
      <3>3. UNCHANGED Wire
        BY <1>2, <1>8, <3>2, WireStutters DEF Link
      <3> QED
        BY <3>3
    <2> QED
      BY <2>2, <2>3
  <1>9. CASE InputDone(c) /\ InputReturns(t, c) /\ UNCHANGED net
    BY <1>2, <1>3, <1>8, <1>9
  <1>10. CASE len = 0 /\ InputReturns(t, d) /\ UNCHANGED net
    BY <1>2, <1>4, <1>8, <1>10
  <1>11. CASE len > 0 /\ net' = [net EXCEPT ![k].read = @ + len] /\ conn' = [conn EXCEPT ![k] = d]
    <2>1. net' = [net EXCEPT ![k] = m]
      BY <1>11 DEF m
    <2>2. Wire' = [Wire EXCEPT ![k] = Link(d, m)]
      <3>1. /\ conn'[k] = d /\ net'[k] = m
            /\ \A j \in Conns \ {k} : conn'[j] = conn[j] /\ net'[j] = net[j]
        BY <1>2, <1>11, <2>1 DEF ClientInv, Typed
      <3>2. Wire' = [Wire EXCEPT ![k] = Link(conn'[k], net'[k])]
        BY <1>2, <3>1, WireMoves
      <3> QED
        BY <3>1, <3>2
    <2>3. Link(d, m) = [Link(c, net[k]) EXCEPT !.read = net[k].read + len]
      BY <1>2, <1>4, <1>7, LinkReads
    <2>4. /\ Wire[k] = Link(c, net[k]) /\ Wire[k].read = net[k].read
          /\ Wire[k].down = net[k].down /\ ~Wire[k].left
      BY <1>2, LinkFields
    <2>5. Wire' = [Wire EXCEPT ![k].read = @ + len]
      BY <2>2, <2>3, <2>4
    <2>6. len \in 1 .. Wire[k].down - Wire[k].read
      BY <1>5, <1>6, <1>11, <2>4
    <2>7. Contract!Read(k)
      BY <2>4, <2>5, <2>6 DEF Contract!Read
    <2> QED
      BY <1>2, <2>7 DEF Contract!Next
  <1>12. CASE conn' = [conn EXCEPT ![k] = d] /\ UNCHANGED net
    <2>1. \A j \in Conns : conn'[j] = conn[j] \/ (j = k /\ conn'[j].state = "open")
      BY <1>2, <1>4, <1>12 DEF ClientInv, Typed
    <2>2. UNCHANGED Wire
      BY <1>2, <1>12, <2>1, WireStutters DEF Link
    <2> QED
      BY <2>2
  <1>13. CASE conn' = [conn EXCEPT ![k] = d] /\ net' = [net EXCEPT ![k].err = FALSE]
    <2>1. \A j \in Conns : conn'[j] = conn[j] \/ (j = k /\ conn'[j].state = "open")
      BY <1>2, <1>4, <1>13 DEF ClientInv, Typed
    <2>2. ASSUME NEW j \in Conns
          PROVE  /\ net'[j].up = net[j].up /\ net'[j].taken = net[j].taken
                 /\ net'[j].down = net[j].down /\ net'[j].read = net[j].read
                 /\ net'[j].closed = net[j].closed
      BY <1>2, <1>3, <1>13, ConnFacts DEF ClientInv, Typed, NetType
    <2>3. UNCHANGED Wire
      BY <1>2, <2>1, <2>2, WireStutters DEF Link
    <2> QED
      BY <2>3
  <1> QED
    BY <1>1, <1>9, <1>10, <1>11, <1>12, <1>13

\* The server's steps are the contract's.
LEMMA ServerRefines ==
    ASSUME ClientInv, NEW k \in Conns, ServerStep(k) \/ ServerClose(k)
    PROVE  Contract!Next
  <1> DEFINE c == conn[k]
             o == net[k]
             n == net'[k]
  <1>1. UNCHANGED conn /\ \A j \in Conns \ {k} : conn'[j] = conn[j] /\ net'[j] = net[j]
    BY DEF ServerStep, ServerTake, ServerReply, ServerClose, ClientInv, Typed
  <1>2. /\ Wire[k] = Link(c, o) /\ Wire[k].up = o.up /\ Wire[k].taken = o.taken
        /\ Wire[k].down = o.down /\ Wire[k].read = o.read
        /\ Wire[k].left = (c.state = "closed") /\ Wire[k].closed = o.closed
    BY LinkFields
  <1>3. Wire' = [Wire EXCEPT ![k] = Link(c, n)]
    BY <1>1, WireMoves
  <1>4. o \in NetType /\ {ReqLen, RespLen, SockBuf} \subseteq Nat \ {0}
    BY ConnFacts, ClientAssumption
  <1>5. CASE ServerTake(k)
    <2>1. n = [o EXCEPT !.taken = @ + 1] /\ ~o.closed /\ o.taken < o.up
      BY <1>5 DEF ServerTake, ClientInv, Typed
    <2>2. /\ n.taken = o.taken + 1 /\ n.up = o.up /\ n.down = o.down /\ n.read = o.read
          /\ n.closed = o.closed
      BY <1>4, <2>1 DEF NetType
    <2>3. Link(c, n) = [Link(c, o) EXCEPT !.taken = o.taken + 1]
      BY <2>2, LinkTakes
    <2> HIDE DEF c, o, n
    <2>4. Wire' = [Wire EXCEPT ![k].taken = @ + 1]
      BY <1>2, <1>3, <2>3
    <2>5. 1 \in 1 .. Wire[k].up - Wire[k].taken
      BY <1>2, <1>4, <2>1 DEF NetType
    <2>6. Contract!Take(k)
      BY <1>2, <2>1, <2>4, <2>5 DEF Contract!Take
    <2> QED
      BY <2>6 DEF Contract!Next
  <1>6. CASE ServerReply(k)
    <2>1. /\ n = [o EXCEPT !.down = @ + 1] /\ ~o.closed /\ o.down - o.read < SockBuf
          /\ o.down < (o.taken \div ReqLen) * RespLen
      BY <1>6 DEF ServerReply, DownWait, ClientInv, Typed
    <2>2. /\ n.down = o.down + 1 /\ n.up = o.up /\ n.taken = o.taken /\ n.read = o.read
          /\ n.closed = o.closed
      BY <1>4, <2>1 DEF NetType
    <2>3. Link(c, n) = [Link(c, o) EXCEPT !.down = o.down + 1]
      BY <2>2, LinkReplies
    <2> HIDE DEF c, o, n
    <2>4. Wire' = [Wire EXCEPT ![k].down = @ + 1]
      BY <1>2, <1>3, <2>3
    <2>5. (o.taken \div ReqLen) * RespLen \in Int
      <3>1. o.taken \div ReqLen \in Nat
        BY <1>4, MoreRequests DEF NetType
      <3> QED
        BY <1>4, <3>1, Times
    <2>6. /\ 1 \in 1 .. RespLen /\ Wire[k].down + 1 <= Contract!Due(k)
          /\ Wire[k].down + 1 <= Wire[k].read + SockBuf
      BY <1>2, <1>4, <2>1, <2>5 DEF NetType, Contract!Due
    <2>7. Contract!Reply(k)
      BY <1>2, <2>1, <2>4, <2>6 DEF Contract!Reply
    <2> QED
      BY <2>7 DEF Contract!Next
  <1>7. CASE ServerClose(k)
    <2>1. /\ n = [o EXCEPT !.closed = TRUE, !.err = o.taken < o.up] /\ ~o.closed
          /\ ServerCloses
      BY <1>7 DEF ServerClose, ClientInv, Typed
    <2>2. /\ n.down = o.down /\ n.up = o.up /\ n.taken = o.taken /\ n.read = o.read
          /\ n.closed = TRUE
      BY <1>4, <2>1 DEF NetType
    <2>3. Link(c, n) = [Link(c, o) EXCEPT !.closed = TRUE]
      BY <2>2, LinkCloses
    <2> HIDE DEF c, o, n
    <2>4. Wire' = [Wire EXCEPT ![k].closed = TRUE]
      BY <1>2, <1>3, <2>3
    <2>5. Contract!Close(k)
      BY <1>2, <2>1, <2>4 DEF Contract!Close
    <2> QED
      BY <2>5 DEF Contract!Next
  <1> QED
    BY <1>5, <1>6, <1>7 DEF ServerStep

\* Steps the contract does not see.
LEMMA Unseen ==
    ASSUME ClientInv, UNCHANGED net,
           \A k \in Conns : conn'[k].state = "closed" <=> conn[k].state = "closed"
    PROVE  UNCHANGED Wire
  <1>1. \A k \in Conns : Link(conn'[k], net'[k]) = Link(conn[k], net[k])
    BY DEF Link
  <1> QED
    BY <1>1, WireStutters

\* The process ends: nothing was sent yet, all is answered, or the server closed.
LEMMA EndRefines ==
    ASSUME ClientInv,
           InitFail \/ CleanupStarted \/ Finish \/ (~Ended /\ \E t \in Workers : Killed(t))
    PROVE  [Contract!Next]_Wire
  <1>1. CASE InitFail \/ (CleanupStarted /\ conn' = Cleaned)
    <2>1. main \in {"init", "cleanup"} /\ conn' = Cleaned /\ UNCHANGED net
      BY <1>1 DEF InitFail, CleanupStarted
    <2>2. ASSUME NEW k \in Conns PROVE Fresh(conn[k])
      <3>1. worker[OwnerOf[k]].pc \in Unstarted
        BY <2>1, ConnFacts DEF ClientInv, StartInv
      <3> QED
        BY <3>1, ConnFacts DEF ConnOK
    <2> QED
      BY <2>1, <2>2, CleanedRefines
  <1>2. CASE CleanupStarted /\ UNCHANGED conn
    BY <1>2, Unseen DEF CleanupStarted
  <1>3. CASE Finish
    <2>1. conn' = Cleaned /\ UNCHANGED net /\ ThreadsDone
      BY <1>3 DEF Finish
    <2>2. ASSUME NEW k \in Conns PROVE conn[k].received = conn[k].total \/ Fresh(conn[k])
      <3>1. worker[OwnerOf[k]].pc = "returned"
        BY <2>1, ConnFacts DEF ThreadsDone
      <3> QED
        BY <3>1, ConnFacts DEF ConnOK
    <2> QED
      BY <2>1, <2>2, CleanedRefines
  <1>4. ASSUME ~Ended, NEW t \in Workers, Killed(t) PROVE [Contract!Next]_Wire
    <2>1. /\ worker[t].pc = "output" /\ net[worker[t].conn].closed
          /\ conn' = Cleaned /\ UNCHANGED net
      BY <1>4 DEF Killed
    <2>2. worker[t].conn \in Conns /\ conn[worker[t].conn].state = "open"
      BY <1>4, <2>1, WorkerFacts DEF Held
    <2> QED
      BY <2>1, <2>2, CleanedRefines
  <1> QED
    BY <1>1, <1>2, <1>3, <1>4 DEF CleanupStarted

LEMMA StepRefines == ClientInv /\ [Next]_vars => [Contract!Next]_Wire
  <1> SUFFICES ASSUME ClientInv, [Next]_vars PROVE [Contract!Next]_Wire
    OBVIOUS
  <1>1. CASE UNCHANGED <<conn, net>>
    BY <1>1, Unseen
  <1>2. ASSUME NEW k \in Conns, Connect(k) PROVE [Contract!Next]_Wire
    <2>1. conn[k] \in ConnType /\ conn[k].state = "none" /\ UNCHANGED net
          /\ conn' = [conn EXCEPT ![k] = [conn[k] EXCEPT !.state = "open", !.total = Requests]]
      BY <1>2, ConnFacts DEF Connect
    <2>2. \A j \in Conns : conn'[j] = conn[j] \/ (j = k /\ conn'[j].state = "open")
      BY <2>1 DEF ClientInv, Typed, ConnType
    <2> QED
      BY <2>1, <2>2, Unseen
  <1>3. ASSUME NEW t \in Workers, InitEpoll(t) PROVE [Contract!Next]_Wire
    <2>1. ASSUME NEW j \in Conns PROVE conn'[j].state = conn[j].state
      BY <1>3, ConnFacts DEF InitEpoll, ConnType
    <2> QED
      BY <1>3, <2>1, Unseen DEF InitEpoll
  <1>4. ASSUME NEW t \in Workers, Dispatch(t) PROVE [Contract!Next]_Wire
    <2>1. ASSUME NEW j \in Conns PROVE conn'[j].state = conn[j].state
      <3>1. CASE UNCHANGED conn
        BY <3>1
      <3>2. CASE \E e \in worker[t].events :
                   conn' = [conn EXCEPT ![e.conn].started = @ \/ (e.out /\ conn[e.conn].sent = 0)]
        <4>1. PICK k, b : conn' = [conn EXCEPT ![k].started = b]
          BY <3>2
        <4> QED
          BY <4>1, ConnFacts DEF ClientInv, Typed, ConnType
      <3> QED
        BY <1>4, <3>1, <3>2 DEF Dispatch
    <2> QED
      BY <1>4, <2>1, Unseen DEF Dispatch
  <1>5. ASSUME NEW t \in Workers, WorkerStep(t) PROVE [Contract!Next]_Wire
    <2>1. CASE Arrives(t) \/ InitEpollFail(t) \/ WorkerReturn(t) \/ EpollWait(t)
      BY <1>1, <2>1 DEF Arrives, InitEpollFail, WorkerReturn, EpollWait
    <2>2. CASE InitEpoll(t) \/ Dispatch(t)
      BY <1>3, <1>4, <2>2
    <2>3. CASE Output(t) \/ Input(t) \/ Killed(t)
      BY <1>5, <2>3, OutputRefines, InputRefines, EndRefines DEF WorkerStep
    <2> QED
      BY <1>5, <2>1, <2>2, <2>3 DEF WorkerStep
  <1>6. CASE MainStep
    <2>1. CASE Prepared \/ (\E t \in Workers : CreateThread(t) \/ StoreTi(t))
               \/ CreateFail \/ MainArrives \/ Barrier
      BY <1>1, <2>1 DEF Prepared, CreateThread, StoreTi, CreateFail, MainArrives, Barrier
    <2> QED
      BY <1>2, <1>6, <2>1, EndRefines DEF MainStep
  <1>7. ASSUME NEW k \in Conns, ServerStep(k) \/ ServerClose(k) PROVE [Contract!Next]_Wire
    BY <1>7, ServerRefines
  <1>8. CASE Deadline \/ UNCHANGED vars
    BY <1>1, <1>8 DEF Deadline, vars
  <1> QED
    BY <1>5, <1>6, <1>7, <1>8 DEF Next, Over

\* The client implements the contract: it leaves a connection only when all it
\* sent is answered, unless the server has ended one of its connections.
THEOREM ClientKeepsContract == Spec => ImplementsService
  BY ClientInvariant, InitRefines, StepRefines, PTL DEF Spec, ImplementsService, Contract!Spec
=============================================================================

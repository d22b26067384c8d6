# A verification project for piotbench

piotbench is a client and a server that measure the cost of system calls: the
client sends fixed-size requests over `AF_UNIX` stream sockets, the server hashes
each request for a configured time and answers it. The server is a pipeline of
thread pools joined by hand-written queues and spinlocks, and that pipeline is
what this project is about. There is no test in the repository, and the only
documentation is the text of the parameters and the comments.

Paths below are relative to the repository: `include/...`, `src/server/...`,
`src/client/...`.

## Inventory

| Part | Source | State | Operations |
|---|---|---|---|
| Queue | `include/queue.h`, `include/lock.h` | linked list, `head`/`tail` with a lock each, the divider node | `queue_put`, `queue_get`, `lock`, `unlock`, `trylock` |
| Accept threads | `src/server/io/accept.c` | a session object taken from the pool, a new descriptor | `accept_worker`, `handle_accept` |
| IO threads | `src/server/io/io.c`, `io.h` | the batch of epoll events | `handle_request`, `handle_response`, `finish_connection`, `epoll_set_conn_state` |
| Compute threads | `src/server/compute.c` | the buffer at hand | `compute_worker` |
| Submit threads | `src/server/io/submit.c` | the buffer at hand | `__submitter_worker` |
| Pools | `src/server/main.c`, `include/server.h` | `empty_connections`, `empty_buffers`, one inbox for each compute and submit thread | `setup_server_prealloc` |
| Server life cycle | `src/server/main.c`, `src/thread.c` | what the context holds, thread groups, `stopping` | `create_server`, `thread_group_create`, `run_server`, `sigint_handler`, `destroy_server` |
| Debug output | `include/debug.h` | `debug_mutex` | `debug` |
| Client workers | `src/client/worker.c` | per connection: bytes left in both directions, `sent`, `received`, `total` | `client_conn_handle_output`, `client_conn_handle_input` |
| Client main | `src/client/main.c` | connections, `ti` of the workers, start barrier, `deadline`, `stopping` | `init_client`, `start_client`, `run_client`, `join_client`, `cleanup_client` |
| Command line | `src/command.c` | the configuration | `parse_params` |
| Kerncall shims | `src/server/io/kerncall.c`, `sysinface.c` | a per-thread descriptor | the system calls in another processor mode |

How they interact. A connection is accepted into a session object
(`server_connection_t`) and registered with the epoll of one IO thread. That thread
reads a request into a buffer (`server_buffer_t`) from the common pool and puts it in
the inbox of a compute thread, which puts it in the inbox of a submit thread, which
puts it in the session's `send_queue` and arms `EPOLLOUT`; the IO thread sends it and
returns the buffer. The IO thread and the submit thread share the session: its
counters, `closed`, `epoll_state` and `send_queue`, under `conn->lock`, which both
may fail to take with `trylock`. A session that ends with buffers in the pipeline is
not released by the IO thread but by the submit thread that disposes of the last
one.

`main` of either program parses the command line into a configuration. The server's
main thread then builds the context, starts the four groups of threads, sleeps until
`stopping`, joins the groups and frees what it built; `stopping` is set by the SIGINT
handler, which runs on some thread and prints through `debug` like everybody else.
The client's main thread connects, starts its workers and waits with them at a
barrier, then watches the deadline until they have returned.

What is hard: two stores that link a node while a consumer reads; the divider that a
consumer takes out of the list and puts back; the race of `finish_connection` with
the submitter; a decision taken on three counters owned by different threads;
arming and disarming `EPOLLOUT` from both sides; partial sends and receives; the
pool running dry; objects that are reused without being cleared; clients that reset
or half-close; a client stopped in the middle of a request; a set-up that fails half
way, in either program; a signal handler that takes a lock; threads that must be gone
before what they use is freed. `PROJECT.json` lists
each of these under `hazards`, at its line.

What makes each part correct: the queue hands every node to one consumer, in order,
and loses none; a buffer is always in exactly one place; a session is released once,
after its last buffer; a response that waits keeps `EPOLLOUT` armed; a client
receives whole responses to requests it sent, and all of them; the client counts what
it sent and received and ends; neither side breaks what the other relies on; threads
run only on what exists; a signal stops the server; a failed start is seen as one.

## Modules

| Module | Models | Notes |
|---|---|---|
| `Fifo` | what `queue.h` promises | abstract: a call begins, takes effect in one step, returns |
| `Queue` | `queue.h`, `lock.h` | one step per access to shared memory |
| `QueueProofs` | theorems about `Queue` | TLAPS |
| `Service` | the contract of client and server on a connection | abstract: byte counts and who has left |
| `Server` | accept, IO, compute and submit threads, pools, sockets, stopping | queues are atomic; implements `Service` |
| `Client` | client workers and main thread | implements `Service` |
| `Command` | the parameter tables and the parser | used by `Lifecycle` |
| `ServerInvariant` | the inductive invariant of `Server` | definitions only; says when it holds (`Orderly`) |
| `ServerStructure`, `ServerOwnership`, `ServerProofs`, `ServerAnswers` | theorems about `Server` | TLAPS, each extends the one before |
| `ClientProofs`, `CommandProofs`, `LifecycleProofs` | theorems about the module of that name | TLAPS |
| `Lifecycle` | `main`, set-up, SIGINT, shutdown, thread groups, `debug_mutex` | extends `Command`; threads only start, log and return |
| `MCQueue`, `MCServer`, `MCClient`, `MCLifecycle` | instances for TLC | symmetry for the safety runs of `Server` |

How they fit together: `Queue` implements `Fifo`, and `Server` uses what `Fifo`
promises. `Server` and `Client` both implement `Service`, each taking the other's
steps for its environment, so that the assumptions of one are what the other shows.
`Lifecycle` relies on the threads of `Server` returning once `stopping` is set, which
is `ThreadsStop`; `Server` relies on everything existing while they run, which is
`UsesLive`.

### Queue and Fifo

`next`, `head`, `tail`, `head_lock` and `tail_lock` are the memory of the queue; `new`,
`cur` and `succ` are the locals of the two functions; `pc` says which access comes
next. A `queue_get` that popped the divider runs the steps of `queue_put` for it and
goes round again. `hand[t]` are the nodes thread t owns. `q` and `dpos` are
auxiliary: they record the nodes linked in the list and the divider's place, and no
guard of a step reads them.

`lock` is one step (the successful compare-and-swap); the spinning before it changes
nothing. `queue_head_init` followed by `next = NULL` is one step, because the node
is still private. x86 keeps stores in order, so the interleaving of accesses is
the memory model of the build.

`Fifo` is what callers may rely on. Its one surprise is `MayMiss`: `queue_get` may
return NULL with one node in the queue, but only while another `queue_get` runs (it
has the divider out of the list). `Queue!ImplementsFifo` is the refinement: a put
takes effect when it links the node, a get when it advances `head` or reads NULL.

### Server

`Server` uses the queues as atomic sequences, which `QueueRefinesFifo` justifies:
the effect of a call is one step of the caller, and where a pool has several
consumers (`empty_buffers` with several IO threads) a get may miss the last element.
`handle_accept` does likewise: an accept thread first sees that a connection waits
(`AcceptWait`) and then calls `queue_get`, which gives it a session (`AcceptGet`) or
NULL (`AcceptMiss`), whatever the others have done to the backlog in between.

| Variable | Code |
|---|---|
| `conn[c]` | `server_connection_t`; `fd` is the client's name, `epoll_state` also the kernel's interest set |
| `buf[b]` | `server_buffer_t`; `msg` names the request (client, number), `left` counts bytes |
| `empty_connections`, `empty_buffers`, `compute_inbox`, `submitter_inbox` | the queues of `server_queues_t` |
| `io`, `sub`, `cmp`, `acc` | where each thread is and its locals |
| `sock`, `backlog` | the kernel: bytes written and consumed, the stream of response bytes, which end is closed |

Each access that another thread can see is a step: taking and releasing
`conn->lock`, each queue operation, each `send` and `recv`. Steps combine accesses
only where no other thread can tell, and `FinishDrain` says why. The names of the
steps are those of the function they belong to: `Resp...` is `handle_response`,
`Req...` is `handle_request`, `Finish...` is `finish_connection`, `Submit...` is
`__submitter_worker`, `Accept...` is `handle_accept`. Bytes are counted one by one
so that short reads and writes, EAGAIN and `max_io_size` all occur.

The sockets and the clients are external and modelled from the calls of `io.c`: a
client writes and reads one byte at a time, closes when it has all its answers, and,
when `Closing` says so, shuts down its sending side or closes at any time. A client
that closes with unread responses leaves an error (EPOLLERR) on the socket.

A thread function is a loop while `!stopping`, in two levels. `Loop(t)` is the test at
its head, part of the step that reaches it; a round that finds nothing to do changes
nothing unless the server is stopping, and then the thread returns (`AcceptIdle`,
`IOIdle`, `ComputeIdle`, `SubmitIdle`). `accept4` fails when `FdLimit` descriptors are
open, and with `CtlFails` adding a session to its epoll may fail: in both cases the
thread ends holding the session.

### Service

One record per connection: bytes written, taken by the server, sent back and read,
whether the client has left and whether the server has closed. A client leaves when
every byte it sent belongs to an answered request; the server never sends more than
one response per whole request taken, never more than the socket holds, and closes
after the client. `Abrupt` says which side may end a connection early, and then the
other may too. `Service` says nothing about progress: that is `RequestsAnswered` and
`Ends`.

### Client

One record per connection (`sleft` and `rleft` are the two `left` fields), one per
worker, the main thread's place in `run_client`, and two byte counters for each
direction of a socket. `EpollWait` takes `MAX_EVENTS` of the ready connections, or all
if they are fewer. A step of a handler is one round of its loop. The server is
external: it takes bytes, answers whole requests, and may close when `ServerCloses`.
A send to a closed peer kills the client, which does not handle SIGPIPE. A `recv` of
0 makes the loop call `recv` again with the same state, so the spin is a step that
changes nothing but `left`.

The start is modelled call by call. `CreateThread` and `StoreTi` are two steps, because
the new thread runs before its `ti` is stored; `Arrives`, `MainArrives` and `Barrier` are
`pthread_barrier_wait`. `Faults` says which calls may fail: `connect`, the creation
of a thread, and the epoll set-up of a worker. When a thread cannot be created,
`cleanup_client` destroys a barrier at which threads may wait; that is undefined, and
both outcomes are allowed: main waits for ever (`stuck`) or frees and exits.

### Command

`ParseArg` is one round of the loop of `parse_params`. An argument is its name and what
`sscanf` sees of its text: the first word, and the number it begins with. `%u` and `%d`
wrap at the width of `int`: values are taken modulo `2 * IntLimit`. The tables are those of the two programs, with their defaults;
fields keep their C names (`threads.io`).

### Lifecycle

`main` is the main thread's place, `held` what the context holds, `groups` the thread
groups stored in it. `create_server` is a sequence of stages, each of which may fail
and then runs `destroy_server` on what there is. Only the allocation of a queue fails
otherwise: `alloc_queue_root` writes through the NULL that `malloc` returned, and the
process ends there (`AllocQueueFail`). `thread_group_create` starts one thread
at a time and may fail between two, or store beyond the end of the group, after which
anything may happen (`SpawnOverrun` ends the process as `undefined`).

The handler is modelled access by access: the test of `*stop`, `debug`, the store. The
kernel runs it on main unless main is in it already. `mutex` is `debug_mutex`: main
holds it in `thread_join` only, threads when they log. `Stuck` is the handler
spinning for a lock its own thread holds. A context or queue used after it was freed
may read as anything, and a thread that does may crash the process (`TouchesFreed`).

## Runs

| Run | Properties | Shows |
|---|---|---|
| `queue` | `TypeOK`, `MutualExclusion`, `ListIntact`, `SingleOwner`, `LocalsCurrent`, `ImplementsFifo`, `NodeDelivered` | the parts of the inductive invariant, the refinement, and that the divider strands no node; one of the four threads puts back what it got, as the submitter does |
| `server_pipeline` | `TypeOK`, `BufferConserved`, `ConnLock`, `OutArmed`, `PoolCirculates` | two clients on two IO threads, two buffers, short reads |
| `server_ahead` | `ReadaheadBounded`, `ResponsesFramed`, `ReleasedForgotten`, `ImplementsService` | three buffers, so that the limit and not the pool stops the reading; short writes; two accept threads, with `accept4` and `epoll_ctl` failing |
| `server_half` | `CountersAccount`, `ReleasedForgotten`, `DelegatedInFlight` | sessions that end with several requests in the pipeline, and are reused |
| `server_abort` | `BufferConserved`, `ConnLock`, `ReleasedForgotten`, `FinishedOnce` | closes at any time, readahead 0 |
| `server_live` | `RequestsAnswered`, `AllReturned`, `ThreadsStop` | liveness with one buffer for two clients, and a stop at any moment |
| `client_run` | `TypeOK`, `CountsMatchWire`, `BarrierPublishes`, `Armed`, `StatsComplete`, `Ends`, `ImplementsService` | two workers; every call of the start may fail, the server may close; the deadline comes at any moment or never |
| `lifecycle` | `TypeOK`, `ParsedAsGiven`, `UsesLive`, `FirstSignalSafe`, `FailureVisible`, `SignalStops`, `RepeatExits` | seven command lines of both programs, every failure of the set-up, up to two signals at any moment |

Four runs are expected to find a violation, and do:

- `server_leak` (`DelegatedInFlight`): `finish_connection` gives a half-sent response
  back to the pool without counting it as sent. The session then looks as if
  something were in flight and is left to a submitter that never comes. It takes a
  socket that is full when the client's end of file arrives.
- `server_twice` (`FinishedOnce`): `handle_response` returns 0 after it finished a
  session, so the EPOLLIN part of the same event runs `handle_request` on the
  closed session, which finishes it again and returns its buffers twice.
- `client_eof` (`DeadlineEnds`): a worker spins on end of file, and the deadline does not
  end the client.
- `client_stats` (`StatsMeasured`): a client that the deadline stops before it sent a
  request divides by zero after it logged that all threads finished successfully.

The first has a consequence that no run shows. With a readahead of at least 2, buffers
may still be in flight when `finish_connection` returns the half-sent `sendbuf`; the
submitter then disposes of them and does release the session, and `handle_accept`, which
clears `recvbuf` and not `sendbuf`, hands it out with a buffer that is in the pool. No
double cleanup comes into it. TLC finds it, as a violation of `BufferConserved`, with the
constants of `server_half` and these in their place: `SockBuf = 1`, `MaxRequests = 3`.

The first two limit what can be claimed with clients that abort: `server_half` uses
sockets that never fill, and `server_abort` uses readahead 0, under which
`handle_request` never touches a session with a response under way.

Other limits worth knowing, each an exception that a property names:

- `load.readahead` is "Max readahead for each connection", and the bound that holds
  (`ReadaheadBounded`) is one more than it.
- An accept thread can block in `accept4`, with a session object in hand, after another
  one took the connection both saw. Until a client connects it does not return
  (`AllReturned`, `ThreadsStop`, `SignalStops`); a second SIGINT ends the server
  then.
- The second SIGINT deadlocks if it interrupts a thread that holds `debug_mutex`; the
  first cannot (`FirstSignalSafe`).
- The threads of a group that was given up half way run on freed memory (`UsesLive`).
- A set-up that fails ends the server by a null dereference, not by an error status of
  its own (`FailureVisible`).
- `load.max_io_size` may be given as 0. Then every `recv` asks for no bytes, its 0 is taken
  for the end of the connection (`io.c:79`), and no request is served:
  `ServerAssumption` leaves this configuration out.
- A client whose second thread cannot be created may wait for ever in its clean-up, and
  one whose server closes a connection may spin (`Ends`).

### Bounds

Every bound is a constant. Two sessions, buffers and clients let a session be reused
and a buffer pass from one session to another; two requests per client let a session
have one in flight and one in the send queue; lengths of 1 and 2 with sockets of 1 to
4 bytes make every transfer both whole and partial; `FdLimit` is reached in
`server_ahead` only. `MAX_EVENTS` is 10 as in the code, and so exceeds the number of sessions
and of connections of a worker in every run: a batch holds all that is ready. In
practice it need not (the defaults are 100 sessions and 20 connections); the theorems
hold for any `MAX_EVENTS`. `MaxRequests` bounds the clients and not the server. `server_live` has
one request per client and a single buffer: the stop at any moment multiplies the
states, and what it asks of requests is that none is forgotten. The race at `EPOLLOUT`
and the reordering of responses, which take two requests of one session, are the
business of `OutArmed` and `ResponsesFramed`. In `Queue`, three
getters and three nodes allow one thread to rotate the divider, one to be inside
`queue_get` and one to be spinning.

`client_run` gives each of two workers one connection, so that workers meet at the
barrier and in the report; `client_eof` and `client_stats` give one worker two
connections, so that a batch of events has more than one.

In `Lifecycle` a group has at most two threads (`THREAD_GROUP_MAX`; one command line
asks for three), a process gets two signals (`MaxSignals`), which is a first and a
repeated one, and threads log once before they finish (`MaxLogs`), besides the log when
they do. `IntLimit` is 2^27 so that TLC's integers hold numbers beyond the type.

`CHECK_DEADLOCK` is on everywhere. `Over` is the one step that lets a finished
system stay as it is.

### Fairness

Every thread of the server loops until `stopping` and is scheduled by the operating
system: weak fairness of each thread's steps. Nothing stronger is assumed of the
spinlocks; it is not needed because a holder always leaves and the waiters are few.
The clients of `server_live` keep writing, reading and, when
all is answered, closing, as the repository's client does (`client_run`:
`ImplementsService` and `Ends`). The client's fairness is that of its threads, and that the
server serves an open connection, which is what `server_live` shows of the server.
That the deadline comes is assumed in `client_eof` only (`TimedSpec`); `Ends` in
`client_run` holds with and without it. In `Lifecycle` main, the handlers and the
threads keep executing, and a thread leaves its loop when it reads `stopping`
(`ThreadsStop`); no failure, signal, connection or log of a running thread is assumed to
come.

## Proofs

`tlapm` checks every theorem below for all values of the constants. Each theorem module
EXTENDS the module it is about. The assumptions are the named ones of the models:

| Assumption | Says | Justified by |
|---|---|---|
| `SpecialPointers` | the divider, NULL and the poison value are not nodes | they are distinct addresses |
| `CommandAssumption` | the width of `int` is positive, arguments are arguments | the C type |
| `LifecycleAssumption`, `NullAssumption` | bounds are numbers, NULL is no thread | |
| `ClientAssumption` | lengths and `MAX_EVENTS` are positive, each connection has a worker, finitely many workers | `main.c` allots connections to an array of workers |
| `ServerAssumption` | lengths, `MAX_EVENTS` and `load.max_io_size` are positive, finitely many sessions and buffers | `setup_server_prealloc` allocates arrays; the parser accepts a `max_io_size` of 0 (see Runs) |

### Queue

`QueueProofs`, for any sets of nodes, producers and consumers (they may overlap):
`QueueInvariant` is `Spec => []IInv`; `QueueTypeOK`, `QueueMutualExclusion`,
`QueueListIntact`, `QueueSingleOwner` and `QueueLocalsCurrent` are its parts;
`QueueRefinesFifo` is the refinement of `Fifo`.

`IInv` is the conjunction of the five invariants of the run `queue`. None of them is
inductive alone. That `next[tail]` may be overwritten in `PutLink` needs that `tail`
is the last cell, which needs that no other thread is between the two stores, which is
`MutualExclusion`. That `GetSwing` leaves a list at all needs `LocalsCurrent` (the
successor read is still the second cell) and that the list has two cells; that the
popped cell is nobody else's needs `SingleOwner`; and that the divider comes back
once needs that exactly one thread is `Rotating` while `dpos = 0`. The list is
described by positions (`Cell(i)`, `ListLen`), so the steps are facts about indices:
the lemmas at the head of the module say what appending and dropping the first
element do to `CellOf`. The proof has one lemma per action.

The refinement uses `IInv`: each step maps to a step of `Fifo` or a stutter. The steps
that matter are `PutLink` (the put takes effect), `GetSwing` of a node (the head of the
list is `Head(q)`), and `GetRead` of NULL: the list has one cell, so either the queue
is empty or its only node is that cell while another thread has the divider out,
which is `MayMiss`.

### Command and Lifecycle

`CommandParsedAsGiven`: whatever the argument list and the integer width, the
configuration is what the last argument of each name says. The invariant
(`ParserInv`) is the same statement about the arguments read so far; the lemma `Wraps`
is that of `%u` and `%d`. `LifecycleParsedAsGiven` carries it over to the module that
extends `Command`.

`LifecycleInvariant`, `LifecycleTypeOK`, `LifecycleUsesLive`,
`LifecycleFirstSignalSafe`, `LifecycleFailureVisible`, for any group capacity and any
number of signals and logs. `LifeInv` says what is held at each stage (`SetUpInOrder`),
that a server with threads is whole until they are joined (`ServerWhole`), that
nothing is freed before (`JoinedFirst`), how many signals the running handlers stand
for (`SignalsCounted`), and that main owns `debug_mutex` only in `thread_join`
(`MutexOwned`). `UsesLive` needs the first three together: `main` frees only after the
join, and joins only what `groups` names, so a running thread of a stored group exists
only while the context is live. `FirstSignalSafe` needs the last two: main logs only
once `stopping` is set, which took a signal already.

### Client

`ClientInvariant`, `ClientTypeOK`, `ClientCountsMatchWire`, `ClientBarrierPublishes`,
`ClientArmed`, `ClientStatsComplete`, and the refinement `ClientKeepsContract`
(`Spec => ImplementsService`), for any workers, connections and sizes, whether or not the
server closes and whatever call of the start fails.

`ClientInv` has a part for bytes (`WireInv`), for the barrier (`StartInv`), for each
connection (`ConnInv`) and for each worker (`WorkerInv`). `Armed` is not inductive: that
`EPOLLOUT` is off when all is sent needs that a worker in `output` has something to
send, which needs that its batch of events has each connection once, which is
`WorkerInv`. `StatsComplete` needs that a worker returns only when every connection it
has is done, which is where the report gets `ended` from, and that no worker serves
before the barrier. `Armed` leaves out one case, a client of no requests, whose
connections keep `EPOLLOUT` armed for ever.

### Server

Under `Orderly` (below), for any sessions, buffers, clients and threads, any readahead
and any sizes: `ServerInvariance`, `ServerTypeOK`, `ServerBufferConserved`,
`ServerConnLock`, `ServerOutArmed`, `ServerReadaheadBounded`, `ServerCountersAccount`,
`ServerFinishedOnce`, `ServerReleasedForgotten`, `ServerDelegatedInFlight`,
`ServerPoolCirculates` (when there is a buffer at all), `ServerResponsesFramed`, and the
refinement `ServerRefinesService` (`Spec => ImplementsService`). These are all the
invariants of `Server` that a passing run checks.

The inductive invariant is `ServerInv` in `ServerInvariant`. Its parts, and why one
cannot do without the others:

- `Structure` (`ServerStructure`): which thread has which session, under which lock; a
  session in the pool or with an accept thread (`Released`) is with no other thread; an
  IO thread's batch holds open sessions of its own. That a submitter may release a
  session it found closed needs that the IO thread is done with it, and that the IO
  thread may release it needs that no submitter is beyond its `trylock`. Both decide on
  counters, so these steps need `Counting`.
- `Ownership` (`ServerOwnership`): each buffer is at one place (`Located`), and names the
  session it belongs to, which exists while the buffer is away. A buffer that arrives
  in `Submit...` names a session that is not released because it is in flight, so
  `received` exceeds `processed`, so nobody has released the session: `Counting` again.
- `Counting`: `received - processed` is the number of buffers in flight, and `processed -
  sent` the number in the send queue or half sent. These are cardinalities of sets
  defined over all inboxes; the lemmas `...Owns` say that a step adds or removes one
  buffer of one session, which needs `Ownership`. `OutInv` relates the counters to
  `epoll_state`, and allows what the submitter or `handle_response` is about to do to it
  under the lock.
- `Bytes` (`ServerProofs`): the stream of a connection is as long as the counters and the
  half-sent message say. It is what `TypeOK` needs (a `send` fits the socket), and what
  the refinement needs: the bytes of `Service` are those of `SocketInv`. It also gives
  `Structure` what it needs of `Orderly`: with clients that never abort, the end of a
  session finds no half-sent response (`FillInv`, `IOWireInv`).

`ServerStructure` begins with what each action does, as facts about one session, one
thread or one buffer (`...Does`), and that what it does not name it leaves (frames); it
and the two modules after it prove each part of the invariant preserved, with one lemma
for each action, and `ServerProofs` puts them together.

Four properties need more than `ServerInv`, which does not need it in turn. Each of the
following is true at the start and kept by every step from a state of `ServerInv`:

- `Waiting`, for `ReleasedForgotten`: a thread in `epoll_wait` has forgotten its session.
- `Delegated`, for `DelegatedInFlight`: what is still to come for a session that is closed
  and not released.
- `ReadyInv`, for `PoolCirculates`. Buffers would stop if each were the `recvbuf` of a
  session that has nothing to read: `handle_request` takes a buffer before it knows that
  there are bytes, and keeps it when `recv` returns EAGAIN. `ReadyInv` says that what
  `epoll_wait` reported as readable is so until the thread gets there (only it reads the
  socket, and a client takes nothing back), and that a session which comes round the
  loop of `handle_request` for another buffer has bytes left, or has just passed on a
  request. In the first case the buffer it takes is not an idle one. In the second
  another one is in flight, queued or being sent, which `Counting` says: `received`
  exceeds `sent`.
- `Answers`, for `ResponsesFramed`. `QueuedMsgs`: the buffers of a session that are in
  flight or in its send queue hold different requests, all received and none in the
  stream. `SendingMsg`: the one being sent is none of them, and is what the stream ends
  with, from the byte that `sent` says. `ReceivedMsg`: a request that is complete is the
  one after those received, for which `Bytes` counts the bytes. `Framed`: the stream so
  far. That a response is never interrupted by another is then a fact about division
  (`LastBlock`, `FramedMore`): `Bytes` says that the half-sent response has at most
  `RespLen` bytes, so what is appended stays in its block. `Ownership` is what keeps
  the message of a buffer from being overwritten while the buffer is on its way: the
  buffer that `recv` fills is at no other place.

`Orderly` is a condition on the constants, one of:

- `Closing = {}`: clients behave as the repository's client, which `ClientKeepsContract`
  shows is the case;
- `Readahead = 0`: clients may shut down or abort at any time, but a session has one
  request at a time;
- no client aborts, and a socket holds all the responses of a client: clients may shut
  down their sending side at any time.

Without it the statements are false: `server_leak` and `server_twice` are the
counterexamples, one for each of the two things it rules out. Every passing run of
`Server` satisfies it. `ServerDelegatedInFlight` also excludes clients that abort: with one,
even at readahead 0, a session can be left with a half-sent response and nothing in
flight.

### Only model-checked

Liveness, which is out of the prover's reach: `NodeDelivered`, `RequestsAnswered`,
`AllReturned`, `ThreadsStop`, `Ends`, `SignalStops`, `RepeatExits`. `PoolCirculates` is the
nearest safety property to `RequestsAnswered` and does not imply it. What the four runs
that expect a violation show is model-checked as well: two of them are about `Server`
without `Orderly`, two about the client.

## Not modelled

- Kerncall and `sysinface.c`: they run the same functions in another processor mode;
  the system calls are taken to have their ordinary results.
- Reuse of descriptor numbers: a session keeps its client's name, and a call on a
  closed session fails.
- Memory returned by `aligned_alloc`: taken to be zero, as fresh heap is. `handle_accept`
  sets every field but `sendbuf`.
- `epoll_ctl` changing the interest of an open, locked session, and `epoll_wait` and
  `clock_gettime` of the client: taken to succeed.
- What `thread_join` reads of a `thread_info_t` it has freed, and the descriptors that
  `cleanup_server_epoll` leaves open: the model takes the steps, no property is about them.
- The length of a string parameter; the digest; the text of logs, progress and
  statistics; `runner.sh` and the makefile.

## Plan

Every invariant, and every refinement, that a passing run checks is proved. What is left
is about liveness: `server_live` with two requests per client, if its state space allows.

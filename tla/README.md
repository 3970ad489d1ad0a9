# A TLA+ model of the epoll echo server

The repository is a single-threaded TCP echo server in C++ (`src/src`), built as
a small Reactor: edge-triggered epoll for the connections, level-triggered for
the listening socket, a user-space buffer for input and one for output per
connection. This directory holds a model of it, the model-checking runs, and
proofs about the parts where a mistake would be easiest to make and hardest to
see in a test.

Source lines below are in `src/src/` unless another directory is named.

## 1. The system

| Part | State | Operations | Hard because |
|---|---|---|---|
| `Buffer` | vector, `readerIndex_`, `writerIndex_` | `append`, `retrieve`, `retrieveAll`, `peek` | index arithmetic after partial and exact retrieves; growth |
| `Channel` | descriptor, subscribed and reported events, `isInEpoll_`, four callbacks | `update`, `remove`, `handleEvent` | order of the handlers when several events come at once |
| `TcpConnection` | the two buffers, `peerClosed_`, its `Socket` and `Channel`, message callback | `handleRead/Write/Close/Error`, `tryWrite`, `refresh`, `send` | the client acts between any two system calls; edge-triggered wake-ups; half close with output pending; ignored results |
| `Epoll`, `Eventloop` | epoll set, array of `MAXEVENTS`, removal callback | `UpdateChannel`, `RemoveChannel`, `loop` | connections are destroyed and created while a vector of raw `Channel*` is walked |
| `Acceptor` | listening socket and Channel, `initialized_` | constructor, `handleAccept` | descriptors run out; start-up that fails half way |
| `TcpServer` | `conns_` by descriptor number, callbacks, `initialized_` | constructor, `newConnection`, `removeConnection`, `start` | descriptor numbers are reused |
| `Socket`, `InetAddress` | a descriptor, an address | thin wrappers of system calls | failures that are only printed |
| `tcpepoll_02.cpp` | none | `main`: checks arguments, wires the callbacks, starts | |
| `client.cpp` | one blocking socket | start, `sendAll`, `recvAll` in a loop | blocks both ways |
| `tcpepoll_01.cpp` | map `conns` of output buffers, free functions as handlers | the earlier server in one file; not built any more | handlers close the connection themselves, in the middle of `handleEvent` |

Everything in the server runs in one thread. `Eventloop::loop` gets a vector of
`Channel*` from `Epoll::loop`, calls `Channel::handleEvent` on each, and when
that returns false passes the descriptor number to `TcpServer::removeConnection`,
which erases the connection; its destructors deregister the Channel and close
the descriptor. The listening Channel's handler is `Acceptor::handleAccept`,
which hands each accepted descriptor to `TcpServer::newConnection`. The only
concurrency is with the clients, the network and the kernel, which act between
any two system calls.

What makes each part correct:

* `Buffer` is a FIFO queue, whatever its indices do, and an empty one is rewound.
* A connection echoes every byte once and in order, never sleeps on something it
  could do, never spins on something it cannot do, and closes when the client has
  closed and the echo is complete, or when the connection is broken.
* The loop never follows a pointer to a destroyed object, removes the connection
  whose handler said so and no other, forgets no event and starves nobody.
* The server enters the loop only if every step of its construction succeeded.
* To its clients the whole is a pool of places: first come, first served, one
  place each, kept until the client is done.
* The client's answers are its lines, and client and server never wait for each
  other.
* The earlier server is the same service, although it is written differently.

## 2. Modules

| Module | Models | Kind |
|---|---|---|
| `ByteQueue` | what `Buffer` promises | abstract |
| `Buffer` | class `Buffer` | detailed, implements `ByteQueue` |
| `EchoService` | what a connection promises its client | abstract |
| `KernelSocket` | socket, client and epoll item of one connection | external environment |
| `ConnectionHandler` | what the thread and a connection's handlers owe each other | abstract |
| `TcpConnection` | classes `TcpConnection` and `Channel`, extends `KernelSocket` | detailed, implements `EchoService` and `ConnectionHandler` |
| `ConnectionPool` | what the server promises its clients as a whole | abstract |
| `SingleFileServer` | `tcpepoll_01.cpp`, extends `KernelSocket` | detailed, implements `EchoService` |
| `EchoSystem` | `client.cpp` with `TcpConnection` | composition |
| `Reactor` | `Eventloop`, `Epoll`, `Acceptor::handleAccept`, `TcpServer` with many clients | detailed, implements `ConnectionPool`, and `ConnectionHandler` for each client |
| `Startup` | `main` and the constructors and destructors | detailed |
| `MC*` | instances for TLC | |
| `*Proofs` | theorems | |

Near the top of a module, under "Plausible mistakes", stand alternative bodies of
some of its definitions (`EventsWanted_NoOut`, `RoundSize_OffByOne`, ...). They
are not part of the specification: each is what a plausible bug would make of the
definition, and each is known to break the property listed with it under
`mutants` in `PROJECT.json`.

### Buffer

The three members are the three variables; position `i` of the vector is element
`i + 1` of the sequence. `append` and `retrieve` are actions with the code's
branches. `Queue` is the refinement mapping: the abstract queue is what `peek`
and `readableBytes` show. `TcpConnection` uses only this abstract queue, with
`retrieve` and `retrieveAll` as functions on sequences.

### KernelSocket and TcpConnection

The client's bytes are numbered in the order of sending, so loss, repetition and
reordering show. They go through `rcvQ` (kernel), `inputBuffer_`,
`outputBuffer_`, `sndQ` (kernel) to `got`. The client may send, half-close,
reset and read at any time, before the accept too.

The kernel's epoll item has an interest set and a ready flag. A change of the
socket sets the flag; `epoll_ctl` sets it if there is anything to report at that
moment; `epoll_wait` (action `Poll`) takes a snapshot of the events and clears
it, because the registration is edge-triggered. All of the wake-up hazards of
edge-triggered epoll are in these three rules.

`pc` says where the thread is in the code. Each action is the code from one
system call to the next:

| Action | Code |
|---|---|
| `Construct` | the constructor's `channel_->update()`, whose result is ignored |
| `Poll` | `epoll_wait` with this Channel |
| `HandleEvent` | `Channel::handleEvent`: next handler by the fixed order ERR, IN, RDHUP/HUP, OUT |
| `HandleRead` | one `read` and what follows: bytes (message callback or default echo), end of file, error, EAGAIN |
| `TryWrite` | one turn of the loop in `tryWrite`, from `handleRead`/`handleWrite` (`"write"`) or from `send` in the message callback (`"cbWrite"`) |
| `Refresh` | `refresh` at the end of a handler |
| `SendRefresh` | `refresh` in `send`, result ignored, and the callback's `retrieveAll` |
| `RemoveConnection` | the loop removes the connection |

`messageCallback_` is chosen at the start, so both the callback of `main` and the
default echo are covered. `needWrite` is the local of `handleRead`.
`EINTR` is not modelled: each call is simply made again. `handleEvent` copies
`revents_` and the callbacks first; `revents_` in the model is that copy.

Three mappings look at this state from outside. `Service` is the client's view:
what was sent, what was sent back, open or closed. `Handler` is the event loop's
view: where the connection is (`Place`), whether something has happened that the
call under way will not deal with (`Dirty`), whether it is at its end (`Ended`).
`Work` is a number: what the server still has to do for this connection.

### ConnectionHandler

The contract between the thread and the handlers of one connection. The thread
calls (`Call`) only for an event that no call has dealt with, lets each call
return, and removes the connection once, after a false result. The handlers
return false only at the end of the connection or after a failed `epoll_ctl`, and
return true (`ReturnTrue`) at the end only if the end came too late to be seen,
in which case it is an event for the next call. `TcpConnection` implements it with
the real handlers and one Channel, `Reactor` with the real rounds and any number
of Channels; so what `Reactor` assumes of a handler is what the handlers do.

### EchoSystem

The blocking client of `client.cpp` replaces the free client. A line of up to
`MaxLine` bytes is sent whole (each `send` blocks without room), then exactly as
many bytes are received. `Killed` ends the client anywhere, with FIN or RST as
the kernel decides. `Start` and `Connect` are what comes before the loop: any
check or call that fails ends the client. The server's side begins with the
accepted connection, which the kernel may complete before `connect` returns.

### Reactor

Many clients, each with one connection; a client's name is also the identity of
the `TcpConnection` object and its `Channel`, while descriptors are small numbers
that are reused. The kernel part is a descriptor table with lowest-free-number
allocation, the accept queue, and the epoll set with its ready list in order;
`epoll_wait` takes at most `MAXEVENTS` from the front, and puts the
level-triggered listening socket back at the end.

The events of a connection are captured by `EpollWait`: what comes after that is
new. `Dispatch` takes the next Channel of the round and enters its handler;
`HandleMore` is the handler noting what has come since, because `handleRead` reads
until there is nothing left, and `HandleLast` is the handler bringing the
connection to its end, by sending the last byte after a half close for example.
`HandlerReturnsFalse` needs a `finished` connection or a failing MOD, which
finishes it; `HandlerReturnsTrue` needs one that is not finished, or whose end the
call could not see any more. Other clients act in between, and a handler that is
kept busy never returns. What it does with the bytes is `TcpConnection`'s subject;
that these actions are what the handlers come to is `ImplementsHandler` there and
`ImplementsHandlers` here. `fd` is the local of `loop`, taken before the handler
runs as in `Eventloop.cpp:39`.

`Accept`, `AcceptAgain` and `AcceptFails` are the outcomes of `accept4` (success,
EAGAIN, EMFILE; the kernel reports EMFILE before it looks at the queue),
`NewConnection` and `RemoveConnection` the functions of `TcpServer`.

`Pool` is the refinement mapping to `ConnectionPool`: the places are the
descriptors, `conns_` says who has them, and the queue is the kernel's accept
queue, at whose head stands also the client that `accept4` has taken and
`newConnection` has not yet registered. Serving is `NewConnection`, releasing is
`RemoveConnection`, and nothing else the server does is seen.

### Startup

From `main`'s argument checks through the constructors, any of whose system calls
may fail, to `loop`, or through `start`'s refusal and the destructors to the end.
The kernel completes connections as soon as the socket listens. What the process
meets is chosen at the start, in `args`: the command line, the calls that fail,
and whether connections of an earlier run are left on the port, in which case
`bind` succeeds only on a socket with one of the two reuse options set.

### SingleFileServer

The earlier server from the start of `main` to the end of one connection, step by
system call like `TcpConnection`, and with the same `KernelSocket`. The
differences are in its control: a handler that meets an error calls `closeConn`
itself and its result only stops the handlers that would follow; `handleAccept`
takes a connection back when its ADD fails; `refreshConn` goes on watching IN and
RDHUP after the client's close. The mapping to `EchoService` is the same.

## 3. Runs

| Run | Configuration and bounds | Shows |
|---|---|---|
| `buffer` | 3 byte values, initial size 2, at most 5 positions, chunks up to 2 | `Buffer` implements `ByteQueue`; rewinding |
| `connection` | 5 bytes, send buffer 2, read chunk 2, ADD and MOD may fail; 29,332 states | safety of one connection, refinement of `EchoService` and `ConnectionHandler`; every server step reduces `Work`, so there is no busy loop; at rest all is done; every byte comes back and hang-ups close for a client that reads |
| `connection_add_fails` | 1 byte, ADD may fail | *violated*: finding 1 |
| `reactor` | 3 clients, 2 descriptors, `MAXEVENTS` 2, ADD and MOD may fail, symmetry over clients; 25,696 states | lifetimes, registry, callbacks, events, refinement of `ConnectionPool` and, per client, of `ConnectionHandler` |
| `reactor_live` | the same without failures, no symmetry; 98,968 states | no starvation while handlers end, everything reclaimed; everybody accepted if everybody finishes |
| `reactor_starves` | 2 clients, 2 descriptors | *violated*: finding 4 |
| `reactor_no_fds` | 2 clients, 1 descriptor | *violated*: finding 2 |
| `echo_system` | send buffer 1, receive buffer 2, chunk 2, lines up to 4, MOD may fail | client and server together: answers are the lines, the two are never blocked on each other, every session ends |
| `startup` | every subset of the calls may fail, 2 clients | the loop is entered only when ready, and entered when the arguments are right, the address is one of this machine and nothing fails |
| `startup_address` | no failures | *violated*: finding 3 |
| `single_file` | as `connection`, start-up failures too, client goes on reading | the earlier server is the same service |
| `single_file_rests` | as `single_file`, but nothing is assumed of the client; 8,420 states | the thread rests in the end, or output waits for a client that has closed its side and does not read |

Why these bounds are enough for the cases that matter. `connection`: five bytes
against chunk and send buffer of two give several turns of the read loop, partial
sends, a full send buffer with output left over, and data that arrives while a
handler is busy; `single_file` has the same sizes. `reactor`: three clients on two descriptors force reuse of a
number while another connection lives, and two places per round with the
listening socket as a third competitor force items to wait. `echo_system`: a line
of four fits into no buffer on the way. `buffer`: five positions allow
reallocation after a partial retrieve.

Deadlock checking is off where the system may really stop: a connection ends
closed, clients stop acting, a process ends. In `buffer` it is on. That the
server does not stop when it should not is stated by the liveness properties and
by three invariants: `NoLostWakeup` and `AtRestAllIsDone` of one connection, and
`NeverBothBlocked` of the server with its client. They name the states in which
the server waits, instead of asking whether an action is enabled.

Fairness. Weak fairness of `Server` (or `Process`) says that the one thread runs
when it is not blocked: the operating system's scheduling. What is needed of the
clients is the condition of the property that needs it:

* `ClientReads` (`EveryByteComesBack`, `HangUpCloses`): what is sent to the client
  does not lie there for ever. Without it a full send buffer stays full, and the
  code has no timeout. In `SingleFileServer` it is the second part of `FairSpec`.
* `HandlersEnd` (`EventIsHandled`, `FinishedIsReclaimed`): no client keeps a handler
  busy for ever. Without it they fail: finding 4.
* `ClientsFinish` (`ArrivedIsAccepted`): clients give their descriptors back.

`FairSystemSpec` gives the test client's calls the same fairness as the server's;
nothing is assumed of what is typed or when the client is killed. The safety
properties and `EventuallyQuiet` of `TcpConnection` assume nothing of the client,
and `NoBusyLoop`, which says why the server gets quiet, assumes no fairness at all.

`TcpConnection`'s fairness is one of `Reactor`'s results: that one connection's
steps are always taken in the end is `EventIsHandled`, again as long as the
handlers of the others end.

## 4. Findings

1. `TcpConnection.cpp:112` ignores the result of `update`. When `EPOLL_CTL_ADD`
   fails, the connection is announced and kept but never run, against
   `docs/04_coding_standard.md:32` (a failed construction must not lead to a
   runnable object).
2. `Acceptor.cpp:45`: out of descriptors, `handleAccept` returns false with the
   level-triggered listening socket still readable; the loop spins, against
   `docs/05_build_run_test.md:314` (no endless loop). As soon as one connection
   ends, the waiting client is accepted (`ArrivedIsAccepted` holds), so this is
   a matter of processor time, not of lost clients.
3. `InetAddress.cpp:12`: a malformed address is printed and the server listens on
   all addresses, against the same rule as 1.
4. `TcpConnection.cpp:143`: `handleRead` reads until EAGAIN without a limit on the
   only thread. A client that sends as fast as it is read keeps the handler, and
   the events of the others are never handled, against
   `docs/01_requirements.md:11` and `docs/05_build_run_test.md:79` (several clients
   are served at the same time).
No finding, because no document makes a promise for that file: in the earlier server
(`tcpepoll_01.cpp:161`) a client that has closed its side and does not read makes the
thread spin, as `refreshConn` arms IN and RDHUP again and both are true.
`RestsOrAwaitsReader` shows that nothing else does. `TcpConnection::refresh` drops
both events; there `EventuallyQuiet` and `NoBusyLoop` hold without the exception.

## 5. Proofs

TLC's runs are small instances; the theorems hold for all values of the constants
that satisfy the named assumptions (`BufferAssumption`, `KernelAssumption`,
`ConnectionAssumption`, `ReactorAssumption`, `StartupAssumption`, `SystemAssumption`,
`ServerAssumption`), which say no more than that sizes
are positive or natural numbers and that failing calls are among those named.

* `BufferProofs`: `TypeCorrect`, `DrainedRewound`, and `BufferIsByteQueue`: every
  step of `Buffer` is a step of `ByteQueue` on what `peek` shows. Lemmas
  `AppendEnqueues` and `RetrieveDrops` compare the two element by element; the
  type invariant, with the order of the indices, is all they need.
* `KernelSocketProofs`: lemmas that the two servers share: what the client's calls
  preserve, what a new subscription reports, and the arithmetic of concatenation.
* `TcpConnectionProofs`:
  * `TypeCorrect`;
  * `WakeupInvariant`, then `NothingUnread` and `WakeupsArriveInTime`
    (`NoLostWakeup`). `NoLostWakeup` speaks of the moment before `epoll_wait` and
    is not inductive: between two handlers the subscription must be what
    `refresh` last computed (`SubscriptionInv`), and nothing reportable may be
    hidden from the ready list unless it has just been taken from there to be
    handled (`ArmedInv`). That an RDHUP without IN means there is no unread data
    (`HangUpInv`) rests on the order of tests in `handleEvent` and on reading to
    the end. `FreshInv`, `RegisteredInv` and `ResetInv` cover the states before
    registration and after a reset.
  * `Invariant` adds `InputInv` (the input buffer is empty outside the callback),
    `RemovalInv` (what a false return means), `EchoInOrder` and `GracefulClose`.
    The echo part is arithmetic of concatenation: a read, a send and a take each
    move a cut in one sequence whose value is the bytes sent. `ErrorInv` and
    `SeenInv` say that no end is lost inside a call: the error of a reset is there
    for the next handler, or the message callback has met it and the write that
    follows meets it again; and a half close is in the reported events, in
    `peerClosed_`, or in the ready list.
  * `ServerNeverSpins` (`NoBusyLoop`): every step of the server makes `Work`
    smaller. `Work` puts three numbers in order. `WorkLeft` counts what is done
    once: a byte read, a byte sent, the close noted, the removal. `Round` is 0 while
    the call under way will do some of that, 2 while it will not any more because
    its remaining events are stale, and 1 when the connection waits in the ready
    list. `Steps` counts down the code of one call. The step that needs the
    invariant is `epoll_wait` (`PollHasWork`): what it reports is work for the
    handler it calls, because the subscription is what `refresh` computes
    (`SubscriptionInv`: OUT only with output pending, neither IN nor RDHUP after the
    client's close) and because a hang-up comes with its error (`ErrorInv`). Every
    client step raises `Work` by a bounded amount, so the server takes a bounded
    number of steps between two of them: the safety half of `EventuallyQuiet`.
  * `RestsWhenAllIsDone` (`AtRestAllIsDone`), from `NoLostWakeup` and `EchoInOrder`:
    the safety half of `EveryByteComesBack` and `HangUpCloses`.
* `EchoServiceProofs`: `ConnectionIsEchoService`, from that invariant. Each action
  of `TcpConnection` is an action of `EchoService` or none: a taken send is an
  `Echo` (`WriteEchoes`), the removal is a `Close` or follows an `Abort`
  (`RemovalCloses`), the client's calls are its own (`PeerActs`), all else is not
  seen (`Unseen`). `EchoCounts` (in `TcpConnectionProofs`) turns `EchoInOrder` into
  lengths: when the buffers are empty, as many bytes were sent back as came.
  `HandlersKeepContract` is the refinement of `ConnectionHandler`. A step inside a
  call (`CallGoesOn`) or while the connection waits (`WaitGoesOn`) is an event, the
  end, or nothing, whatever it does to `Dirty`; that leaves the steps that enter or
  leave a call. `EndNoted`, from `ErrorInv` and `SeenInv`, is what a true result
  needs: at the end of the connection, a call that does not come to it has left
  the item in the ready list with something to report.
* `ReactorProofs`: `Invariant` (`ReactorInv`, with the types), and from it
  `TypeCorrect`, `ChannelsAlive` (`NoDanglingChannel`), `RegistryAgrees`
  (`RegistryMatchesFds`), `CallbacksComeInPairs`, `EventsRemembered`
  (`NoForgottenEvent`) and `OnlyFinishedAreDestroyed`. The properties are not
  inductive one by one. A Channel comes at most once in a round (`ReadyListInv`:
  at most once in the ready list), so between the moment `loop` takes its
  descriptor and the removal nothing else of that connection is dispatched, and
  the descriptor goes on meaning this connection (`CurrentInv`); therefore what is
  removed is finished and leaves no pointer behind in the round. A client waits,
  is under construction, or is registered, never two of these (`PlaceInv`), so
  `newConnection` never assigns over an entry of `conns_`. The first lemmas are
  about lists without repetitions under `Append`, `Tail`, cutting and deleting.
  `ServerIsPool` rests on the same invariant: the place of a client that is just
  being registered is free (`PlaceInv`), and the connection to be removed is
  finished (`CurrentInv`). `ThreadKeepsContract` takes one client and maps every
  step of the server, most of them concerned with others, to a step of its
  `ConnectionHandler` or none; `EndsAreNoted` (`NoEndOverlooked`) is that
  specification's own invariant carried back.
* `EchoSystemProofs`: `SystemIsConnection` (every step of the system is a step of
  `TcpConnection` or none of its, so everything proved there holds here),
  `ClientTypeCorrect`, `SessionInvariant` and `RepliesMatchLines`
  (`ReplyIsTheLine`). `SessionInv` counts: at each point of the client's loop, what
  was sent and what is still to come back. With `EchoInOrder` the count says which
  bytes they are, and with `NoLostWakeup` that a client waiting in `recv`, or in
  `send` with the receive queue full, finds the server with something to do:
  `NoDeadlock` (`NeverBothBlocked`).
* `SingleFileServerProofs`: `Invariant` (`ServerInv`), and from it `TypeCorrect`,
  `EchoesInOrder`, `WakeupsArriveInTime`, `NoneUnregistered` and
  `ServerIsEchoService`. The argument is that of `TcpConnectionProofs` on the other
  code: the connection's state before it is accepted belongs to it (`FreshInv`),
  and the reason for a close must be known where `closeConn` is called, in the
  middle of a handler (`RemovalInv`).
* `StartupProofs`: `Invariant` (`TypeOK` with `ReadyInv`, what the `initialized_`
  flags tell about the rest), `TypeCorrect` and `ReadyWhenRunning`.

Each proof that a step preserves an invariant has one step per action. The
inductive invariants (`IInv`, `ReactorInv`, `ReadyInv`, `SessionInv`, `ServerInv`),
`NoEndOverlooked`, and the types of `Startup` and `SingleFileServer` stand in no
configuration: they are proved, and the properties that follow from them are what
the runs check and what the mutants break.

Only model-checked: all liveness properties (TLAPS does not do liveness under
fairness). What is proved of them is their safety half: the server gets to rest
(`ServerNeverSpins`), at rest all is done (`RestsWhenAllIsDone`), no end is
overlooked (`EndsAreNoted`), client and server are not both blocked
(`NoDeadlock`). Every invariant, action property and refinement that a passing run
checks is also proved.

## 6. Not modelled

* `tcpepoll_01.cpp`: several connections in one round (a connection closed by its
  handler leaves nothing behind in the vector for the same reason as in
  `Reactor`), the `Socket` objects of its connections that are never freed, and a
  failing `accept4`. The file is not in the Makefile and does not compile against
  the present `Channel`.
* Logging, addresses as text, the peer's address (kept for the log only),
  `TCP_NODELAY` and `SO_KEEPALIVE`: they change no state that the models have.
* Memory: the vector's growth has no bound in the code and allocation does not
  fail in the model. That consumed bytes at the front are not reclaimed while
  anything is pending (`Buffer.cpp:35`) is a matter of sizes the models bound.
* Timeouts: the code has none. A client that half-closes and never reads keeps
  its connection for ever; this is why `HangUpCloses` has the condition
  `ClientReads`. It costs memory and a descriptor, but no processor time
  (`NoBusyLoop`).
* EINTR: each call is made again, without effect on the state.
* Other failures of `accept4` than EAGAIN and EMFILE (a connection that is aborted
  while it waits, for example), and a failing EPOLL_CTL_DEL: its result is ignored,
  and the descriptor is closed right after it, which removes the item anyway.
* `Makefile`: nothing at run time.
* A joint module of `Reactor` and `TcpConnection` with real handlers for several
  connections. `ConnectionHandler` stands between the two: the handlers keep it
  whatever the client does between any two of their steps, and the thread keeps it
  for each client whatever the others do. So the safety results carry over as they
  stand, and that a connection's steps do come is `EventIsHandled`. A product of two
  state spaces of this size would show the same for smaller buffers.

## 7. Where to go on

1. A model of `handleRead` with a limit on the bytes or turns of one call, should
   the code get one: `ClientsServedTogether` should then hold without `HandlersEnd`.
2. Backing off when `accept4` fails (or a spare descriptor), likewise for
   `SilentClientsLetServerBlock`.
3. Timeouts for half-closed connections, with the timers that
   `docs/01_requirements.md:31` leaves for later: `HangUpCloses` should then hold
   without `ClientReads`.

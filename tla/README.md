# Verification of the IP transport and its emulator

This directory holds TLA+ models of the IP transport in `ip_transport/` (a node
that discovers its neighbours by UDP broadcast and opens TCP sessions to them),
of the emulator in `emulator/` that runs it in containers and evaluates its
logs, and of the replay of links in `visualizer/`; TLC configurations that check
them on small instances; and TLAPS proofs of the main invariants for every size.
`PROJECT.json` lists runs, mutants, the map from definitions to source lines,
hazards, findings and theorems.

    tlc -config discovery.cfg MCBroadcastManager      # any run of PROJECT.json
    tlapm BroadcastManagerProofs.tla                   # any *Proofs module

## 1. Inventory

A process runs one `IpTransport`. It owns an `EpollLoop`, whose `Run` is the
*epoll thread*, a `BroadcastManager` and a `ConnectionManager`. The transport
manager (a `BasicTransportManager`; `main.cpp` has a small one) gets
notifications and may issue commands (`OpenSession`, `SendMessage`,
`CloseSession`) from any thread. The emulator starts such processes in
containers, connects them by bridges and evaluates what they log.

| Component | State | Operations | What makes it correct |
|---|---|---|---|
| `EpollLoop` (epoll_loop.cpp) | `fdToCallback_`, `cancelMap`, `removeQueue_`, two eventfds, the kernel's interest list | `RegisterAction`, `ReplaceAction`, `DeregisterAction`, `DeregisterFd`, `Run`, `Stop` | a running callback is alive; removed callbacks are destroyed; epoll watches nothing that has no callback although descriptor numbers are reused; Stop ends the loop |
| `AsyncFd` (async_fd.h) | descriptor, token, `left_size`, the data read so far | `SendMessage`, `RecvMessage`, `ProcData`, `Release` | messages come whole and in order through any sequence of pieces; one operation per object; deregistered before the completion runs |
| `BroadcastManager` (ip_broadcast.cpp) | `peerToFd_`, `fdToPeer_`, `peerToAddr_`, `addrToPeer_`, `ifToPeer_`, timerfds | `ReceiveBroadcasts`, `ProcessHello`, `ProcessPeerLost`, `SendBroadcastHello`, `ProcessNetworkUpdate` | tables agree; who is reported found is tracked; a silent peer is dropped; the node keeps announcing itself on every interface |
| `ConnectionManager` (ip_conn_manager.cpp) | `activeConns`, `connToFd`, `sendQueues_` | accept and connect with their hello exchanges, `SendMessage`, `ReadMessage`, `CloseConn`, `CloseFD` | tables agree with the sockets; messages go to and are attributed to the right peer, in order, once; both ends report the same sessions; failures are reported |
| `IpTransport` (ip_transport.cpp), `main.cpp` | `_connMutex`, `_brMutex`, the thread | the commands, the `On...` notifications, start and shutdown | no deadlock over seven mutexes; the manager outlives the callbacks; shutdown returns, if socket calls do |
| `combine_logs.py` | visible, incoming, outgoing, graph, times | reading the merged log | times and links are those of the sessions |
| `run_experiment.py` | containers, bridges, shapers, what is known of each container's networks | build, create, connect, run, modify, clean up; a pool of workers per stage | links follow the configuration; what was set up is taken down, also when a worker fails |
| visualizer | the log line it has reached | replay of the printed links | the picture at any moment is the sessions and neighbourhoods of that moment |
| types, logging | - | value types, conversions, log output | - |

How they interact: handlers of all sockets and timers are callbacks of the epoll
loop. An incoming hello exchange calls `BroadcastManager::ProcessHello`; a link
loss calls `CloseSession`; connecting asks `BroadcastManager` for the address of
the peer; in `main.cpp` a found neighbour leads to `OpenSession` from within the
notification. Two nodes meet in the hello exchange: `Hello::Notify` from the
dialling node, `Hello::Answer` back. The log lines of the `On...` notifications
are what `combine_logs.py` reads, and the lines it prints are what the
visualizer reads.

What is hard here: events of one `epoll_wait` batch that invalidate each other;
callbacks that run unlocked while others deregister them; completions on the
epoll thread racing commands; descriptor numbers that are reused while tables,
tokens or queued destructors still carry them; several tables updated one after
the other with steps that fail; timers racing hellos; several sessions for one
peer; two ends that learn of the same event at different times, with no
timeouts; sockets that block the only thread; frames cut into pieces by the
kernel; workers that fail while others go on. The list with source lines is
under `hazards` in `PROJECT.json`.

## 2. Modules

| Module | Models | Used by |
|---|---|---|
| `BroadcastManager` | discovery of one node with its timers, sockets and batches | `MCBroadcastManager`, `BroadcastManagerProofs` |
| `ConnectionManager` | handshakes, tables and notifications of one node | `MCConnectionManager`, `ConnectionManagerProofs` (twice by `NetworkProofs`), twice by `Network` |
| `Network` | two nodes, the connections between them, failures, late destructors and restarts | `MCNetwork`, `NetworkProofs` |
| `MessageChannel` | abstract: a FIFO channel that, while it is up, loses only messages whose send failed | `SendQueue` (refinement) |
| `SendQueue` | one established connection, thread by thread | `MCSendQueue`, `SendQueueProofs` |
| `AsyncFd` | messages as byte streams, both ends | `MCAsyncFd`, `AsyncFdProofs` |
| `EpollLoop` | the loop, the operations on it, reuse of descriptors | `MCEpollLoop`, `EpollLoopProofs` |
| `IpTransport` | threads, mutexes, notifications, start and shutdown | `MCIpTransport`, `IpTransportProofs` |
| `Experiment` | one experiment of the emulator | `MCExperiment`, `ExperimentProofs` |
| `ExperimentStats` | the evaluation of the merged log and the replay of its links | `MCExperimentStats`, `ExperimentProofs` |

Operators named `X_Something` next to `X` are mutated forms of `X`, each a
plausible mistake; `PROJECT.json` says which property each one breaks. `TypeOK`
of a module says what its variables range over; it is checked or proved where
the runs or section 4 name it.

**BroadcastManager.** One variable per table. A timerfd is the number of ticks
it has left (`left`) and whether it has expired since it was read or set
(`fired`); a tick is one `BROADCAST_DELAY`, and `LostDelay` is `LOST_PEER_DELAY`
in ticks. `EpollWait` fetches all ready sources at once and the handlers then
take them in any order, while time goes on and datagrams arrive between any two
steps. `ProcessHello` is `RefreshPeer`, `AddPeer` or `FailPeer` (no descriptor
left, or epoll refuses). `AddPeerThrows` is a new peer whose address is in no
subnet of an interface (or whose interface went in the meantime):
`get_interface_by_ip` returns `nullptr` after four tables and the timer are set
up, the string made of it throws on the epoll thread, and the process is `dead`.
`IfOf` is the interface of an address, or `None`. `ReceiveBroadcasts` and
`ProcessNetworkUpdate` are split where the kernel may change what they look at:
per datagram, and between emptying the netlink socket and listing the
interfaces. `SendBroadcastHello` reaches the interfaces that are up. `mgr`,
`age` and `announced` are history: what the manager was last told, how long a
peer has been silent, on which interfaces we broadcast since the clock last
ticked.

**ConnectionManager.** `phase` is the operation a descriptor waits for. The
setting is that of `main.cpp`: everything runs on the epoll thread, so that a
handler is one step, except where somebody can come in between. That is twice.
The answer of an incoming handshake leaves in `send()` (`AnswerSent`) and the
tables and the notification follow in the completion (`AnswerDone`); in the
phase `answered` the other end may already have the answer, and this thread does
nothing else. And where epoll refuses to read an outgoing session that was just
established, the session is told to be lost (`LostBeforeOpened`) before it is
told to be open (`OpenedTooLate`); `late` is such a session, and the manager may
give commands in between. For an incoming one the order is the right one
(`EstablishedAndLost`). `remote` is the node really at the other end. `Insert`
is `std::map::insert`, which keeps an old entry, and `CloseFD` erases the entry
of the connection without comparing the descriptor, as in the code. `CloseConn`
closes both directions in one step, where the code looks the second one up after
closing the first; `TablesMatchSockets` makes the two equal. `owed` and
`balance` count notifications.

**Network.** Each node is an `INSTANCE` of `ConnectionManager` over its own
variables, so its handlers are those of that module; what is arbitrary there
gets its cause here. `end` says which connection a descriptor is an end of,
`backlog` is what waits for `accept`, `wire` which hello is under way and
whether the connection broke, which its ends hear, or is cut, which they do not:
nothing gets through any more, and there is no keepalive. A step that closes
descriptors closes those ends, and the other node notices through a failing
handler (`Fail`). `LinkLost` leaves readers of closed descriptors to be
destroyed (`stale`); when that happens (`Drain`), whatever reads from the reused
number by then gets no more events (`deaf`), which is the finding
`late_destructor` seen from the two nodes. `Restart` is a node that is killed
and started again with empty tables: the kernel closes its sockets.

**SendQueue.** A step is what happens between two lock operations. Commands hold
`_connMutex`, completions do not. The front of the queue after `std::move` is
`Moved`. `event` is the descriptor's entry in the current batch. `Users` may
contain the epoll thread, for commands given from notifications. A send may fail
on a live connection too, since `ProcData` takes `EAGAIN` and `EINTR` of `send`
for the end of the operation; the completion then pops the message and goes on
(`unsent`). The refinement mapping to `MessageChannel` takes as pending what is
in the queue, with the moved-out front replaced by the message in flight; the
channel is up while it is neither broken nor being closed. Giving a message up
is an action of the channel (`GiveUp`), for the message being written only.

**AsyncFd.** Every connection of a set of nodes is two streams, named by writer,
reader and who dialled; two nodes may have dialled each other, as nodes running
`main.cpp` do, and then have two connections. A message is its length in
`LenSize` bytes and then its bytes; bytes carry the message and position they
come from, so that misplaced pieces show. `send` and `recv` move any number of
bytes that fit or are there. Dialled sockets are non-blocking; accepted ones
stay blocking, because `accept_client` sets `O_NONBLOCK` on the listening
socket, so that `send` holds the epoll thread of that node, and with it all its
connections, until the whole part is written (`inSend`). Two nodes that each
wait so for the other to read stay there for ever: `Caught` names the nodes of
such a circle. Anything but success of a send is an error to `SendMessage`, also
`EAGAIN` in the middle of a frame, and `ConnectionManager` only logs it:
`failed` records streams on which this happened while the connection stayed up
(`WriteFaults`). `MSG_OOB` and `SO_OOBINLINE` together leave the order of bytes
as it is and are left out.

**EpollLoop.** A token is named by its `AsyncFd`. `kernel` is the interest list,
which `close()` changes and the table does not. What callbacks do follows
`ConnectionManager`: they keep their action, replace it, or complete. A
handshake does its two operations on one `AsyncFd` (`Proceed`); a completed read
is handed to the manager (`Notify`), which may close the connection and open
others from there, and then `ReadMessage(Release())` follows whatever has
happened: it may find the descriptor closed, or its number in use by another
connection. Its refusal completes at once with an error, and `CloseFailed`
closes what `activeConns` has under the number by then. Where `ReadMessage`
lands between the deregistration and the `close()` of another thread, its
callback stays in the table under a number that is free, and the next connection
with that number is refused. `WaitFails` is `epoll_wait` returning an error,
which ends `Run`. Destruction of a callback is a step of its own; with the last
one goes the `AsyncFd`, whose destructor deregisters what its token stands for.
The memory of a destroyed `AsyncFd` may be used again, which bounds the number
of operations alive, not their total.

**IpTransport.** An operation is the set of its paths, a path the sequence of
mutexes it takes and releases and of notifications it gives; `Then` and `Under`
build them after the code's calls and guards. The tables behind them are in the
other modules. A `send()` or `recv()` on an accepted socket is an instruction
that may never end (`SocketCall`). A thread takes one step of its path at a
time. A notification in `Reacting` may put a command in front of the rest of the
path, from any thread. `Start` may fail, which `main.cpp` ignores; then there is
no thread to join. `Run` may return before it is told to (`RunFails`).

**Experiment.** A task is one call in a worker thread and takes one step per
docker call, so tasks of a stage interleave. `attrs` is what `reload()` last
stored, `seen` what a worker's own reload has returned and not yet stored.
Docker calls fail up to `MaxFaults` times; a worker that fails cleans up and
exits, while the others and main go on (`executor.map` is called for its
effects, so nobody sees the exception). A command in a container may fail
without an exception, since nobody looks at the exit code of `exec_run`
(`CommandRun`); the worker then goes on, and the link counts as `missed`.
Bridges are made for the links at the start, those added later and those that
only have a custom shape (`Custom`). `Interrupt` may come at any moment. The
commands of `cleanup` fail only for want of a container (`docker rm` without
arguments) or because a network is in use.

**ExperimentStats.** One action per kind of log line, `Record` for the end of
the loop body, times as positions in the merged log. A loss or an end may be
reported of what was never reported seen or open, as the transport does: a link
loss and then the timer report one neighbour lost twice, and a peer first heard
over TCP is lost without having been found. `remove` then raises, and the
machine stops (`failed`). `Linked` is the reference for `is_connected`: the
sessions that both ends report cross every cut. The replay of the visualizer is
a function of the printed lines; the run compares it with the sessions after
every prefix of the log. The names of its initial state, next-state relation and
specification begin with `Stats`, since `ExperimentProofs` extends both modules
of the emulator.

## 3. Runs

| Run | Shows | Bounds |
|---|---|---|
| `discovery` | `TablesConsistent`, `FoundIsTracked`, `TimerTracksSilence`; under fairness `SilentPeerIsDropped`, `KeepsAnnouncing` | 1 peer with UDP and TCP hellos from 2 addresses, one of them in no subnet of ours; 1 interface that goes and comes, 2 descriptors for timers, delay 2, 1 datagram waiting, refused registrations |
| `early_loss` | violation, see section 5 | 1 peer, 1 address, nothing fails |
| `connections` | `TablesMatchSockets`, `PeerIsGenuine`, `MessagesReachTheirPeer`, `NotificationsBalance` | 2 peers, 3 descriptors, 3 OpenSession calls, refused registrations |
| `silent_failure` | violation, see section 5 | 1 peer, 2 descriptors |
| `network` | `SessionIsShared`, `SessionsAgree`; under fairness `Settles` | 2 nodes with 2 descriptors each, 2 OpenSession calls, 2 restarts, any connection may break or be cut |
| `send_queue` | `OneSender`, `FrontIsTakenOnce`, `NoStalledQueue`, `ClosedOnce`, refinement of the FIFO channel; under fairness the queue drains, closing is reported | a user thread and the epoll thread give commands, 3 messages, any send may fail |
| `stream` | `FramesIntact`; under fairness `MessagesArrive`, `HalfOpenIsClosed` | 2 nodes that dialled each other; one sends messages of 2 and 1 bytes on the connection it dialled, with 2 bytes of buffer, and both may send one of 1 byte on the one they accepted, with 1 byte of buffer; lengths of 2 bytes, sends that fail |
| `epoll_loop` | `RunningIsAlive`, `RemovalSignalled`, `EventsHaveCallbacks`; under fairness `CallbacksDestroyed`, `StopIsHeeded` | 1 descriptor number used again and again, 2 operations at a time, commands from a second thread and from notifications |
| `late_destructor` | violation, see section 5 | 1 descriptor, 3 operations, all on the epoll thread |
| `transport` | `NoCircularWait`, `NotifiedUnlocked`, `ManagerOutlivesCallbacks`; under fairness `DestructorReturns` | every path of every operation, one user thread and the epoll thread, a manager that reacts to `Found`, `NeighborLost`, `Opened`, `Received` |
| `stats` | `GraphCountsSessions`, `TimesAreRight`, `PrintedIsReal` | 3 nodes, 8 events |
| `experiment` | `NothingLeftBehind`, `LinksFollowScenario`; every experiment ends (`Evaluated`) | 3 nodes, 1 link at the start, 1 that only has a shape, 2 modifications that each add and erase a link, 2 failing docker calls or commands, an interrupt |

Why the bounds are enough to be interesting. One peer takes two timers: the
descriptor of a lost peer leaks, so that the second loss leaves none and both
failure branches of `ProcessHello` are taken; a delay of two separates a timer
that was just set from one about to expire; of two addresses one has an
interface and the other does not, so that the process may also end. What needs
several peers is covered by the proofs. Three descriptors hold a session, a
second session for the same peer and direction, and a handshake that reuses a
number. Two dials let both nodes dial each other at once, or one node twice; two
restarts let a node come back while the other still holds the old session, or
both be restarted; two descriptors let a number be reused under a reader that is
yet to be destroyed. Three messages put one in flight, one at the front behind
it and one pushed while the completion pops. A buffer no larger than a length,
and smaller than a frame, cuts frames at every place, also in the middle of a
length; two messages put one end's length behind the other's body. On the
accepted sockets a length does not fit into the buffer, so that both nodes may
wait in `send()` for each other: the circle is reachable (an invariant that no
node is `Caught` fails), and so are runs in which only one of them waits. One
descriptor number makes every new connection meet what the last one with the
number has left behind; two operations at a time are a read and a write, or the
read that follows a notification and the connection opened from it. Eight events
connect three nodes (four), separate them and connect them again. Two faults let
two workers fail, each cleaning up while the other goes on; two modifications
let a link go and come back. What holds for all sizes is proved where section 4
says so.

Deadlock is not checked where the system may stop: a connection that is closed
(`send_queue`, `stream`), two nodes at rest with no dials left (`network`), a
loop or transport that has been stopped (`epoll_loop`, `late_destructor`,
`transport`), a log or an experiment that has ended (`stats`, `experiment`).
`discovery` and `connections` check it. That threads of the transport do not
block each other is `NoCircularWait`.

Fairness.

* `discovery`: the kernel schedules the epoll thread, the clock goes on, and
  `ReceiveBroadcasts`, which loops until the socket is empty, gets ahead of the
  datagrams at last (strong fairness of `ReceiveEnd`).
* `network`: the epoll threads accept and handle what is ready, a connection
  that has broken or whose other end is closed being among it, and destroy the
  readers of closed connections. Nothing is ready on a connection that is cut
  (`Ready`), nor where the events were taken (`deaf`), so nothing is assumed
  there, nor of dials, breaks and restarts. `Settles` names what hangs for want
  of a timeout (`Stuck`) and says that nothing else does.
* `send_queue`: threads are scheduled; a send that writes a part again and
  again writes the rest or fails; what `epoll_wait` reports of the descriptor is
  handled. `Run` looks at `EPOLLOUT` only when there is no `EPOLLIN`, so
  `QueueDrains` has the premise that the descriptor is at last no longer
  reported readable; without it, it fails.
* `stream`: a stream with room or data is reported, and then moves at least a
  byte. Nothing is assumed of a node that waits in `send()` for a node that
  waits.
* `epoll_loop`: batches and callbacks end.
* `transport`: threads are scheduled, and a mutex is granted at last to a thread
  that keeps finding it free (strong fairness, as of any working lock); `Run`
  sees the stop event although other descriptors are ready. Nothing makes a
  socket call on an accepted socket return: that the epoll thread is not kept in
  one for ever is the premise of `DestructorReturns`, and the circle of `stream`
  shows that the code does not guarantee it.
* `experiment`: the main thread and the workers go on, and the duration of an
  experiment is finite. `shell()` and `exec_run` set no time limit, so that
  commands of docker return is an assumption, not a guarantee of the code.

## 4. Proofs

Each theorem holds for all values of the constants that satisfy the named
assumption of its module.

`BroadcastManagerProofs` proves `TypeCorrect`, `TablesAlwaysConsistent`,
`FoundAlwaysTracked` and `TimerNeverAhead` for all sets of peers, addresses,
interfaces and descriptors and all delays, from `ConstantsAssumption`. The
inductive invariant is the conjunction of the four invariants that the run
checks. None is inductive alone: a timer event is attributed through `fdToPeer`,
so types need the tables; that a refreshed timer is not the timer of another
peer, and that a new timer carries no old expiry, come from the tables too.
Lemmas `HelloStep`, `TickStep` and `PeerLostStep` treat the steps that change
several tables; the step that ends the process changes them too.

`ConnectionManagerProofs` proves `TypeCorrect`, `TablesAlwaysMatch`,
`PeersAreGenuine`, `SendsAreAddressed` and `NotificationsAlwaysBalance` for all
sets of peers and all finite sets of descriptors. The inductive invariant joins
types, tables and identity: an insert at the end of a handshake finds no old
entry because the descriptor was not established, and lists the right peer
because the handshake compared or captured its id. `NotificationsBalance`, which
is one short exactly for a session that was told to be lost and is yet to be
told to be open (`late`), is then proved relative to it by counting
(`FiniteSetTheorems`). A last section gives every descriptor a role (closed,
dialling, accepting, answering, or one end of an outgoing or incoming session)
and says what each handler does to the roles, which is all that `NetworkProofs`
uses of the handlers.

`NetworkProofs` proves `TypeCorrect`, `SessionAlwaysShared` and
`SessionsAlwaysAgree` for any number of dials, restarts and descriptors, from
`NetworkAssumption`. Each node of `Network` is an instance of
`ConnectionManager`, so the invariant of one node, `Sound`, holds of either by
the lemmas of `ConnectionManagerProofs`. `Links` is what the two have to do with
each other: a connection has at most one end at each node (`OneEnd`), and the
roles of its ends fit together (`Sides`); once the answer was sent no end of the
connection is still accepting it, and an outgoing session has had its answer
(`Answers`); a connection that nobody has an end of is as new, and there is
always one for the next dial (`IdsLeft`). There is one lemma for each kind of
step. An outgoing session opens only on an answer. The end that sent it is
*answering* from then on: its epoll thread does nothing but complete this send,
by reporting the incoming session or by closing. The dialler may report first,
and what it may rely on is that the other end is answering, has its session, or
is closed. The two differ otherwise only while a hello or the news of a broken
connection is under way. At rest there is none and nobody is answering, and the
ends of a connection are a bijection between the outgoing sessions of one node
and the incoming sessions of the other (`QuietSessions`): the notifications,
which count sessions, agree. Late destructors and connections that are cut only
keep steps from happening; of `stale` and `deaf` the proof needs the types alone
(`SpecReaders`).

`SendQueueProofs` proves `TypeCorrect`, `AlwaysOneSender`,
`FrontAlwaysTakenOnce`, `QueueNeverStalls` and `AlwaysClosedOnce` for any number
of threads and messages. The argument is a baton: the right to work on the front
of the queue is held by exactly one place, a thread that found the queue empty
when it pushed, the write registered in the loop, or the thread that completes
it, and it changes hands only in the steps between lock operations. The
inductive invariant has seven parts: `Control` and `Data` (types), `Baton` (who
holds it), `Front` (whether the front is moved out, by who holds it), `Wakeup`
(a non-empty queue has a holder until somebody closes), `Closer` (how far a
thread in `CloseFD` has got, and that only the one which erased the descriptor
tells the manager) and `Carried` (what a thread carries from a step to the
next).

It also proves `ImplementsChannel`: `Spec => RefinesChannel`. Messages reach the
stream in order and at most once, and while the connection is up only those are
given up whose send failed. Under that invariant every step of `SendQueue` maps
to a step of `MessageChannel` or leaves its variables unchanged; taking the
front out of the queue is a stutter, because the message in flight stands for
it, and a completion pops a message that was written (a stutter) or gives one up
(`unsent`).

`AsyncFdProofs` proves `TypesCorrect` and `FramesStayIntact` for any set of
nodes and of connections between them, every size of the length, of the messages
and of the kernel buffer of each stream, and any number of messages. The
inductive invariant follows the bytes of a stream: what the reader has handed
over, has in its hands and has not read yet, and what the writer has not written
yet, make up the frames sent, in this order, and a reader that waits for a
length or a body stands at the boundary of one. Nothing is said of a stream from
the moment a frame was torn. The lemmas are about frames laid end to end: where
the next one begins, and what a prefix of any number of bytes leaves.

`EpollLoopProofs` proves `RunningAlwaysAlive` and `RemovalAlwaysSignalled` for
any number of threads, descriptors and operations. The inductive invariant adds
to the two properties the types, that a token in `cancelMap` belongs to an
`AsyncFd` registered where it says (`Tokens`) and that what runs is a callback
(`Current`). The argument is that no operation takes a callback out of both the
table and the remove queue (`Keeps`), and none queues one in silence
(`Signals`); only the epoll thread destroys, and not while it runs a callback.

It also proves `EventsAlwaysHaveCallbacks`, for any number of threads that
register, deregister and close at the same time. `Watched` is inductive under
that invariant: an operation that takes a callback out of the table takes its
direction out of the interest list in the same step, one that adds a direction
has put a callback there, and `close()` only shrinks the list
(`RegisterWatches`, `DeregisterWatches`, `DeregisterFdWatches`, `CloseWatches`).
The converse, that each callback of the table is watched, is false, and so is
that no registration is refused: see section 5 on `ReadMessage(Release())`.

`IpTransportProofs` proves `NeverCircular`, `AlwaysNotifiedUnlocked` and
`ManagerAlwaysOutlives` for any number of threads that give commands. The second
covers socket calls that may block as well as notifications. The first two
assume `Calm`: the manager does not answer `Error` or `SessionLost` with a
command (the manager of `main.cpp` answers only `Found`); section 5 says what
happens otherwise. Mutexes have a rank, `_connMutex` before `_brMutex` before
`BroadcastManager::globalLock_` before the others, and a path is tidy when each
mutex it takes ranks above all it holds. Lemmas for `Then`, `Under` and unions
carry this through every operation; the invariant `LocksInv` then says that each
thread holds what its path says at that point, which a command given from within
a notification keeps because nothing is held there. Along a circle of waiting
threads ranks would rise for ever, and there are four.

`ExperimentProofs` proves `NothingEverLeftBehind` for every number of nodes,
links and modifications and whichever calls of the workers fail. The inductive
invariant says that workers clean up for themselves and never for main
(`TasksOK`), that there is no network before there are containers
(`NetworksOK`), that every container is known while no worker has given up
(`BeforeCleanup`), and how far main's cleanup has got, which without an
interrupt runs alone (`DuringCleanup`, `AtEnd`).

It also proves `LinksAlwaysFollow`, for configurations that are `Unambiguous`:
no modification both adds and erases one and the same link. The code does not
check this, and runs the two workers of such a modification in parallel, so that
what becomes of the link is a matter of chance; every configuration of the
repository satisfies it. The inductive invariant relates each stage to its
workers (`Orderly`): what the links were before the modification under way,
which of them have a worker that has not finished, and that every other one is
as the configuration asks. `Links` gives the links after so many modifications;
what the proof needs of it for all numbers comes from the well-foundedness of
`<` on the natural numbers.

The last section of `ExperimentProofs` is about `ExperimentStats`. It proves
`TypeCorrect`, `GraphAlwaysCounts` and `PrintedAlwaysReal` for any number of
nodes and logs of any length, those included that report a loss or an end of
what was never reported: adjacency lists count the sessions that both ends
report, in whatever order they do; `erase_edge` is never the one to raise; and
as long as nothing has raised, the picture replayed from the printed lines is
that of the sessions. `TimesAlwaysRight` adds that both times are given exactly
while the nodes are linked, and are the right ones. It rests on `SearchIsRight`:
the search of `is_connected` reaches all nodes exactly when sessions cross every
cut. A set that the search has closed off is a cut that nothing crosses; and
while it has not, each round adds a node, so that as many rounds as there are
nodes suffice. `GraphCountsSessions` makes the adjacency lists and the sessions
the same neighbours.

Two of these proofs need induction over numbers. The induction theorems of the
library take an operator as a parameter, which the provers cannot instantiate;
the proofs take a least element of a set of counterexamples instead (`WFMin`,
`NatLessThanWellFounded`).

Only model-checked is liveness, which is out of the prover's reach:
`SilentPeerIsDropped`, `KeepsAnnouncing`, `Settles`, `QueueDrains`,
`ClosingIsTold`, `MessagesArrive`, `HalfOpenIsClosed`, `CallbacksDestroyed`,
`StopIsHeeded`, `DestructorReturns` and `Evaluated`. Every safety property of a
passing run is a theorem. The properties of the violated runs have none.

## 5. Findings

* `early_loss`: `ProcessPeerLost` does not look at what `read()` returns
  (ip_broadcast.cpp:261). A peer whose hello and whose expiry come in one batch
  is dropped a moment after it was heard, against ip_broadcast.h:28-29.
* `silent_failure`: outgoing handshakes that fail while waiting for the answer
  are not reported, against ip_conn_manager.h:46-47.
* `late_destructor`: the destructor of an old `AsyncFd` can deregister the
  action of a new connection with the same descriptor number, whose handshake
  then neither proceeds nor ends, against ip_conn_manager.h:28 and 34.

Seen in the models and kept without a run of their own, because no document
promises otherwise or a property states exactly what the code keeps:

* Discovery. `ifToPeer_` keeps peers that have moved; losing the old interface
  reports them lost (ip_broadcast.cpp:191, 248). Timerfds of lost peers are
  never closed, so that `ProcessHello` at last finds no descriptor (`discovery`
  takes that branch). A peer whose address is in no subnet of ours makes
  `get_interface_by_ip` return `nullptr`, and the exception of the string made
  of it ends the process (ip_broadcast.cpp:247).
* Sessions. A second `OpenSession` during the handshake leads to two outgoing
  sessions, one of which cannot be reached any more once the other is closed
  (ip_conn_manager.cpp:266). An outgoing session that epoll refuses to read is
  told to be lost before it is told to be open (ip_conn_manager.cpp:250-252).
* Waiting for ever. Hello exchanges have no timeout and connections no
  keepalive: a handshake hangs when the network is cut under it (`Stuck`).
  Accepted sockets stay blocking (ip_utils.h:347), so two nodes that have
  dialled each other can both wait in `send()` for the other to read
  (`Caught`); `~IpTransport` then waits in `join()` for ever.
* Failed sends. `ProcData` takes `EAGAIN` for an error, and the completion pops
  the message and goes on (async_fd.h:235-241, ip_conn_manager.cpp:374-394). On
  a connection that stays up the message is lost (`GiveUp` of
  `MessageChannel`), and if the frame was begun, what follows is misread, and
  `FramesIntact` excepts the stream.
* `ReadMessage(Release())` follows a notification whatever the manager did in it
  (ip_conn_manager.cpp:169-171, 508-509). When the manager has closed the
  connection, this registers a closed descriptor, or the number of another
  connection; when another thread is in between the deregistration and the
  `close()`, a callback is left under a free number, and the next connection
  with it is refused.
* Completions work on the tables of `ConnectionManager` without `_connMutex`, so
  that two `CloseFD` of one connection overlap (`send_queue` explores this, and
  `ClosedOnce` holds).
* `Error` and `SessionLost` are told on the thread of the command and with the
  non-recursive `_connMutex` held, while ip_transport.h:24-25 has notifications
  run on the epoll thread. A manager that answers one of them with a command
  locks itself out; with these two in `Reacting`, `NoCircularWait` is violated.
* The transport writes logs that stop the evaluation. A link loss reports a
  neighbour lost and leaves its timer, which reports it lost again
  (ip_broadcast.cpp:195, 282); a node first heard over TCP is lost without
  having been found. `remove` then raises (combine_logs.py:210), and neither
  the times nor `graph.txt` are written.
* Two workers that `reload()` the same container may leave the older answer, so
  that `bridge_up` does not find the network and leaves the link down
  (run_experiment.py:335); these are the `missed` links, with those whose
  command in a container failed unseen.
* An experiment that is interrupted may leave containers, as workers go on after
  main's cleanup. One in which a worker gave up may leave networks: `docker rm`
  without a container fails, and the rest of `cleanup` is skipped.
* The page skips lines whose time is a whole second (index.html:103), and a
  connection time of 0 counts as none (combine_logs.py:280).

## 6. Not modelled, and the plan

Not modelled: logging, string conversions and value types; socket options except
blocking; the table of transports and argument handling of `main.cpp`; regular
expressions, time stamps and files of the log analysis, and logs with two
sessions for one pair and direction; subnets, traffic shaping, iptables rules
(which nothing removes) and the parsing of configurations in the emulator;
layout, drawing and controls of the page. They hold no state that the components
share, or are pure input and output.

A handler that a `ConnectionManager` runs while another thread gives commands is
in `SendQueue` for one connection, whose descriptor number is not used again
there: that the second of two overlapping `close()` calls may hit a new
descriptor is not covered. The handshakes are modelled on the epoll thread only,
as in `main.cpp`.

Next: logs with two sessions for one pair and direction, which
`ConnectionManager` allows and `ExperimentStats` excludes; and the number of a
descriptor used again between two overlapping closes.

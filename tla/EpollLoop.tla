----------------------------- MODULE EpollLoop -----------------------------
(***************************************************************************)
(* EpollLoop (epoll_loop.cpp) and the operations that use it (AsyncFd).    *)
(*                                                                         *)
(* The loop runs a callback through a raw pointer, without globalLock_, so *)
(* a callback taken out of fdToCallback_ goes to removeQueue_ and is       *)
(* destroyed by the epoll thread when it handles removeEvent_.  Callbacks  *)
(* keep their AsyncFd alive; the last one to be destroyed runs ~AsyncFd,   *)
(* which deregisters what is still under the token of the AsyncFd.         *)
(* Descriptor numbers are reused as soon as they are closed.               *)
(*                                                                         *)
(* What the callbacks do is taken from ConnectionManager.  One AsyncFd does *)
(* the two operations of a handshake, one after the other; an established  *)
(* connection is read by one AsyncFd after another and may be written by   *)
(* others.  Notifications of the manager run on the epoll thread between   *)
(* two reads, and the manager may issue commands from them.                *)
(***************************************************************************)
EXTENDS Naturals, Sequences, FiniteSets

CONSTANTS
    Fds,        \* descriptor numbers of connections
    Ops,        \* AsyncFd objects; one that is destroyed may be allocated again
    Users,      \* threads besides the epoll thread that issue commands
    Epoll,
    None

Threads == Users \cup {Epoll}
Dirs == {"in", "out"}
GetOpposite(d) == IF d = "in" THEN "out" ELSE "in"

(* The callback objects of an AsyncFd: length and body of its operation,   *)
(* and of the second one of a handshake.                                   *)
Callbacks == [op : Ops, gen : 1 .. 4]

ASSUME EpollLoopAssumption ==
    /\ Epoll \notin Users
    /\ None \notin Fds \cup Ops \cup Users \cup {Epoll} \cup Callbacks

VARIABLES
    open,         \* descriptors in use
    established,  \* connections in activeConns
    handshake,    \* operations that belong to a handshake
    kernel,       \* directions epoll watches; {}: descriptor not in epoll
    table,        \* fdToCallback_
    cancelMap,    \* tokens, each named by its AsyncFd
    key,          \* descriptor and direction an AsyncFd works on
    token,        \* AsyncFd::token_ # 0
    removeQueue,  \* removeQueue_
    removeEvent,  \* is removeEvent_ readable
    stopEvent,    \* is stopEvent_ readable
    batch,        \* events of the last epoll_wait not handled yet
    pc,           \* what the epoll thread does
    cur,          \* the callback it runs or destroys
    curFd,        \* the descriptor in the AsyncFd whose operation completed
    closing       \* the descriptor a thread is closing in CloseFD

regs == <<kernel, table, cancelMap, key, token>>
removal == <<removeQueue, removeEvent>>
loop == <<batch, pc, cur, curFd, stopEvent>>
vars == <<open, established, handshake, regs, removal, loop, closing>>

Events == {"none", "in", "out", "err", "errOut"}

TypeOK ==
    /\ open \subseteq Fds
    /\ established \subseteq Fds
    /\ handshake \subseteq Ops
    /\ kernel \in [Fds -> SUBSET Dirs]
    /\ table \in [Fds \X Dirs -> Callbacks \cup {None}]
    /\ cancelMap \subseteq Ops
    /\ key \in [Ops -> (Fds \X Dirs) \cup {None}]
    /\ token \in [Ops -> BOOLEAN]
    /\ removeQueue \in Seq(Callbacks)
    /\ removeEvent \in BOOLEAN
    /\ stopEvent \in BOOLEAN
    /\ batch \in [Fds -> Events] \X SUBSET {"remove", "stop"}
    /\ pc \in {"wait", "batch", "run", "after", "notified", "reading", "failed",
              "readErr", "drain", "destroy", "stopped"}
    /\ cur \in Callbacks \cup {None}
    /\ curFd \in Fds \cup {None}
    /\ closing \in [Threads -> Fds \cup {None}]

NoEvents == [fd \in Fds |-> "none"]

(* The epoll thread is in a callback.                                      *)
CallbackPcs == {"run", "after", "notified", "reading", "failed", "readErr"}

Init ==
    /\ open = {}
    /\ established = {}
    /\ handshake = {}
    /\ kernel = [fd \in Fds |-> {}]
    /\ table = [k \in Fds \X Dirs |-> None]
    /\ cancelMap = {}
    /\ key = [o \in Ops |-> None]
    /\ token = [o \in Ops |-> FALSE]
    /\ removeQueue = <<>>
    /\ removeEvent = FALSE
    /\ stopEvent = FALSE
    /\ batch = <<NoEvents, {}>>
    /\ pc = "wait"
    /\ cur = None
    /\ curFd = None
    /\ closing = [t \in Threads |-> None]

-----------------------------------------------------------------------------
(* The operations of EpollLoop, each under globalLock_.                    *)

Held(tab, queue) ==
    {tab[k].op : k \in {j \in Fds \X Dirs : tab[j] # None}}
      \cup {queue[i].op : i \in DOMAIN queue}

(* AsyncFd objects that no callback keeps alive.                           *)
FreeOps == Ops \ (Held(table, removeQueue) \cup (IF cur = None THEN {} ELSE {cur.op}))

(* EPOLL_CTL_MOD if the other direction is in the table, EPOLL_CTL_ADD     *)
(* otherwise; the kernel refuses when it knows better, and when the        *)
(* descriptor is closed.                                                   *)
Accepts(fd, d, isOpen) ==
    /\ table[<<fd, d>>] = None
    /\ isOpen
    /\ (table[<<fd, GetOpposite(d)>>] # None) <=> (kernel[fd] # {})

RegisterAction(o, gen, fd, d, isOpen) ==
    IF Accepts(fd, d, isOpen)
    THEN /\ table' = [table EXCEPT ![<<fd, d>>] = [op |-> o, gen |-> gen]]
         /\ kernel' = [kernel EXCEPT ![fd] =
                         {e \in Dirs : e = d \/ table[<<fd, e>>] # None}]
         /\ cancelMap' = cancelMap \cup {o}
         /\ key' = [key EXCEPT ![o] = <<fd, d>>]
         /\ token' = [token EXCEPT ![o] = TRUE]
    ELSE UNCHANGED regs

(* Mutant: the callback is destroyed at once.                              *)
UtilizeCallback_Destroys(cbs) == UNCHANGED removal

(* Mutant: nobody writes to removeEvent_.                                  *)
UtilizeCallback_Silent(cbs) ==
    /\ removeQueue' = removeQueue \o cbs
    /\ UNCHANGED removeEvent

UtilizeCallback(cbs) ==
    /\ removeQueue' = removeQueue \o cbs
    /\ removeEvent' = (removeEvent \/ cbs # <<>>)

(* Mutant: EPOLL_CTL_MOD keeps both directions.                            *)
DeregisterAction_KeepsInterest(o) ==
    LET k == key[o]
        fd == k[1]
        d == GetOpposite(k[2])
    IN  IF o \in cancelMap /\ table[k] # None
        THEN /\ UtilizeCallback(<<table[k]>>)
             /\ table' = [table EXCEPT ![k] = None]
             /\ kernel' = [kernel EXCEPT ![fd] = IF table[<<fd, d>>] # None THEN @ ELSE {}]
             /\ cancelMap' = cancelMap \ {o}
        ELSE /\ cancelMap' = cancelMap \ {o}
             /\ UNCHANGED <<table, kernel, removal>>

(* Whatever is registered for the descriptor and direction of the token    *)
(* goes: EPOLL_CTL_MOD if the other direction stays, else EPOLL_CTL_DEL.   *)
DeregisterAction(o) ==
    LET k == key[o]
        fd == k[1]
        d == GetOpposite(k[2])
    IN  IF o \in cancelMap /\ table[k] # None
        THEN /\ UtilizeCallback(<<table[k]>>)
             /\ table' = [table EXCEPT ![k] = None]
             /\ kernel' = [kernel EXCEPT ![fd] = IF table[<<fd, d>>] # None /\ kernel[fd] # {}
                                                 THEN {d} ELSE {}]
             /\ cancelMap' = cancelMap \ {o}
        ELSE /\ cancelMap' = cancelMap \ {o}
             /\ UNCHANGED <<table, kernel, removal>>

(* The tokens stay in cancelMap.                                           *)
DeregisterFd(fd) ==
    LET cbs == (IF table[<<fd, "in">>] # None THEN <<table[<<fd, "in">>]>> ELSE <<>>)
                 \o (IF table[<<fd, "out">>] # None THEN <<table[<<fd, "out">>]>> ELSE <<>>)
    IN  /\ UtilizeCallback(cbs)
        /\ table' = [table EXCEPT ![<<fd, "in">>] = None, ![<<fd, "out">>] = None]
        /\ kernel' = IF cbs # <<>> THEN [kernel EXCEPT ![fd] = {}] ELSE kernel
        /\ UNCHANGED <<cancelMap, key, token>>

-----------------------------------------------------------------------------
(* Commands and handlers: on a user thread at any time, on the epoll       *)
(* thread from a handler of the listening, UDP or netlink socket or from a *)
(* notification.                                                           *)

MayCommand(t) ==
    /\ closing[t] = None
    /\ t = Epoll => pc \in {"batch", "notified"} \/ (pc = "after" /\ curFd = None)

(* The bound Ops leaves an AsyncFd for the read that must follow.          *)
Spare == pc \in {"notified", "reading"} => Cardinality(FreeOps) > 1

(* accept, which is a handler of the loop, or connect: a descriptor that   *)
(* was free, and the first operation of the handshake.  If it is refused   *)
(* the descriptor is closed again.                                         *)
Connect(t, fd, o, d) ==
    /\ MayCommand(t)
    /\ d = "in" => (t = Epoll /\ pc = "batch")
    /\ fd \notin open
    /\ o \in FreeOps /\ Spare
    /\ RegisterAction(o, 1, fd, d, TRUE)
    /\ open' = IF Accepts(fd, d, TRUE) THEN open \cup {fd} ELSE open
    /\ handshake' = IF Accepts(fd, d, TRUE) THEN handshake \cup {o} ELSE handshake
    /\ UNCHANGED <<established, removal, loop, closing>>

(* SendMessageFd on an established connection.  The send queue lets one    *)
(* operation in at a time (SendQueue, OneSender).                          *)
StartSend(t, fd, o) ==
    /\ MayCommand(t)
    /\ fd \in established
    /\ o \in FreeOps /\ Spare
    /\ table[<<fd, "out">>] = None
    /\ cur # None => key[cur.op] # <<fd, "out">>
    /\ RegisterAction(o, 1, fd, "out", fd \in open)
    /\ UNCHANGED <<open, established, handshake, removal, loop, closing>>

(* CloseFD, first half.  On the epoll thread: from a notification, and the *)
(* completion that gave it will call ReadMessage all the same.             *)
CloseBegin(t, fd) ==
    /\ MayCommand(t)
    /\ fd \in established
    /\ DeregisterFd(fd)
    /\ closing' = [closing EXCEPT ![t] = fd]
    /\ UNCHANGED <<open, established, handshake, loop>>

(* close(): the kernel takes the descriptor out of epoll.                  *)
CloseEnd(t) ==
    /\ closing[t] # None
    /\ open' = open \ {closing[t]}
    /\ established' = established \ {closing[t]}
    /\ kernel' = [kernel EXCEPT ![closing[t]] = {}]
    /\ closing' = [closing EXCEPT ![t] = None]
    /\ UNCHANGED <<handshake, table, cancelMap, key, token, removal, loop>>

Stop ==
    /\ ~stopEvent /\ pc # "stopped"
    /\ stopEvent' = TRUE
    /\ UNCHANGED <<open, established, handshake, regs, removal, batch, pc, cur, curFd, closing>>

-----------------------------------------------------------------------------
(* The epoll thread.                                                       *)

(* Mutant: the removal event is not among the descriptors waited for.      *)
EpollWait_NoRemoval(ready) ==
    /\ pc = "wait"
    /\ \A fd \in Fds : ready[fd] # "none" =>
         kernel[fd] # {} /\ ready[fd] \in kernel[fd] \cup {"err"}
    /\ batch' = <<ready, IF stopEvent THEN {"stop"} ELSE {}>>
    /\ pc' = "batch"
    /\ UNCHANGED <<open, established, handshake, regs, removal, cur, curFd, stopEvent, closing>>

(* epoll_wait: level triggered, so the eventfds are reported as long as    *)
(* they are readable; the sockets are ready as the network pleases.        *)
EpollWait(ready) ==
    /\ pc = "wait"
    /\ \A fd \in Fds : ready[fd] # "none" =>
         kernel[fd] # {} /\ ready[fd] \in kernel[fd] \cup {"err"}
    /\ batch' = <<ready, (IF removeEvent THEN {"remove"} ELSE {})
                           \cup (IF stopEvent THEN {"stop"} ELSE {})>>
    /\ pc' = "batch"
    /\ UNCHANGED <<open, established, handshake, regs, removal, cur, curFd, stopEvent, closing>>

(* epoll_wait fails (EINTR, for one) and Run returns.                      *)
WaitFails ==
    /\ pc = "wait"
    /\ pc' = "stopped"
    /\ UNCHANGED <<open, established, handshake, regs, removal, batch, cur, curFd, stopEvent,
                   closing>>

BatchDone ==
    /\ pc = "batch"
    /\ closing[Epoll] = None
    /\ batch = <<NoEvents, {}>>
    /\ pc' = "wait"
    /\ UNCHANGED <<open, established, handshake, regs, removal, batch, cur, curFd, stopEvent,
                   closing>>

(* Mutant: the loop leaves the batch, not Run.                             *)
HandleStop_Continues ==
    /\ pc = "batch"
    /\ closing[Epoll] = None
    /\ "stop" \in batch[2]
    /\ stopEvent' = FALSE
    /\ batch' = <<NoEvents, {}>>
    /\ UNCHANGED <<open, established, handshake, regs, removal, pc, cur, curFd,
                   closing>>

HandleStop ==
    /\ pc = "batch"
    /\ closing[Epoll] = None
    /\ "stop" \in batch[2]
    /\ stopEvent' = FALSE
    /\ pc' = "stopped"
    /\ UNCHANGED <<open, established, handshake, regs, removal, batch, cur, curFd, closing>>

(* RunCallback for the next event of a descriptor: err runs the EPOLLIN    *)
(* and then the EPOLLOUT callback.                                         *)
RunCallback(fd) ==
    LET d == IF batch[1][fd] \in {"in", "err"} THEN "in" ELSE "out"
    IN  /\ pc = "batch"
        /\ closing[Epoll] = None
        /\ batch[1][fd] # "none"
        /\ batch' = [batch EXCEPT ![1][fd] = IF batch[1][fd] = "err" THEN "errOut"
                                             ELSE "none"]
        /\ \/ table[<<fd, d>>] = None /\ UNCHANGED <<pc, cur>>
           \/ table[<<fd, d>>] # None /\ cur' = table[<<fd, d>>] /\ pc' = "run"
        /\ UNCHANGED <<open, established, handshake, regs, removal, curFd, stopEvent, closing>>

(* The callback transfers a part and stays registered.                     *)
KeepCallback ==
    /\ pc = "run"
    /\ pc' = "batch"
    /\ cur' = None
    /\ UNCHANGED <<open, established, handshake, regs, removal, batch, curFd, stopEvent, closing>>

(* ReplaceAction: the length is done, the body follows.  Fails when the    *)
(* action was deregistered; the operation then completes with an error.    *)
ReplaceAction ==
    LET k == key[cur.op]
    IN  /\ pc = "run"
        /\ cur.gen \in {1, 3}
        /\ cur.op \in cancelMap /\ table[k] # None
        /\ UtilizeCallback(<<table[k]>>)
        /\ table' = [table EXCEPT ![k] = [cur EXCEPT !.gen = @ + 1]]
        /\ pc' = "batch"
        /\ cur' = None
        /\ UNCHANGED <<open, established, handshake, kernel, cancelMap, key, token, batch,
                       curFd, stopEvent, closing>>

(* The operation completes: AsyncFd::Deregister, then the completion.      *)
Complete ==
    /\ pc = "run"
    /\ DeregisterAction(cur.op)
    /\ token' = [token EXCEPT ![cur.op] = FALSE]
    /\ curFd' = key[cur.op][1]
    /\ pc' = "after"
    /\ UNCHANGED <<open, established, handshake, key, batch, cur, stopEvent, closing>>

ReadCompleted == pc = "after" /\ cur.op \notin handshake /\ key[cur.op][2] = "in"
InCompletion(fd) == closing[Epoll] = None /\ curFd = fd

(* The first operation of the handshake is done and the second follows, on *)
(* the same AsyncFd.  If it is refused the handshake fails.                *)
Proceed(fd) ==
    LET d == GetOpposite(key[cur.op][2])
    IN  /\ pc = "after" /\ InCompletion(fd)
        /\ cur.op \in handshake /\ cur.gen \in {1, 2}
        /\ RegisterAction(cur.op, 3, fd, d, fd \in open)
        /\ IF Accepts(fd, d, fd \in open)
           THEN curFd' = None /\ UNCHANGED pc
           ELSE pc' = "failed" /\ UNCHANGED curFd
        /\ UNCHANGED <<open, established, handshake, removal, batch, cur, stopEvent, closing>>

(* The handshake fails: close(Release()).                                  *)
GiveUp ==
    /\ pc \in {"after", "failed"} /\ closing[Epoll] = None
    /\ curFd # None
    /\ cur.op \in handshake
    /\ open' = open \ {curFd}
    /\ kernel' = [kernel EXCEPT ![curFd] = {}]
    /\ curFd' = None
    /\ pc' = "after"
    /\ UNCHANGED <<established, handshake, table, cancelMap, key, token, removal,
                   batch, cur, stopEvent, closing>>

(* The handshake is done.  An accepted connection is reported first and    *)
(* read then, a dialled one the other way round.                           *)
Establish(fd) ==
    /\ pc = "after" /\ InCompletion(fd)
    /\ cur.op \in handshake /\ cur.gen \in {3, 4}
    /\ FreeOps # {}
    /\ established' = established \cup {fd}
    /\ pc' = IF key[cur.op][2] = "out" THEN "notified" ELSE "reading"
    /\ UNCHANGED <<open, handshake, regs, removal, batch, cur, curFd, stopEvent, closing>>

(* The completion of ReadMessage finds the connection and hands over the   *)
(* message.                                                                *)
Notify(fd) ==
    /\ InCompletion(fd)
    /\ ReadCompleted
    /\ fd \in established
    /\ FreeOps # {}
    /\ pc' = "notified"
    /\ UNCHANGED <<open, established, handshake, regs, removal, batch, cur, curFd,
                   stopEvent, closing>>

(* ReadMessage(Release()), whatever the notification has done: the         *)
(* descriptor may be closed by now, and its number in use again.           *)
ReadMessage(fd, o) ==
    /\ pc \in {"notified", "reading"} /\ InCompletion(fd)
    /\ o \in FreeOps
    /\ RegisterAction(o, 1, fd, "in", fd \in open)
    /\ IF Accepts(fd, "in", fd \in open)
       THEN pc' = "after" /\ curFd' = None
       ELSE pc' = "readErr" /\ UNCHANGED curFd
    /\ UNCHANGED <<open, established, handshake, removal, batch, cur, stopEvent, closing>>

(* The completion of ReadMessage with an error, the read failed or the     *)
(* registration was refused: CloseFD of what activeConns has under the     *)
(* number.                                                                 *)
CloseFailed(fd) ==
    /\ InCompletion(fd)
    /\ ReadCompleted \/ pc = "readErr"
    /\ fd \in established
    /\ DeregisterFd(fd)
    /\ closing' = [closing EXCEPT ![Epoll] = fd]
    /\ pc' = "after" /\ curFd' = None
    /\ UNCHANGED <<open, established, handshake, batch, cur, stopEvent>>

(* The completion of SendMessageFd goes on with the next message.          *)
SendNext(fd, o) ==
    /\ pc = "after" /\ InCompletion(fd)
    /\ cur.op \notin handshake /\ key[cur.op][2] = "out"
    /\ fd \in established
    /\ o \in FreeOps
    /\ RegisterAction(o, 1, fd, "out", fd \in open)
    /\ curFd' = None
    /\ UNCHANGED <<open, established, handshake, removal, batch, pc, cur, stopEvent, closing>>

(* The callback returns: it has gone on with another operation or closed   *)
(* the connection, found it closed, or had nothing more to send.           *)
CallbackReturns ==
    /\ closing[Epoll] = None
    /\ \/ pc = "after" /\ curFd = None
       \/ pc = "after" /\ cur.op \notin handshake
            /\ (curFd \notin established \/ key[cur.op][2] = "out")
       \/ pc = "readErr" /\ curFd \notin established
    /\ pc' = "batch"
    /\ cur' = None
    /\ curFd' = None
    /\ UNCHANGED <<open, established, handshake, regs, removal, batch, stopEvent, closing>>

(* removeEvent_: read it, then empty the queue one callback at a time,     *)
(* giving up globalLock_ for each destructor.                              *)
DrainBegin ==
    /\ pc = "batch"
    /\ closing[Epoll] = None
    /\ "remove" \in batch[2]
    /\ batch' = [batch EXCEPT ![2] = @ \ {"remove"}]
    /\ removeEvent' = FALSE
    /\ pc' = "drain"
    /\ UNCHANGED <<open, established, handshake, regs, removeQueue, cur, curFd, stopEvent,
                   closing>>

DrainOne ==
    /\ pc = "drain"
    /\ removeQueue # <<>>
    /\ cur' = Head(removeQueue)
    /\ removeQueue' = Tail(removeQueue)
    /\ pc' = "destroy"
    /\ UNCHANGED <<open, established, handshake, regs, removeEvent, batch, curFd, stopEvent,
                   closing>>

(* The last callback of an AsyncFd takes it along; ~AsyncFd deregisters    *)
(* its token.                                                              *)
DestroyCallback ==
    /\ pc = "destroy"
    /\ pc' = "drain"
    /\ cur' = None
    /\ IF cur.op \in Held(table, removeQueue)
       THEN UNCHANGED <<regs, handshake, removal>>
       ELSE /\ IF token[cur.op] THEN DeregisterAction(cur.op)
               ELSE UNCHANGED <<table, kernel, cancelMap, removal>>
            /\ token' = [token EXCEPT ![cur.op] = FALSE]
            /\ key' = [key EXCEPT ![cur.op] = None]
            /\ handshake' = handshake \ {cur.op}
    /\ UNCHANGED <<open, established, batch, curFd, stopEvent, closing>>

DrainEnd ==
    /\ pc = "drain"
    /\ removeQueue = <<>>
    /\ pc' = "batch"
    /\ UNCHANGED <<open, established, handshake, regs, removal, batch, cur, curFd, stopEvent,
                   closing>>

Command ==
    \/ \E t \in Threads, fd \in Fds :
         \/ \E o \in Ops, d \in Dirs : Connect(t, fd, o, d)
         \/ \E o \in Ops : StartSend(t, fd, o)
         \/ CloseBegin(t, fd)
    \/ \E t \in Threads : CloseEnd(t)
    \/ Stop

Wait ==
    \/ \E ready \in [Fds -> {"none", "in", "out", "err"}] : EpollWait(ready)
    \/ WaitFails

Dispatch ==
    \/ BatchDone
    \/ HandleStop
    \/ DrainBegin
    \/ \E fd \in Fds : RunCallback(fd)

Callback ==
    \/ KeepCallback \/ ReplaceAction \/ Complete
    \/ \E fd \in Fds : \/ Proceed(fd) \/ Establish(fd) \/ Notify(fd) \/ CloseFailed(fd)
                       \/ \E o \in Ops : ReadMessage(fd, o) \/ SendNext(fd, o)
    \/ GiveUp
    \/ CallbackReturns

Drain == DrainOne \/ DestroyCallback \/ DrainEnd

Next == Command \/ Wait \/ Dispatch \/ Callback \/ Drain

Spec == Init /\ [][Next]_vars

(* The epoll thread is scheduled, its handlers and callbacks end and its   *)
(* batches are finite, so it always gets to the next event.                *)
FairSpec ==
    /\ Spec
    /\ WF_vars(CloseEnd(Epoll))
    /\ WF_vars(Wait)
    /\ SF_vars(Dispatch)
    /\ SF_vars(Callback)
    /\ WF_vars(Drain)

-----------------------------------------------------------------------------
(* Properties.                                                             *)

(* RunCallback runs a callback without globalLock_ while other threads, and *)
(* the callback itself, deregister and replace actions: the callback it    *)
(* runs is never destroyed under it.                                       *)
RunningIsAlive ==
    pc \in CallbackPcs =>
        \/ \E k \in Fds \X Dirs : table[k] = cur
        \/ \E i \in DOMAIN removeQueue : removeQueue[i] = cur

(* A callback that waits for its destruction is not forgotten: the event   *)
(* is readable or the loop is about to look at the queue again.            *)
RemovalSignalled == removeQueue # <<>> => removeEvent \/ pc \in {"drain", "destroy"}

(* fdToCallback_ and the interest list of the kernel are changed by        *)
(* different calls, and close() changes only one of them.  Whatever epoll  *)
(* watches has a callback: a level-triggered event without one would come  *)
(* back at once and for ever.  (The converse is false: a callback may be   *)
(* left under the number of a descriptor that ReadMessage found closed.)   *)
EventsHaveCallbacks ==
    \A fd \in Fds : kernel[fd] \subseteq {d \in Dirs : table[<<fd, d>>] # None}

(* Every callback that was taken out of the table is destroyed, together   *)
(* with what it keeps alive, unless the loop ends.                         *)
CallbacksDestroyed ==
    \A c \in Callbacks :
        (\E i \in DOMAIN removeQueue : removeQueue[i] = c)
          ~> (pc = "stopped" \/ \A i \in DOMAIN removeQueue : removeQueue[i] # c)

(* ~IpTransport stops the loop and joins its thread: the loop ends.        *)
StopIsHeeded == stopEvent ~> pc = "stopped"

(* ip_conn_manager.h, incoming and outgoing connections: every step of the *)
(* handshake is awaited, "If any error happens in this path, connection    *)
(* just closed": an open connection in its handshake has the callback of   *)
(* its operation registered, unless the completion is running.             *)
HandshakeIsAwaited ==
    \A o \in handshake :
        token[o] => table[key[o]] # None /\ table[key[o]].op = o
=============================================================================

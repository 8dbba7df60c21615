----------------------------- MODULE SendQueue -----------------------------
(***************************************************************************)
(* The life of one established connection in ConnectionManager: sending    *)
(* through its queue (SendMessage, SendMessageFd and its completion), the  *)
(* reading loop (ReadMessage) and closing (CloseFD).                       *)
(*                                                                         *)
(* The commands of the transport manager run on its threads, one at a time *)
(* under IpTransport::_connMutex; completions run on the epoll thread      *)
(* without that mutex.  A step here is what happens between two lock       *)
(* operations of activeConnsMut_, connToFdMut_, sendQueueMut_ or the epoll *)
(* loop's globalLock_, so the two kinds of thread interleave as in the     *)
(* code.  The descriptor number is not reused within the model.            *)
(***************************************************************************)
EXTENDS Naturals, Sequences

CONSTANTS
    Users,      \* threads that issue commands
    Epoll,      \* the epoll thread; a member of Users if notifications do
    MaxMsgs,    \* bound: number of SendMessage calls
    None

ASSUME SendQueueAssumption ==
    /\ MaxMsgs \in Nat
    /\ None \notin Users \cup {Epoll}
    /\ None \notin Seq(Nat)
    /\ None \notin [msg : Nat, stage : {"len", "body"}]

Threads == Users \cup {Epoll}

(* The front of the queue after std::move: an empty Message.               *)
Moved == 0
Msgs == 1 .. MaxMsgs
NoQueue == None

VARIABLES
    pc,         \* where a thread is
    held,       \* the message a thread has in a local variable
    connMutex,  \* IpTransport::_connMutex: its owner
    active,     \* is the descriptor in activeConns
    mapped,     \* is the connection in connToFd
    queue,      \* sendQueues_[fd]
    inAct,      \* is ReadMessage's action registered for EPOLLIN
    outAct,     \* the send operation registered for EPOLLOUT
    event,      \* the event of this descriptor in the current batch
    fdOpen,     \* close() not called
    broken,     \* the connection was reset: send and recv fail from now on
    calls,      \* SendMessage calls so far, also the name of the last message
    accepted,   \* history: messages pushed to the queue
    wire,       \* history: messages written to the stream completely
    unsent,     \* history: messages whose send failed
    closing,    \* history: has some CloseFD begun
    told        \* history: OnLinkClosed notifications

local == <<pc, held, connMutex>>
tables == <<active, mapped, queue>>
actions == <<inAct, outAct>>
history == <<accepted, wire, unsent, closing, told>>
vars == <<local, tables, actions, event, fdOpen, broken, calls, history>>

SendPcs == {"take", "register", "sendLen", "replace", "sendBody",
            "deregister", "checkActive", "pop"}
ReadPcs == {"recv", "readOk", "readErr", "readAgain"}
ClosePcs == {"deregisterFd", "closeFd", "unlist", "unmap", "dropQueue", "tell"}
UserPcs == {"lookup", "enqueue", "findFd"}

Operations == [msg : Nat, stage : {"len", "body"}]

TypeOK ==
    /\ pc \in [Threads -> {"idle"} \cup SendPcs \cup ReadPcs \cup ClosePcs \cup UserPcs]
    /\ held \in [Threads -> Nat]
    /\ connMutex \in Threads \cup {None}
    /\ active \in BOOLEAN /\ mapped \in BOOLEAN
    /\ queue \in Seq(Nat) \cup {NoQueue}
    /\ inAct \in BOOLEAN
    /\ outAct \in Operations \cup {None}
    /\ event \in {"none", "in", "out", "err", "errOut"}
    /\ fdOpen \in BOOLEAN /\ broken \in BOOLEAN
    /\ calls \in 0 .. MaxMsgs
    /\ accepted \in Seq(Msgs)
    /\ wire \in Seq(Msgs) /\ unsent \in Seq(Msgs)
    /\ closing \in BOOLEAN
    /\ told \in Nat

(* The connection has just been established.                               *)
Init ==
    /\ pc = [t \in Threads |-> "idle"]
    /\ held = [t \in Threads |-> Moved]
    /\ connMutex = None
    /\ active = TRUE /\ mapped = TRUE
    /\ queue = <<>>
    /\ inAct = TRUE
    /\ outAct = None
    /\ event = "none"
    /\ fdOpen = TRUE /\ broken = FALSE
    /\ calls = 0
    /\ accepted = <<>> /\ wire = <<>> /\ unsent = <<>>
    /\ closing = FALSE
    /\ told = 0

Goto(t, to) ==
    /\ pc' = [pc EXCEPT ![t] = to]
    /\ UNCHANGED connMutex

(* The thread returns to its caller; a command gives up _connMutex.        *)
Return(t) ==
    /\ pc' = [pc EXCEPT ![t] = "idle"]
    /\ connMutex' = IF connMutex = t THEN None ELSE connMutex

-----------------------------------------------------------------------------
(* SendMessage, SendMessageFd and the completion callback.                 *)

(* IpTransport::SendMessage.                                               *)
SendMessage(t) ==
    /\ t \in Users
    /\ connMutex = None
    /\ calls < MaxMsgs
    /\ pc[t] = "idle"
    /\ pc' = [pc EXCEPT ![t] = "lookup"]
    /\ connMutex' = t
    /\ calls' = calls + 1
    /\ held' = [held EXCEPT ![t] = calls + 1]
    /\ UNCHANGED <<tables, actions, event, fdOpen, broken, history>>

Lookup(t) ==
    /\ pc[t] = "lookup"
    /\ \/ mapped /\ Goto(t, "enqueue")
       \/ ~mapped /\ Return(t)
    /\ UNCHANGED <<held, tables, actions, event, fdOpen, broken, calls, history>>

(* Push; whoever makes the queue non-empty becomes the sender.             *)
Enqueue(t) ==
    /\ pc[t] = "enqueue"
    /\ \/ /\ queue = NoQueue
          /\ Return(t)
          /\ UNCHANGED <<queue, accepted>>
       \/ /\ queue # NoQueue
          /\ queue' = Append(queue, held[t])
          /\ accepted' = Append(accepted, held[t])
          /\ \/ Len(queue') > 1 /\ Return(t)
             \/ Len(queue') = 1 /\ Goto(t, "take")
    /\ UNCHANGED <<held, active, mapped, actions, event, fdOpen, broken, calls,
                   wire, unsent, closing, told>>

(* Mutant: the message leaves the queue when it is taken.                  *)
Take_Pops(t) ==
    /\ pc[t] = "take"
    /\ queue \notin {NoQueue, <<>>}
    /\ held' = [held EXCEPT ![t] = Head(queue)]
    /\ queue' = Tail(queue)
    /\ Goto(t, "register")
    /\ UNCHANGED <<active, mapped, actions, event, fdOpen, broken, calls, history>>

(* SendMessageFd: move the message out of the front, which stays in the    *)
(* queue as an empty Message.                                              *)
Take(t) ==
    /\ pc[t] = "take"
    /\ \/ /\ queue \in {NoQueue, <<>>}
          /\ Return(t)
          /\ UNCHANGED <<queue, held>>
       \/ /\ queue \notin {NoQueue, <<>>}
          /\ held' = [held EXCEPT ![t] = Head(queue)]
          /\ queue' = [queue EXCEPT ![1] = Moved]
          /\ Goto(t, "register")
    /\ UNCHANGED <<active, mapped, actions, event, fdOpen, broken, calls, history>>

(* The send ends with an error and the message is not sent.                *)
FailSend(t) == unsent' = Append(unsent, held[t])

(* AsyncFd::SendMessage: RegisterAction refuses a second action for the    *)
(* direction and a descriptor that is closed; the completion then runs at  *)
(* once, in this thread, with an error.                                    *)
Register(t) ==
    /\ pc[t] = "register"
    /\ \/ /\ outAct = None /\ fdOpen
          /\ outAct' = [msg |-> held[t], stage |-> "len"]
          /\ Return(t)
          /\ UNCHANGED unsent
       \/ /\ ~(outAct = None /\ fdOpen)
          /\ UNCHANGED outAct
          /\ Goto(t, "checkActive")
          /\ FailSend(t)
    /\ UNCHANGED <<held, tables, inAct, event, fdOpen, broken, calls,
                   accepted, wire, closing, told>>

(* send() of the length or of the body.  It may write a part, and the      *)
(* action stays as it is.  It fails on a connection that is broken or      *)
(* closed, and may fail on one that is not: ProcData takes every error of  *)
(* send for the end of the operation, EAGAIN and EINTR as well.            *)
SendPart(t) ==
    /\ pc[t] \in {"sendLen", "sendBody"}
    /\ ~broken /\ fdOpen
    /\ Return(t)
    /\ UNCHANGED <<held, tables, actions, event, fdOpen, broken, calls, history>>

SendLength(t) ==
    /\ pc[t] = "sendLen"
    /\ \/ ~broken /\ fdOpen /\ Goto(t, "replace") /\ UNCHANGED unsent
       \/ Goto(t, "deregister") /\ FailSend(t)
    /\ UNCHANGED <<held, tables, actions, event, fdOpen, broken, calls,
                   accepted, wire, closing, told>>

(* Mutant: the action with the body is put in without its interest.        *)
Replace_Uninterested(t) ==
    /\ pc[t] = "replace"
    /\ outAct' = None
    /\ Return(t)
    /\ UNCHANGED <<held, tables, inAct, event, fdOpen, broken, calls, history>>

(* ReplaceAction fails when CloseFD has deregistered the descriptor.       *)
Replace(t) ==
    /\ pc[t] = "replace"
    /\ \/ /\ outAct # None
          /\ outAct' = [outAct EXCEPT !.stage = "body"]
          /\ Return(t)
          /\ UNCHANGED unsent
       \/ /\ outAct = None
          /\ Goto(t, "deregister")
          /\ FailSend(t)
          /\ UNCHANGED outAct
    /\ UNCHANGED <<held, tables, inAct, event, fdOpen, broken, calls,
                   accepted, wire, closing, told>>

SendBody(t) ==
    /\ pc[t] = "sendBody"
    /\ Goto(t, "deregister")
    /\ \/ ~broken /\ fdOpen /\ wire' = Append(wire, held[t]) /\ UNCHANGED unsent
       \/ FailSend(t) /\ UNCHANGED wire
    /\ UNCHANGED <<held, tables, actions, event, fdOpen, broken, calls,
                   accepted, closing, told>>

(* Mutant: the completion runs before the action is gone.                  *)
Deregister_Late(t) ==
    /\ pc[t] = "deregister"
    /\ Goto(t, "checkActive")
    /\ UNCHANGED <<held, tables, actions, event, fdOpen, broken, calls, history>>

(* AsyncFd::Deregister, before the completion is called.                   *)
Deregister(t) ==
    /\ pc[t] = "deregister"
    /\ Goto(t, "checkActive")
    /\ outAct' = None
    /\ UNCHANGED <<held, tables, inAct, event, fdOpen, broken, calls, history>>

(* Mutant: the completion tries the message at the front once more.        *)
CheckActive_Retries(t) ==
    /\ pc[t] = "checkActive"
    /\ Goto(t, "take")
    /\ UNCHANGED <<held, tables, actions, event, fdOpen, broken, calls, history>>

(* The completion, first part: has the connection been closed meanwhile?   *)
CheckActive(t) ==
    /\ pc[t] = "checkActive"
    /\ \/ active /\ Goto(t, "pop")
       \/ ~active /\ Return(t)
    /\ UNCHANGED <<held, tables, actions, event, fdOpen, broken, calls, history>>

(* Mutant: the completion does not go on with the next message.            *)
Pop_Stops(t) ==
    /\ pc[t] = "pop"
    /\ queue # NoQueue
    /\ queue' = Tail(queue)
    /\ Return(t)
    /\ UNCHANGED <<held, active, mapped, actions, event, fdOpen, broken, calls, history>>

(* pop_front and go on with the next message, whether the last one was     *)
(* sent or not.                                                            *)
Pop(t) ==
    /\ pc[t] = "pop"
    /\ \/ /\ queue = NoQueue
          /\ Return(t)
          /\ UNCHANGED queue
       \/ /\ queue # NoQueue
          /\ queue' = Tail(queue)
          /\ \/ queue' # <<>> /\ Goto(t, "take")
             \/ queue' = <<>> /\ Return(t)
    /\ UNCHANGED <<held, active, mapped, actions, event, fdOpen, broken, calls, history>>

-----------------------------------------------------------------------------
(* ReadMessage.                                                            *)

(* recv of the length or the body: a part, the end of a message, or the    *)
(* end of the stream; Deregister precedes the completion.                  *)
Recv(t) ==
    /\ pc[t] = "recv"
    /\ \/ ~broken /\ fdOpen /\ Return(t) /\ UNCHANGED inAct
       \/ ~broken /\ fdOpen /\ Goto(t, "readOk") /\ inAct' = FALSE
       \/ Goto(t, "readErr") /\ inAct' = FALSE
    /\ UNCHANGED <<held, tables, outAct, event, fdOpen, broken, calls, history>>

(* The completion: nothing more for a connection that is not active, else  *)
(* deliver the message and read on, or close.                              *)
ReadDone(t) ==
    /\ pc[t] \in {"readOk", "readErr"}
    /\ \/ ~active /\ Return(t)
       \/ active /\ Goto(t, IF pc[t] = "readOk" THEN "readAgain" ELSE "deregisterFd")
    /\ UNCHANGED <<held, tables, actions, event, fdOpen, broken, calls, history>>

ReadAgain(t) ==
    /\ pc[t] = "readAgain"
    /\ \/ fdOpen /\ ~inAct /\ inAct' = TRUE /\ Return(t)
       \/ (~fdOpen \/ inAct) /\ UNCHANGED inAct /\ Goto(t, "readErr")
    /\ UNCHANGED <<held, tables, outAct, event, fdOpen, broken, calls, history>>

-----------------------------------------------------------------------------
(* CloseConn and CloseFD.                                                  *)

(* IpTransport::CloseSession.                                              *)
CloseSession(t) ==
    /\ t \in Users
    /\ connMutex = None
    /\ pc[t] = "idle"
    /\ mapped
    /\ pc' = [pc EXCEPT ![t] = "findFd"]
    /\ connMutex' = t
    /\ UNCHANGED <<held, tables, actions, event, fdOpen, broken, calls, history>>

FindFd(t) ==
    /\ pc[t] = "findFd"
    /\ \/ mapped /\ Goto(t, "deregisterFd")
       \/ ~mapped /\ Return(t)
    /\ UNCHANGED <<held, tables, actions, event, fdOpen, broken, calls, history>>

DeregisterFd(t) ==
    /\ pc[t] = "deregisterFd"
    /\ Goto(t, "closeFd")
    /\ inAct' = FALSE
    /\ outAct' = None
    /\ closing' = TRUE
    /\ UNCHANGED <<held, tables, event, fdOpen, broken, calls, accepted, wire, unsent, told>>

CloseFd(t) ==
    /\ pc[t] = "closeFd"
    /\ Goto(t, "unlist")
    /\ fdOpen' = FALSE
    /\ UNCHANGED <<held, tables, actions, event, broken, calls, history>>

(* Mutant: the second of two closers does not notice the first.            *)
Unlist_NoCheck(t) ==
    /\ pc[t] = "unlist"
    /\ Goto(t, "unmap")
    /\ active' = FALSE
    /\ UNCHANGED <<held, mapped, queue, actions, event, fdOpen, broken, calls, history>>

(* Only the thread that finds the connection in activeConns goes on.       *)
Unlist(t) ==
    /\ pc[t] = "unlist"
    /\ \/ active /\ Goto(t, "unmap")
       \/ ~active /\ Return(t)
    /\ active' = FALSE
    /\ UNCHANGED <<held, mapped, queue, actions, event, fdOpen, broken, calls, history>>

Unmap(t) ==
    /\ pc[t] = "unmap"
    /\ Goto(t, "dropQueue")
    /\ mapped' = FALSE
    /\ UNCHANGED <<held, active, queue, actions, event, fdOpen, broken, calls, history>>

(* Mutant: nobody is told.                                                 *)
DropQueue_Silent(t) ==
    /\ pc[t] = "dropQueue"
    /\ Return(t)
    /\ queue' = NoQueue
    /\ UNCHANGED <<held, active, mapped, actions, event, fdOpen, broken, calls, history>>

DropQueue(t) ==
    /\ pc[t] = "dropQueue"
    /\ Goto(t, "tell")
    /\ queue' = NoQueue
    /\ UNCHANGED <<held, active, mapped, actions, event, fdOpen, broken, calls, history>>

(* OnLinkClosed.                                                           *)
Tell(t) ==
    /\ pc[t] = "tell"
    /\ Return(t)
    /\ told' = told + 1
    /\ UNCHANGED <<held, tables, actions, event, fdOpen, broken, calls,
                   accepted, wire, unsent, closing>>

-----------------------------------------------------------------------------
(* The epoll thread and the network.                                       *)

(* epoll_wait reports the descriptor.  HUP and ERR hide the rest, and      *)
(* EPOLLIN hides EPOLLOUT, see EpollLoop::Run.                             *)
EpollWait ==
    /\ pc[Epoll] = "idle"
    /\ event = "none"
    /\ fdOpen
    /\ \/ broken /\ (inAct \/ outAct # None) /\ event' = "err"
       \/ ~broken /\ inAct /\ event' = "in"
       \/ ~broken /\ outAct # None /\ event' = "out"
    /\ UNCHANGED <<local, tables, actions, fdOpen, broken, calls, history>>

(* RunCallback(fd, EPOLLIN, ..): the callback found under globalLock_ runs *)
(* unlocked.  An error event comes to the completion without a recv.       *)
RunInCallback ==
    /\ pc[Epoll] = "idle"
    /\ event \in {"in", "err"}
    /\ event' = IF event = "err" THEN "errOut" ELSE "none"
    /\ pc' = [pc EXCEPT ![Epoll] = IF ~inAct THEN "idle"
                                   ELSE IF event = "err" THEN "readErr" ELSE "recv"]
    /\ inAct' = (inAct /\ event # "err")
    /\ UNCHANGED <<held, connMutex, tables, outAct, fdOpen, broken, calls, history>>

(* RunCallback(fd, EPOLLOUT, ..).                                          *)
RunOutCallback ==
    /\ pc[Epoll] = "idle"
    /\ event \in {"out", "errOut"}
    /\ event' = "none"
    /\ \/ outAct = None /\ UNCHANGED <<pc, held, unsent>>
       \/ /\ outAct # None
          /\ held' = [held EXCEPT ![Epoll] = outAct.msg]
          /\ unsent' = IF event = "errOut" THEN Append(unsent, outAct.msg) ELSE unsent
          /\ pc' = [pc EXCEPT ![Epoll] = IF event = "errOut" THEN "deregister"
                                         ELSE IF outAct.stage = "len" THEN "sendLen"
                                         ELSE "sendBody"]
    /\ UNCHANGED <<connMutex, tables, actions, fdOpen, broken, calls,
                   accepted, wire, closing, told>>

(* The peer or the network resets the connection.                          *)
Break ==
    /\ ~broken
    /\ broken' = TRUE
    /\ UNCHANGED <<local, tables, actions, event, fdOpen, calls, history>>

Send(t) ==
    \/ Lookup(t) \/ Enqueue(t) \/ Take(t) \/ Register(t)
    \/ SendPart(t) \/ SendLength(t) \/ Replace(t) \/ SendBody(t)
    \/ Deregister(t) \/ CheckActive(t) \/ Pop(t)

Read(t) == Recv(t) \/ ReadDone(t) \/ ReadAgain(t)

Close(t) ==
    \/ FindFd(t) \/ DeregisterFd(t) \/ CloseFd(t) \/ Unlist(t)
    \/ Unmap(t) \/ DropQueue(t) \/ Tell(t)

Next ==
    \/ \E t \in Threads : \/ SendMessage(t) \/ CloseSession(t)
                          \/ Send(t) \/ Read(t) \/ Close(t)
    \/ EpollWait \/ RunInCallback \/ RunOutCallback
    \/ Break

Spec == Init /\ [][Next]_vars

(* Threads are scheduled, a send that writes a part again and again comes  *)
(* to its end at last, and epoll_wait reports what is ready to be written  *)
(* or broken; nothing says that there is ever anything to read.            *)
FairSpec ==
    /\ Spec
    /\ \A t \in Threads : /\ WF_vars(Send(t) \/ Read(t) \/ Close(t))
                          /\ SF_vars(SendLength(t))
                          /\ SF_vars(SendBody(t))
    /\ WF_vars((EpollWait /\ event' # "in") \/ RunInCallback \/ RunOutCallback)

-----------------------------------------------------------------------------
(* Properties.                                                             *)

Sending(t) == pc[t] \in SendPcs

(* The queue works by a baton: the caller that makes it non-empty, the     *)
(* registered operation and the completion hand the right to touch the     *)
(* front to each other.  Never two threads have it, and while a thread is  *)
(* on its way to register no operation is registered, so RegisterAction    *)
(* never refuses a message because the direction is busy.                  *)
OneSender ==
    /\ \A t, u \in Threads : Sending(t) /\ Sending(u) => t = u
    /\ \A t \in Threads :
         pc[t] \in {"take", "register", "checkActive", "pop"} => outAct = None

(* assert(msg_len > 0) in AsyncFd::SendMessage: the message that goes out  *)
(* is never the empty one that std::move left at the front, and no front   *)
(* is popped before it was taken.                                          *)
FrontIsTakenOnce ==
    \A t \in Threads :
        /\ pc[t] = "register" => held[t] # Moved
        /\ pc[t] = "pop" /\ queue # NoQueue => queue # <<>> /\ Head(queue) = Moved

(* No lost wakeup between push_back (size > 1: somebody else will send)    *)
(* and pop_front (empty: nobody needs to): a non-empty queue of a          *)
(* connection that nobody closes has a sender.                             *)
NoStalledQueue ==
    queue \notin {NoQueue, <<>>} /\ ~closing
      => outAct # None \/ \E t \in Threads : Sending(t)

(* Two CloseFD of one connection, by a user and by the reading loop, may   *)
(* overlap; the manager hears of the loss once, and when it does, no       *)
(* table knows the connection any more.                                    *)
ClosedOnce ==
    /\ told <= 1
    /\ told = 1 => ~active /\ ~mapped /\ queue = NoQueue /\ ~fdOpen

(* The messages in flight: taken from the queue, neither written nor given *)
(* up.                                                                     *)
InFlight ==
    IF \E t \in Threads : pc[t] \in {"register", "sendLen", "replace", "sendBody"}
    THEN <<held[CHOOSE t \in Threads :
                  pc[t] \in {"register", "sendLen", "replace", "sendBody"}]>>
    ELSE IF outAct # None /\ pc[Epoll] # "deregister" THEN <<outAct.msg>>
    ELSE <<>>

(* What the users still may expect to be sent.                             *)
Pending ==
    IF queue = NoQueue THEN InFlight
    ELSE IF queue # <<>> /\ Head(queue) = Moved THEN InFlight \o Tail(queue)
    ELSE queue

Channel == INSTANCE MessageChannel
             WITH pending <- Pending, up <- ~broken /\ ~closing

(* The queue implements a FIFO channel (MessageChannel) that never         *)
(* reorders or repeats and, while the connection is up, gives up a message *)
(* only when its send failed.                                              *)
RefinesChannel == Channel!Spec

(* Once the other end has fallen silent, every message put into the queue  *)
(* leaves it, or the queue goes away with its connection.  (As long as     *)
(* there is always something to read, EpollLoop::Run never looks at        *)
(* EPOLLOUT and nothing is sent.)                                          *)
QueueDrains ==
    <>[](event # "in") =>
      \A m \in Msgs :
        (queue # NoQueue /\ \E i \in DOMAIN queue : queue[i] = m)
          ~> (queue = NoQueue \/ \A i \in DOMAIN queue : queue[i] # m)

(* Once somebody closes the connection, the manager is told.               *)
ClosingIsTold == closing ~> told = 1
=============================================================================

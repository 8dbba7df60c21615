---------------------------- MODULE IpTransport ----------------------------
(***************************************************************************)
(* The threads and the mutexes of one IpTransport: commands of the         *)
(* transport manager, callbacks on the epoll thread, notifications from    *)
(* which the manager may give commands again, start and destruction.       *)
(*                                                                         *)
(* An operation is a path: the sequence of lock operations, notifications  *)
(* and socket calls that may block that one way through its code makes,    *)
(* everything else left out (the tables are in BroadcastManager,           *)
(* ConnectionManager, SendQueue and EpollLoop).  No mutex is recursive.    *)
(***************************************************************************)
EXTENDS Sequences, FiniteSets

CONSTANTS
    Users,      \* threads of the manager that give commands
    Epoll,      \* the epoll thread
    Reacting,   \* notifications in which the manager gives commands
    None

Threads == Users \cup {Epoll}
Notices == {"Found", "NeighborLost", "Opened", "Error", "SessionLost", "Received"}

(* BroadcastManager::globalLock_ is "hello", EpollLoop::globalLock_ "loop". *)
Locks == {"_connMutex", "_brMutex", "hello", "loop", "activeConnsMut_",
          "connToFdMut_", "sendQueueMut_"}

ASSUME IpTransportAssumption ==
    /\ Reacting \subseteq Notices
    /\ "Found" \in Reacting      \* main.cpp: NotifyNewNeighbour
    /\ Epoll \notin Users
    /\ None \notin Threads

VARIABLES
    todo,    \* what a thread has still to do, in order
    held,    \* the owner of a mutex
    stage,   \* where the owner of the transport is
    loop     \* the epoll thread: not there, running, or returned

vars == <<todo, held, stage, loop>>

SocketCall == <<"transfer", "socket">>
Instructions ==
    ({"lock", "unlock"} \X Locks) \cup ({"tell"} \X Notices) \cup {SocketCall}

TypeOK ==
    /\ \A t \in Threads : todo[t] \in Seq(Instructions)
    /\ held \in [Locks -> Threads \cup {None}]
    /\ stage \in {"new", "started", "failed", "stopping", "gone"}
    /\ loop \in {"none", "running", "returned"}
    /\ \A l \in Locks : held[l] # None =>
         \E i \in DOMAIN todo[held[l]] : todo[held[l]][i] = <<"unlock", l>>

-----------------------------------------------------------------------------
(* Paths.  An operation is the set of its paths.                           *)

Skip == {<<>>}
Tell(n) == {<< <<"tell", n>> >>}

(* One after the other; with a mutex held; a mutex taken for a moment.     *)
Then(P, Q) == {p \o q : p \in P, q \in Q}
Under(l, P) == {<< <<"lock", l>> >> \o p \o << <<"unlock", l>> >> : p \in P}
Touch(l) == Under(l, Skip)

(* RegisterAction, ReplaceAction, DeregisterAction, DeregisterFd.          *)
Loop == Touch("loop")

GetAddress == Under("_brMutex", Touch("hello"))

(* The three tables at the end of a handshake, and at CloseFD.             *)
Tables == Then(Touch("activeConnsMut_"), Then(Touch("connToFdMut_"), Touch("sendQueueMut_")))

CloseFD ==
    Then(Loop, Touch("activeConnsMut_") \cup Then(Tables, Tell("SessionLost")))

(* Registering the first operation; epoll may refuse.                      *)
OutgoingHelloExchange == Loop \cup Then(Loop, Tell("Error"))

EstablishConnection ==
    Then(Touch("connToFdMut_"),
         Tell("Error")                                 \* session exists
         \cup Then(GetAddress,
                   Tell("Error")                       \* no address, no socket
                   \cup OutgoingHelloExchange
                   \cup Then(Tell("Error"), OutgoingHelloExchange)))  \* connect() failed

(* CloseConn, LinkDirection::ALL or one direction.                         *)
CloseConn ==
    LET one == Then(Touch("connToFdMut_"), Skip \cup CloseFD)
    IN  Then(one, one)

(* The completion of a send: the next message, if there is one.            *)
SendDone ==
    Touch("activeConnsMut_")
    \cup Then(Touch("activeConnsMut_"),
              Touch("sendQueueMut_")
              \cup Then(Touch("sendQueueMut_"), Then(Touch("sendQueueMut_"), Loop)))

SendMessageFd ==
    Then(Touch("sendQueueMut_"), Skip \cup Loop \cup Then(Loop, SendDone))

Send ==
    Then(Touch("connToFdMut_"),
         Skip \cup Then(Touch("sendQueueMut_"), Skip \cup SendMessageFd))

(* Mutant: commands take _brMutex first, as GetAddress does later.         *)
OpenSession_OtherOrder == Under("_brMutex", Under("_connMutex", EstablishConnection))

OpenSession == Under("_connMutex", EstablishConnection)

CloseSession == Under("_connMutex", CloseConn)

SendMessage == Under("_connMutex", Send)

Commands == OpenSession \cup CloseSession \cup SendMessage

(* ProcessHello: a known peer, a refused timer, or a new peer.             *)
ProcessHello(notice) ==
    Touch("hello")
    \cup Then(Touch("hello"), Loop)
    \cup Then(Touch("hello"), Then(Loop, Then(Touch("hello"), notice)))

(* Mutant: guard.unlock() is missing before OnNeighborLost.                *)
ProcessPeerLost_TellsLocked ==
    Touch("hello") \cup Under("hello", Then(Loop, Tell("NeighborLost")))

ProcessPeerLost ==
    Touch("hello") \cup Then(Under("hello", Loop), Tell("NeighborLost"))

ProcessNetworkUpdate ==
    Skip \cup Then(CloseSession, Tell("NeighborLost"))

(* ReadMessage completes, after AsyncFd has deregistered.                  *)
ReadDone ==
    Then(Touch("activeConnsMut_"),
         Skip \cup CloseFD \cup Then(Tell("Received"), Loop))

(* The hello exchanges: the notify or the answer arrives or is sent, or    *)
(* fails.  Outgoing connections are read before they are reported.         *)
Handshake ==
    Skip \cup Tell("Error")
    \cup Then(ProcessHello(Skip), Loop)
    \cup Then(Tables, Then(Tell("Opened"), Loop))
    \cup Then(Tables, Then(Loop, Tell("Opened")))

(* send() and recv() on a socket that was accepted may block; on one that  *)
(* was dialled they return at once.                                        *)
Transfer == Skip \cup {<< SocketCall >>}

(* ProcData moves bytes; the operation that is complete deregisters first. *)
ProcData == Then(Transfer, Skip \cup Then(Loop, ReadDone \cup SendDone \cup Handshake))

(* Every callback looks the action up.  Draining the remove queue may      *)
(* destroy an AsyncFd, which deregisters.                                  *)
Callbacks ==
    Then(Loop,
         Skip
         \cup ProcessHello(Tell("Found"))
         \cup ProcessPeerLost
         \cup ProcessNetworkUpdate
         \cup ProcData)

-----------------------------------------------------------------------------

Init ==
    /\ todo = [t \in Threads |-> <<>>]
    /\ held = [l \in Locks |-> None]
    /\ stage = "new"
    /\ loop = "none"

(* A thread starts an operation.                                           *)
Begin(t, P) ==
    /\ todo[t] = <<>>
    /\ \E p \in P : todo' = [todo EXCEPT ![t] = p]

(* The manager may use the transport as long as its owner keeps it.        *)
Command(t) ==
    /\ stage = "started"
    /\ Begin(t, Commands)
    /\ UNCHANGED <<held, stage, loop>>

(* EpollLoop::Run: an event is dispatched.                                 *)
Dispatch ==
    /\ loop = "running"
    /\ Begin(Epoll, Callbacks)
    /\ UNCHANGED <<held, stage, loop>>

Proceed(t) == todo' = [todo EXCEPT ![t] = Tail(@)]

Lock(t) ==
    /\ todo[t] # <<>>
    /\ LET l == Head(todo[t])[2]
       IN  /\ Head(todo[t]) = <<"lock", l>>
           /\ held[l] = None
           /\ held' = [held EXCEPT ![l] = t]
    /\ Proceed(t)
    /\ UNCHANGED <<stage, loop>>

Unlock(t) ==
    /\ todo[t] # <<>>
    /\ LET l == Head(todo[t])[2]
       IN  /\ Head(todo[t]) = <<"unlock", l>>
           /\ held' = [held EXCEPT ![l] = None]
    /\ Proceed(t)
    /\ UNCHANGED <<stage, loop>>

(* A notification: the manager returns, or gives a command first.          *)
Notify(t) ==
    /\ todo[t] # <<>>
    /\ Head(todo[t])[1] = "tell"
    /\ \/ Proceed(t)
       \/ /\ Head(todo[t])[2] \in Reacting
          /\ \E p \in Commands : todo' = [todo EXCEPT ![t] = p \o Tail(@)]
    /\ UNCHANGED <<held, stage, loop>>

(* A socket call returns, if it ever does.                                 *)
InSocketCall(t) == todo[t] # <<>> /\ Head(todo[t]) = SocketCall

CallReturns(t) ==
    /\ InSocketCall(t)
    /\ Proceed(t)
    /\ UNCHANGED <<held, stage, loop>>

(* IpTransport::Start: everything is registered and then the thread runs,  *)
(* or something fails and there is no thread.  main() ignores the result.  *)
Start ==
    /\ stage = "new"
    /\ \/ stage' = "started" /\ loop' = "running"
       \/ stage' = "failed" /\ UNCHANGED loop
    /\ UNCHANGED <<todo, held>>

(* ~IpTransport: the stop event ...                                        *)
Stop ==
    /\ stage \in {"started", "failed"}
    /\ \A t \in Users : todo[t] = <<>>
    /\ stage' = "stopping"
    /\ UNCHANGED <<todo, held, loop>>

(* ... which ends Run ...                                                  *)
RunReturns ==
    /\ stage = "stopping"
    /\ loop = "running"
    /\ todo[Epoll] = <<>>
    /\ loop' = "returned"
    /\ UNCHANGED <<todo, held, stage>>

(* epoll_wait fails, and Run ends without being asked to.                  *)
RunFails ==
    /\ loop = "running"
    /\ todo[Epoll] = <<>>
    /\ loop' = "returned"
    /\ UNCHANGED <<todo, held, stage>>

(* Mutant: the destructor does not wait.                                   *)
Join_Detached ==
    /\ stage = "stopping"
    /\ stage' = "gone"
    /\ UNCHANGED <<todo, held, loop>>

(* Mutant: the thread is joined even if it was never started.              *)
Join_Always ==
    /\ stage = "stopping"
    /\ loop = "returned"
    /\ stage' = "gone"
    /\ UNCHANGED <<todo, held, loop>>

(* ... and join(), after which the members, and then the manager, go.      *)
Join ==
    /\ stage = "stopping"
    /\ loop \in {"none", "returned"}
    /\ stage' = "gone"
    /\ UNCHANGED <<todo, held, loop>>

Next ==
    \/ \E t \in Users : Command(t)
    \/ Dispatch
    \/ \E t \in Threads : Lock(t) \/ Unlock(t) \/ Notify(t) \/ CallReturns(t)
    \/ Start \/ Stop \/ RunReturns \/ RunFails \/ Join

Spec == Init /\ [][Next]_vars

(* Threads are scheduled, whoever waits for a mutex gets it at last, and   *)
(* the stop event is seen although other descriptors are ready.  Nothing   *)
(* makes a socket call return.                                             *)
FairSpec ==
    /\ Spec
    /\ \A t \in Threads : SF_vars(Lock(t)) /\ WF_vars(Unlock(t)) /\ WF_vars(Notify(t))
    /\ SF_vars(RunReturns) /\ WF_vars(Join)

-----------------------------------------------------------------------------
(* Properties.                                                             *)

WaitsFor(t) ==
    IF todo[t] # <<>> /\ Head(todo[t])[1] = "lock" THEN held[Head(todo[t])[2]] ELSE None

(* Seven mutexes, some taken while others are held, and commands given in  *)
(* the middle of callbacks: no threads wait for each other in a circle,    *)
(* and no thread waits for a mutex that it holds itself.                   *)
NoCircularWait ==
    \A S \in (SUBSET Threads) \ {{}} : ~ \A t \in S : WaitsFor(t) \in S

(* A manager that answers a notification with a command is never notified  *)
(* with a mutex held, and a thread that may be kept in a socket call for   *)
(* ever keeps no mutex from the others.                                    *)
NotifiedUnlocked ==
    \A t \in Threads :
        todo[t] # <<>> /\ Head(todo[t]) \in ({"tell"} \X Reacting) \cup {SocketCall}
            => \A l \in Locks : held[l] # t

(* The manager of main.cpp is destroyed after the transport: no callback   *)
(* runs, and nobody is notified, once it is gone.                          *)
ManagerOutlivesCallbacks ==
    stage = "gone" => loop # "running" /\ \A t \in Threads : todo[t] = <<>>

(* The destructor returns, whether the start succeeded or not and whatever *)
(* callback runs when the stop event is set, unless a socket call of the   *)
(* epoll thread never does: then join() waits for ever.                    *)
DestructorReturns ==
    []<>~InSocketCall(Epoll) => ((stage = "stopping") ~> (stage = "gone"))
=============================================================================

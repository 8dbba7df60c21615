------------------------- MODULE ConnectionManager -------------------------
(***************************************************************************)
(* The connections of one node: handshakes, the tables of ConnectionManager *)
(* (ip_conn_manager.cpp) and what the transport manager is told of them.   *)
(*                                                                         *)
(* The setting is that of main.cpp: the transport manager issues its       *)
(* commands from notifications, so commands and completions all run on the *)
(* epoll thread and a handler is one step, except where another node or a  *)
(* notification can come in between: an answer is on the wire before this  *)
(* node has the session in its tables, and a session that cannot be read   *)
(* is lost before it is told to be open.  (SendQueue looks into one        *)
(* connection with several threads, EpollLoop into the event loop.)        *)
(* Descriptor numbers are reused as soon as they are closed.  Other nodes  *)
(* say who they are, but an address may meanwhile belong to another node.  *)
(***************************************************************************)
EXTENDS Integers, FiniteSets

CONSTANTS
    Peers,        \* the ids of the other nodes
    Fds,          \* descriptor numbers for connections
    MaxOpens,     \* bound: number of OpenSession calls
    EpollFaults,  \* may epoll_ctl refuse a registration
    None

ASSUME ConnectionAssumption ==
    /\ MaxOpens \in Nat
    /\ EpollFaults \in BOOLEAN
    /\ IsFiniteSet(Fds)
    /\ None \notin Peers \cup Fds

Directions == {"INCOMING", "OUTGOING"}
Conns == Peers \X Directions

(* The operation that an open descriptor waits for; when it is "answered", *)
(* the epoll thread is between the send() of the answer and its callback.  *)
Incoming == {"recvNotify", "sendAnswer"}
Outgoing == {"sendNotify", "recvAnswer"}
Phases == {"closed", "answered", "established"} \cup Incoming \cup Outgoing

ASSUME NoneIsNoConnection == None \notin Conns

VARIABLES
    phase,        \* what a descriptor waits for
    peer,         \* the peer captured by its handshake callbacks
    remote,       \* the node at the other end, None if connect() failed
    activeConns,  \* activeConns
    connToFd,     \* connToFd
    sendQueues,   \* descriptors that have a queue in sendQueues_
    late,         \* a session lost that is yet to be told to be open
    opens,        \* OpenSession calls so far
    owed,         \* history: OpenSession calls for a peer minus answers
    balance       \* history: sessions opened minus sessions lost, as told

sockets == <<phase, peer, remote>>
tables == <<activeConns, connToFd, sendQueues>>
told == <<owed, balance>>
vars == <<sockets, tables, late, opens, told>>

TypeOK ==
    /\ phase \in [Fds -> Phases]
    /\ peer \in [Fds -> Peers \cup {None}]
    /\ remote \in [Fds -> Peers \cup {None}]
    /\ activeConns \in [Fds -> Conns \cup {None}]
    /\ connToFd \in [Conns -> Fds \cup {None}]
    /\ sendQueues \subseteq Fds
    /\ late \in Conns \cup {None}
    /\ opens \in 0 .. MaxOpens
    /\ owed \in [Peers -> Int]
    /\ balance \in [Conns -> Int]
    /\ \A fd \in Fds : /\ phase[fd] \in Incoming \cup {"answered"} => remote[fd] \in Peers
                       /\ phase[fd] \in Outgoing => peer[fd] \in Peers

Init ==
    /\ phase = [fd \in Fds |-> "closed"]
    /\ peer = [fd \in Fds |-> None]
    /\ remote = [fd \in Fds |-> None]
    /\ activeConns = [fd \in Fds |-> None]
    /\ connToFd = [c \in Conns |-> None]
    /\ sendQueues = {}
    /\ late = None
    /\ opens = 0
    /\ owed = [p \in Peers |-> 0]
    /\ balance = [c \in Conns |-> 0]

-----------------------------------------------------------------------------

(* A command is given from a notification, not in the middle of a send().  *)
MayCommand == \A fd \in Fds : phase[fd] # "answered"

(* The epoll thread has come back from its last callback.                  *)
Idle == MayCommand /\ late = None

(* A descriptor gets a new socket.                                         *)
NewSocket(fd, ph, p, r) ==
    /\ phase[fd] = "closed"
    /\ phase' = [phase EXCEPT ![fd] = ph]
    /\ peer' = [peer EXCEPT ![fd] = p]
    /\ remote' = [remote EXCEPT ![fd] = r]

(* close(): the sockets of these descriptors are gone.                     *)
CloseSockets(fds) ==
    /\ phase' = [fd \in Fds |-> IF fd \in fds THEN "closed" ELSE phase[fd]]
    /\ peer' = [fd \in Fds |-> IF fd \in fds THEN None ELSE peer[fd]]
    /\ remote' = [fd \in Fds |-> IF fd \in fds THEN None ELSE remote[fd]]

Advance(fd, ph) ==
    /\ phase' = [phase EXCEPT ![fd] = ph]
    /\ UNCHANGED remote

(* The transport manager hears how an OpenSession call for p ended.        *)
Answered(p) == owed' = [owed EXCEPT ![p] = @ - 1]

(* std::map::insert leaves an entry that is there as it is.                *)
Insert(map, k, v) == IF map[k] = None THEN [map EXCEPT ![k] = v] ELSE map

(* Mutant: the descriptor is asked for after Release().                    *)
Enlist_Released(fd, c) ==
    /\ activeConns' = Insert(activeConns, fd, c)
    /\ connToFd' = Insert(connToFd, c, -1)
    /\ sendQueues' = sendQueues \cup {fd}
    /\ balance' = [balance EXCEPT ![c] = @ + 1]

(* Mutant: a second session of the same kind is not told.                  *)
Enlist_TellsFirst(fd, c) ==
    /\ activeConns' = Insert(activeConns, fd, c)
    /\ connToFd' = Insert(connToFd, c, fd)
    /\ sendQueues' = sendQueues \cup {fd}
    /\ balance' = IF connToFd[c] = None THEN [balance EXCEPT ![c] = @ + 1] ELSE balance

(* A handshake is over: the three tables and OnLinkEstablishing.           *)
Enlist(fd, c) ==
    /\ activeConns' = Insert(activeConns, fd, c)
    /\ connToFd' = Insert(connToFd, c, fd)
    /\ sendQueues' = sendQueues \cup {fd}
    /\ balance' = [balance EXCEPT ![c] = @ + 1]

(* Mutant: the reverse table is forgotten.                                 *)
CloseFD_KeepsEntry(fds) ==
    /\ CloseSockets(fds)
    /\ activeConns' = [fd \in Fds |-> IF fd \in fds THEN None ELSE activeConns[fd]]
    /\ UNCHANGED connToFd
    /\ sendQueues' = sendQueues \ fds
    /\ balance' = [c \in Conns |->
                     balance[c] - Cardinality({fd \in fds : activeConns[fd] = c})]

(* CloseFD, for each of the descriptors: the socket, the three tables and  *)
(* OnLinkClosed.  connToFd.erase(conn) does not look whether the entry is  *)
(* the one of this descriptor.                                             *)
CloseFD(fds) ==
    LET known == {fd \in fds : activeConns[fd] # None}
    IN  /\ CloseSockets(fds)
        /\ activeConns' = [fd \in Fds |-> IF fd \in known THEN None ELSE activeConns[fd]]
        /\ connToFd' = [c \in Conns |-> IF \E fd \in known : activeConns[fd] = c
                                        THEN None ELSE connToFd[c]]
        /\ sendQueues' = sendQueues \ known
        /\ balance' = [c \in Conns |->
                         balance[c] - Cardinality({fd \in known : activeConns[fd] = c})]

-----------------------------------------------------------------------------
(* Incoming connections.  A read or a send that epoll refuses to wait for  *)
(* fails at once, which is the failure of the phase.                       *)

(* AcceptConn and IncomingHelloExchange: node r has connected.             *)
AcceptConn(fd, r) ==
    /\ Idle
    /\ NewSocket(fd, "recvNotify", None, r)
    /\ UNCHANGED <<tables, opens, told>>

(* The Hello::Notify is there, which BroadcastManager hears too, and the   *)
(* answer is on its way.                                                   *)
NotifyReceived(fd) ==
    /\ Idle
    /\ phase[fd] = "recvNotify"
    /\ Advance(fd, "sendAnswer")
    /\ peer' = [peer EXCEPT ![fd] = remote[fd]]
    /\ UNCHANGED <<tables, opens, told>>

(* The bytes of the answer have left.                                      *)
AnswerSent(fd) ==
    /\ Idle
    /\ phase[fd] = "sendAnswer"
    /\ Advance(fd, "answered")
    /\ UNCHANGED <<peer, tables, opens, told>>

(* The callback of the send: active, told, read.                           *)
AnswerDone(fd) ==
    /\ phase[fd] = "answered"
    /\ Advance(fd, "established")
    /\ Enlist(fd, <<peer[fd], "INCOMING">>)
    /\ UNCHANGED <<peer, opens, owed>>

(* Any error of an incoming handshake, and of an outgoing one while it     *)
(* waits for the answer: closed without a word.                            *)
HandshakeFails(fd) ==
    /\ Idle
    /\ phase[fd] \in Incoming \cup {"recvAnswer"}
    /\ CloseSockets({fd})
    /\ UNCHANGED <<tables, opens, told>>

-----------------------------------------------------------------------------
(* Outgoing connections.                                                   *)

OpenSession ==
    /\ MayCommand
    /\ opens < MaxOpens
    /\ opens' = opens + 1

(* EstablishConnection, early returns: SESSION_EXISTS, NO_SUCH_PEER, no    *)
(* socket, no registration; one error each, so nothing is owed.            *)
OpenRefused ==
    /\ OpenSession
    /\ UNCHANGED <<sockets, tables, told>>

(* EstablishConnection: connect() is under way to the node r that has the  *)
(* address of p.                                                           *)
Connect(p, fd, r) ==
    /\ OpenSession
    /\ connToFd[<<p, "OUTGOING">>] = None
    /\ NewSocket(fd, "sendNotify", p, r)
    /\ owed' = [owed EXCEPT ![p] = @ + 1]
    /\ UNCHANGED <<tables, balance>>

(* EstablishConnection: connect() fails, which is told, and the handshake  *)
(* begins all the same; it may fail, and be told, at once.                 *)
ConnectFails(p, fd) ==
    /\ OpenSession
    /\ connToFd[<<p, "OUTGOING">>] = None
    /\ \/ NewSocket(fd, "sendNotify", p, None) /\ UNCHANGED owed
       \/ EpollFaults /\ Answered(p) /\ UNCHANGED sockets
    /\ UNCHANGED <<tables, balance>>

NotifySent(fd) ==
    /\ Idle
    /\ phase[fd] = "sendNotify"
    /\ remote[fd] # None
    /\ Advance(fd, "recvAnswer")
    /\ UNCHANGED <<peer, tables, opens, told>>

NotifyFails(fd) ==
    /\ Idle
    /\ phase[fd] = "sendNotify"
    /\ Answered(peer[fd])
    /\ CloseSockets({fd})
    /\ UNCHANGED <<tables, opens, balance>>

(* Mutant: the id in the answer is not compared.                           *)
AnswerReceived_AnyPeer(fd) ==
    /\ Idle
    /\ phase[fd] = "recvAnswer"
    /\ Advance(fd, "established")
    /\ Enlist(fd, <<peer[fd], "OUTGOING">>)
    /\ Answered(peer[fd])
    /\ UNCHANGED <<peer, opens>>

(* The Hello::Answer is there and comes from the right peer; otherwise the *)
(* handshake fails.                                                        *)
AnswerReceived(fd) ==
    /\ Idle
    /\ phase[fd] = "recvAnswer"
    /\ remote[fd] = peer[fd]
    /\ Advance(fd, "established")
    /\ Enlist(fd, <<peer[fd], "OUTGOING">>)
    /\ Answered(peer[fd])
    /\ UNCHANGED <<peer, opens>>

-----------------------------------------------------------------------------
(* Established connections.                                                *)

(* The end of a handshake whose connection epoll refuses to wait for:      *)
(* ReadMessage completes at once with an error and CloseFD undoes what     *)
(* Enlist did.                                                             *)
Unread(fd, c) ==
    /\ EpollFaults
    /\ connToFd' = [connToFd EXCEPT ![c] = None]
    /\ CloseSockets({fd})
    /\ UNCHANGED <<activeConns, sendQueues, opens>>

(* An incoming one: told to be open, then to be lost.                      *)
EstablishedAndLost(fd) ==
    /\ phase[fd] = "answered"
    /\ Unread(fd, <<peer[fd], "INCOMING">>)
    /\ UNCHANGED told

(* An outgoing one is told to be lost, and what the manager does then comes *)
(* before it is told to be open.                                           *)
LostBeforeOpened(fd) ==
    /\ Idle
    /\ phase[fd] = "recvAnswer"
    /\ remote[fd] = peer[fd]
    /\ Unread(fd, <<peer[fd], "OUTGOING">>)
    /\ late' = <<peer[fd], "OUTGOING">>
    /\ balance' = [balance EXCEPT ![<<peer[fd], "OUTGOING">>] = @ - 1]
    /\ UNCHANGED owed

OpenedTooLate ==
    /\ late # None
    /\ late' = None
    /\ balance' = [balance EXCEPT ![late] = @ + 1]
    /\ Answered(late[1])
    /\ UNCHANGED <<sockets, tables, opens>>

(* ReadMessage: the end of the stream or an error.                         *)
ReadFails(fd) ==
    /\ Idle
    /\ phase[fd] = "established"
    /\ CloseFD({fd})
    /\ UNCHANGED <<opens, owed>>

(* The descriptor that SendMessage chooses.                                *)
SendTarget(p) ==
    IF connToFd[<<p, "OUTGOING">>] # None THEN connToFd[<<p, "OUTGOING">>]
    ELSE connToFd[<<p, "INCOMING">>]

(* CloseConn, for one direction or for both.                               *)
CloseConn(p, dirs) ==
    LET fds == {connToFd[<<p, d>>] : d \in dirs} \ {None}
    IN  /\ MayCommand
        /\ fds # {}
        /\ CloseFD(fds)
        /\ UNCHANGED <<opens, owed>>

(* The process ends and is started again; Network uses this.               *)
Restart ==
    /\ CloseSockets(Fds)
    /\ activeConns' = [fd \in Fds |-> None]
    /\ connToFd' = [c \in Conns |-> None]
    /\ sendQueues' = {}
    /\ owed' = [p \in Peers |-> 0]
    /\ balance' = [c \in Conns |-> 0]
    /\ UNCHANGED opens

Step ==
    \/ \E fd \in Fds, r \in Peers : AcceptConn(fd, r)
    \/ OpenRefused
    \/ \E p, r \in Peers, fd \in Fds : Connect(p, fd, r)
    \/ \E p \in Peers, fd \in Fds : ConnectFails(p, fd)
    \/ \E fd \in Fds : \/ NotifyReceived(fd) \/ AnswerSent(fd) \/ AnswerDone(fd)
                       \/ NotifySent(fd) \/ NotifyFails(fd)
                       \/ AnswerReceived(fd) \/ HandshakeFails(fd)
                       \/ EstablishedAndLost(fd) \/ ReadFails(fd)
    \/ \E p \in Peers, dirs \in SUBSET Directions : CloseConn(p, dirs)

Next ==
    \/ Step /\ UNCHANGED late
    \/ \E fd \in Fds : LostBeforeOpened(fd)
    \/ OpenedTooLate

Spec == Init /\ [][Next]_vars

-----------------------------------------------------------------------------
(* Properties.                                                             *)

(* Descriptor numbers are reused at once and three tables are keyed by     *)
(* them.  An entry of connToFd names a descriptor that is established, is  *)
(* in activeConns with this very connection and has a queue; a descriptor  *)
(* in a handshake or closed is in no table.  So CloseSession never closes  *)
(* a socket of somebody else, and the inserts at the end of a handshake    *)
(* never find an old entry for the descriptor.                             *)
TablesMatchSockets ==
    /\ \A c \in Conns : connToFd[c] # None => activeConns[connToFd[c]] = c
    /\ \A fd \in Fds : phase[fd] = "established" <=> activeConns[fd] # None
    /\ \A fd \in Fds : phase[fd] = "established" <=> fd \in sendQueues

(* The id check of the handshakes: what is read from a connection is       *)
(* attributed to the node that sent it, although the address that connect  *)
(* used may be another node's by now.                                      *)
PeerIsGenuine ==
    \A fd \in Fds : /\ activeConns[fd] # None => activeConns[fd][1] = remote[fd]
                    /\ phase[fd] \in {"sendAnswer", "answered"} => peer[fd] = remote[fd]

(* A message for p is queued for a live connection to p or refused, never  *)
(* queued for a descriptor that is gone or has gone to another node.       *)
MessagesReachTheirPeer ==
    \A p \in Peers :
        SendTarget(p) # None => /\ SendTarget(p) \in sendQueues
                                /\ remote[SendTarget(p)] = p

SessionsOf(c) == {fd \in Fds : activeConns[fd] = c}

(* Opened and lost notifications match the connections, of which there may *)
(* be several per peer and direction: no session is lost or opened twice   *)
(* in the eyes of the transport manager, and none is forgotten.  It is one *)
(* short exactly from when a session is told to be lost until it is told   *)
(* to be open.                                                             *)
NotificationsBalance ==
    \A c \in Conns :
        balance[c] = Cardinality(SessionsOf(c)) - (IF late = c THEN 1 ELSE 0)

Underway(p) == {fd \in Fds : phase[fd] \in Outgoing /\ peer[fd] = p}

(* ip_conn_manager.h on outgoing connections: "If any error happens in     *)
(* this path, connection is closed and coresponding notification is sent   *)
(* to TransportManager": an OpenSession call that is not under way any     *)
(* more was answered.                                                      *)
FailureIsTold ==
    \A p \in Peers :
        late # <<p, "OUTGOING">> => owed[p] <= Cardinality(Underway(p))
=============================================================================

------------------------------ MODULE Network ------------------------------
(***************************************************************************)
(* Two nodes and the TCP connections between them: each node is an         *)
(* instance of ConnectionManager, so that what is arbitrary there (when a  *)
(* hello arrives, when a read fails) has its cause here in what the other  *)
(* node and the network did.  Connections break or go silent, sessions are *)
(* closed at either end, a node may be killed and started again, and a     *)
(* reader that is destroyed late takes the events of a new connection with *)
(* it (EpollLoop, late_destructor).                                        *)
(***************************************************************************)
EXTENDS Integers, FiniteSets

CONSTANTS
    A, B,
    Fds,          \* descriptor numbers
    MaxDials,     \* bound: OpenSession calls of both nodes together
    MaxRestarts,  \* bound: restarts of nodes
    None

ASSUME NetworkAssumption ==
    /\ A # B
    /\ {MaxDials, MaxRestarts} \subseteq Nat
    /\ IsFiniteSet(Fds) /\ Fds \subseteq Nat
    /\ None \notin {A, B} \cup Nat
    /\ None \notin {A, B} \X {"INCOMING", "OUTGOING"}

Nodes == {A, B}
Other(n) == IF n = A THEN B ELSE A
Ids == 1 .. MaxDials

VARIABLES
    phaseA, peerA, remoteA, activeA, connToFdA, queuesA, opensA, owedA, balanceA,
    phaseB, peerB, remoteB, activeB, connToFdB, queuesB, opensB, owedB, balanceB,
    end,        \* the connection that a descriptor of a node is an end of
    backlog,    \* connections that wait for accept() at a node
    wire,       \* the hellos sent on a connection, whether it broke or is cut
    stale,      \* closed descriptors of a node whose reader is to be destroyed
    deaf,       \* descriptors of a node that get no more input events
    restarts    \* restarts so far

NodeA == INSTANCE ConnectionManager WITH
    Peers <- {B}, MaxOpens <- MaxDials, EpollFaults <- FALSE,
    phase <- phaseA, peer <- peerA, remote <- remoteA, activeConns <- activeA,
    connToFd <- connToFdA, sendQueues <- queuesA, late <- None, opens <- opensA,
    owed <- owedA, balance <- balanceA

NodeB == INSTANCE ConnectionManager WITH
    Peers <- {A}, MaxOpens <- MaxDials, EpollFaults <- FALSE,
    phase <- phaseB, peer <- peerB, remote <- remoteB, activeConns <- activeB,
    connToFd <- connToFdB, sendQueues <- queuesB, late <- None, opens <- opensB,
    owed <- owedB, balance <- balanceB

varsA == <<phaseA, peerA, remoteA, activeA, connToFdA, queuesA, opensA, owedA, balanceA>>
varsB == <<phaseB, peerB, remoteB, activeB, connToFdB, queuesB, opensB, owedB, balanceB>>
net == <<end, backlog, wire, stale, deaf, restarts>>
vars == <<varsA, varsB, net>>

phase == [n \in Nodes |-> IF n = A THEN phaseA ELSE phaseB]
balance == [n \in Nodes |-> IF n = A THEN balanceA ELSE balanceB]

Wires == [notify : BOOLEAN, answer : BOOLEAN, broken : BOOLEAN, cut : BOOLEAN]
Fresh == [notify |-> FALSE, answer |-> FALSE, broken |-> FALSE, cut |-> FALSE]

TypeOK ==
    /\ NodeA!TypeOK /\ NodeB!TypeOK
    /\ end \in [Nodes -> [Fds -> Ids \cup {None}]]
    /\ backlog \in [Nodes -> SUBSET Ids]
    /\ wire \in [Ids -> Wires]
    /\ stale \in [Nodes -> SUBSET Fds]
    /\ deaf \in [Nodes -> SUBSET Fds]
    /\ restarts \in 0 .. MaxRestarts
    /\ \A n \in Nodes, fd \in Fds : phase[n][fd] = "closed" => end[n][fd] = None

Init ==
    /\ NodeA!Init /\ NodeB!Init
    /\ end = [n \in Nodes |-> [fd \in Fds |-> None]]
    /\ backlog = [n \in Nodes |-> {}]
    /\ wire = [c \in Ids |-> Fresh]
    /\ stale = [n \in Nodes |-> {}]
    /\ deaf = [n \in Nodes |-> {}]
    /\ restarts = 0

-----------------------------------------------------------------------------

(* Node n takes this step of its ConnectionManager.                        *)
At(n, stepA, stepB) ==
    \/ n = A /\ stepA /\ UNCHANGED varsB
    \/ n = B /\ stepB /\ UNCHANGED varsA

EndsAt(n, c) == {fd \in Fds : end[n][fd] = c}
OpenAt(n, c) == c \in backlog[n] \/ EndsAt(n, c) # {}

(* The connection of this descriptor is of no use any more: it is broken,  *)
(* closed at the other end, or was never made.                             *)
Dead(n, fd) ==
    LET c == end[n][fd]
    IN  IF c = None THEN TRUE ELSE wire[c].broken \/ ~OpenAt(Other(n), c)

(* Its end hears that: not that the other is closed when the network is    *)
(* cut in between.                                                         *)
Noticed(n, fd) ==
    /\ Dead(n, fd)
    /\ fd \notin deaf[n]
    /\ end[n][fd] # None => wire[end[n][fd]].broken \/ ~wire[end[n][fd]].cut

(* n's descriptors that its step closes are ends of nothing, and what was  *)
(* under way on a connection without ends is gone.                         *)
CloseEnds(n, fds) ==
    /\ end' = [end EXCEPT ![n] = [fd \in Fds |-> IF fd \in fds THEN None ELSE @[fd]]]
    /\ wire' = [c \in Ids |-> IF \E m \in Nodes : OpenAt(m, c)' THEN wire[c] ELSE Fresh]
    /\ deaf' = [deaf EXCEPT ![n] = @ \ fds]

(* The kernel hands out the lowest descriptor number that is free.         *)
NewFd(n) == {fd \in Fds : phase[n][fd] = "closed"
                          /\ \A fe \in Fds : phase[n][fe] = "closed" => fd <= fe}

NewId == CHOOSE c \in Ids : \A n \in Nodes : ~OpenAt(n, c)

(* OpenSession for the other node: connect(), and the kernel there answers. *)
Dial(n) ==
    /\ opensA + opensB < MaxDials
    /\ \E fd \in NewFd(n) :
         /\ At(n, NodeA!Connect(B, fd, B), NodeB!Connect(A, fd, A))
         /\ end' = [end EXCEPT ![n][fd] = NewId]
    /\ backlog' = [backlog EXCEPT ![Other(n)] = @ \cup {NewId}]
    /\ UNCHANGED <<wire, stale, deaf, restarts>>

(* OpenSession fails, or connect() does: no connection is made.            *)
DialFails(n) ==
    /\ opensA + opensB < MaxDials
    /\ \E fd \in NewFd(n) :
         At(n, NodeA!ConnectFails(B, fd) \/ NodeA!OpenRefused,
               NodeB!ConnectFails(A, fd) \/ NodeB!OpenRefused)
    /\ UNCHANGED net

Accept(n) ==
    \E fd \in NewFd(n), c \in backlog[n] :
        /\ At(n, NodeA!AcceptConn(fd, B), NodeB!AcceptConn(fd, A))
        /\ backlog' = [backlog EXCEPT ![n] = @ \ {c}]
        /\ end' = [end EXCEPT ![n][fd] = c]
        /\ UNCHANGED <<wire, stale, deaf, restarts>>

SendNotify(n, fd) ==
    /\ At(n, NodeA!NotifySent(fd), NodeB!NotifySent(fd))
    /\ wire' = [wire EXCEPT ![end[n][fd]].notify = TRUE]
    /\ UNCHANGED <<end, backlog, stale, deaf, restarts>>

RecvNotify(n, fd) ==
    /\ end[n][fd] # None
    /\ wire[end[n][fd]].notify /\ ~wire[end[n][fd]].cut
    /\ fd \notin deaf[n]
    /\ At(n, NodeA!NotifyReceived(fd), NodeB!NotifyReceived(fd))
    /\ UNCHANGED net

SendAnswer(n, fd) ==
    /\ At(n, NodeA!AnswerSent(fd), NodeB!AnswerSent(fd))
    /\ wire' = [wire EXCEPT ![end[n][fd]].answer = TRUE]
    /\ UNCHANGED <<end, backlog, stale, deaf, restarts>>

AnswerDone(n, fd) ==
    /\ At(n, NodeA!AnswerDone(fd), NodeB!AnswerDone(fd))
    /\ UNCHANGED net

(* Mutant: the session is open once the notify is sent.                    *)
RecvAnswer_NotAwaited(n, fd) ==
    /\ end[n][fd] # None
    /\ At(n, NodeA!AnswerReceived(fd), NodeB!AnswerReceived(fd))
    /\ UNCHANGED net

RecvAnswer(n, fd) ==
    /\ end[n][fd] # None
    /\ wire[end[n][fd]].answer /\ ~wire[end[n][fd]].cut
    /\ fd \notin deaf[n]
    /\ At(n, NodeA!AnswerReceived(fd), NodeB!AnswerReceived(fd))
    /\ UNCHANGED net

(* Mutant: an incoming handshake that fails is left as it is.              *)
Fail_KeepsIncoming(n, fd) ==
    /\ Noticed(n, fd)
    /\ phase[n][fd] # "recvNotify"
    /\ At(n, NodeA!HandshakeFails(fd) \/ NodeA!NotifyFails(fd) \/ NodeA!ReadFails(fd),
             NodeB!HandshakeFails(fd) \/ NodeB!NotifyFails(fd) \/ NodeB!ReadFails(fd))
    /\ UNCHANGED <<backlog, stale, restarts>>
    /\ CloseEnds(n, {fd})

(* What waits on a dead connection fails, whatever it waits for.           *)
Fail(n, fd) ==
    /\ Noticed(n, fd)
    /\ At(n, NodeA!HandshakeFails(fd) \/ NodeA!NotifyFails(fd) \/ NodeA!ReadFails(fd),
             NodeB!HandshakeFails(fd) \/ NodeB!NotifyFails(fd) \/ NodeB!ReadFails(fd))
    /\ UNCHANGED <<backlog, stale, restarts>>
    /\ CloseEnds(n, {fd})

(* ProcessNetworkUpdate: the link is gone and CloseSession(ALL) is called. *)
(* The reader of a connection closed so is destroyed only when the epoll   *)
(* thread clears its removals.                                             *)
LinkLost(n) ==
    /\ At(n, NodeA!CloseConn(B, NodeA!Directions), NodeB!CloseConn(A, NodeB!Directions))
    /\ stale' = [stale EXCEPT ![n] =
                   @ \cup {fd \in Fds \ deaf[n] : /\ phase[n][fd] = "established"
                                                /\ phase'[n][fd] = "closed"}]
    /\ UNCHANGED <<backlog, restarts>>
    /\ CloseEnds(n, {fd \in Fds : phase'[n][fd] = "closed"})

(* ~AsyncFd of such a reader deregisters the number, and with it whatever  *)
(* reads from it by now.                                                   *)
Drain(n, fd) ==
    /\ fd \in stale[n]
    /\ \A fe \in Fds : phase[n][fe] # "answered"
    /\ stale' = [stale EXCEPT ![n] = @ \ {fd}]
    /\ deaf' = [deaf EXCEPT ![n] = @ \cup
                  ({fd} \cap {fe \in Fds : phase[n][fe] \in
                                 {"recvNotify", "recvAnswer", "established"}})]
    /\ UNCHANGED <<varsA, varsB, end, backlog, wire, restarts>>

(* The network gives a connection up, as its ends will hear.               *)
Break(c) ==
    /\ ~wire[c].broken
    /\ \E n \in Nodes : OpenAt(n, c)
    /\ wire' = [wire EXCEPT ![c].broken = TRUE]
    /\ UNCHANGED <<varsA, varsB, end, backlog, stale, deaf, restarts>>

(* The network goes away without a word: nothing gets through any more,    *)
(* and nobody asks, since there is no keepalive.                           *)
Cut(c) ==
    /\ ~wire[c].cut
    /\ \E n \in Nodes : OpenAt(n, c)
    /\ wire' = [wire EXCEPT ![c].cut = TRUE]
    /\ UNCHANGED <<varsA, varsB, end, backlog, stale, deaf, restarts>>

(* A node is killed, its kernel closes what it had, and it is started again. *)
Restart(n) ==
    /\ restarts < MaxRestarts
    /\ restarts' = restarts + 1
    /\ At(n, NodeA!Restart, NodeB!Restart)
    /\ backlog' = [backlog EXCEPT ![n] = {}]
    /\ stale' = [stale EXCEPT ![n] = {}]
    /\ CloseEnds(n, Fds)

Handle(n, fd) ==
    \/ SendNotify(n, fd) \/ RecvNotify(n, fd)
    \/ SendAnswer(n, fd) \/ AnswerDone(n, fd) \/ RecvAnswer(n, fd)
    \/ Fail(n, fd)

Next ==
    \/ \E n \in Nodes : Dial(n) \/ DialFails(n) \/ Accept(n) \/ LinkLost(n) \/ Restart(n)
    \/ \E n \in Nodes, fd \in Fds : Handle(n, fd) \/ Drain(n, fd)
    \/ \E c \in Ids : Break(c) \/ Cut(c)

(* The epoll threads handle what is ready; on a connection that is cut     *)
(* nothing need ever get ready.                                            *)
Ready(n, fd) ==
    end[n][fd] # None /\ wire[end[n][fd]].cut => phase[n][fd] = "answered"

FairSpec ==
    /\ Init /\ [][Next]_vars
    /\ \A n \in Nodes : WF_vars(Accept(n))
    /\ \A n \in Nodes, fd \in Fds : /\ WF_vars(Ready(n, fd) /\ Handle(n, fd))
                                    /\ WF_vars(Drain(n, fd))

-----------------------------------------------------------------------------
(* Properties.                                                             *)

Sessions(n, dir) ==
    LET active == IF n = A THEN activeA ELSE activeB
    IN  {fd \in Fds : active[fd] = <<Other(n), dir>>}

(* The hello exchange: when a node reports an outgoing session, the node   *)
(* at the other end has sent its answer: it has reported the incoming one, *)
(* or is in the callback that does and may be the later of the two; and it *)
(* still has it unless it has closed its end meanwhile.                    *)
SessionIsShared ==
    \A n \in Nodes : \A fd \in Sessions(n, "OUTGOING") :
        /\ end[n][fd] \notin backlog[Other(n)]
        /\ EndsAt(Other(n), end[n][fd]) \subseteq
             Sessions(Other(n), "INCOMING")
               \cup {fe \in Fds : phase[Other(n)][fe] = "answered"}

AtRest(n, fd) ==
    phase[n][fd] = "closed" \/ (phase[n][fd] = "established" /\ ~Dead(n, fd))

Quiet ==
    \A n \in Nodes :
        /\ backlog[n] = {}
        /\ \A fd \in Fds : AtRest(n, fd)

(* OnLinkEstablishing and OnLinkClosed at two nodes: once nothing is under *)
(* way and everybody has noticed what is closed, the managers of both      *)
(* nodes have been told of the same sessions, however many handshakes,     *)
(* broken connections and restarts it took.                                *)
SessionsAgree ==
    Quiet => \A n \in Nodes :
                balance[n][<<Other(n), "OUTGOING">>]
                    = balance[Other(n)][<<n, "INCOMING">>]

(* Nothing ends the wait of this end: its events are gone, or those of the *)
(* end that should answer it, or the network is.                           *)
Stuck(n, fd) ==
    \/ fd \in deaf[n]
    \/ /\ end[n][fd] # None
       /\ \/ wire[end[n][fd]].cut
          \/ /\ phase[n][fd] = "recvAnswer"
             /\ EndsAt(Other(n), end[n][fd]) \cap deaf[Other(n)] # {}

(* There are no timeouts in the hello exchange and no keepalives.  Without *)
(* them a handshake that the network has cut, or whose events a late       *)
(* destructor took, hangs for ever; these are the only ones.  Every other  *)
(* handshake ends and every other session that one end has closed is       *)
(* closed at the other, whatever breaks and restarts.                      *)
Settles ==
    []<>(\A n \in Nodes : /\ backlog[n] = {}
                          /\ \A fd \in Fds : AtRest(n, fd) \/ Stuck(n, fd))
=============================================================================

---------------------- MODULE ConnectionManagerProofs ----------------------
(***************************************************************************)
(* The invariants of ConnectionManager hold for every set of nodes and     *)
(* every finite set of descriptors.  The tables need the types (a          *)
(* handshake that ends knows its peer), the identity of a peer needs the   *)
(* tables (the insert at the end of a handshake finds no old entry) and    *)
(* what the incoming handshake has captured; their conjunction is          *)
(* inductive.  The count of the notifications is then an invariant         *)
(* relative to it.                                                         *)
(***************************************************************************)
EXTENDS ConnectionManager, FiniteSetTheorems, TLAPS

(* The inductive invariant.                                                *)
IInv == TypeOK /\ TablesMatchSockets /\ PeerIsGenuine

LEMMA InitIInv == Init => IInv
<1> SUFFICES ASSUME Init PROVE IInv
  OBVIOUS
<1> USE ConnectionAssumption DEF Init
<1>1. TypeOK
  BY DEF TypeOK, Phases, Incoming, Outgoing
<1>2. TablesMatchSockets
  BY DEF TablesMatchSockets
<1>3. PeerIsGenuine
  BY DEF PeerIsGenuine
<1> QED
  BY <1>1, <1>2, <1>3 DEF IInv

(* A descriptor that was free starts a handshake: no table changes.        *)
LEMMA NewSocketStep ==
  ASSUME IInv, NEW fd \in Fds, NEW ph \in {"recvNotify", "sendNotify"},
         NEW p \in Peers \cup {None}, NEW r \in Peers \cup {None},
         ph = "recvNotify" => r \in Peers, ph = "sendNotify" => p \in Peers,
         NewSocket(fd, ph, p, r), UNCHANGED tables,
         opens' \in 0 .. MaxOpens, owed' \in [Peers -> Int], UNCHANGED <<balance, late>>
  PROVE  IInv'
<1> USE ConnectionAssumption DEF IInv, NewSocket, tables
<1>1. TypeOK'
  BY DEF TypeOK, Phases, Incoming, Outgoing
<1>2. TablesMatchSockets'
  BY DEF TypeOK, TablesMatchSockets
<1>3. PeerIsGenuine'
  BY DEF TypeOK, TablesMatchSockets, PeerIsGenuine
<1> QED
  BY <1>1, <1>2, <1>3

(* A descriptor that is in no table is closed; at most an entry of         *)
(* connToFd is erased.                                                     *)
LEMMA CloseStep ==
  ASSUME IInv, NEW fd \in Fds, phase[fd] # "established",
         CloseSockets({fd}), UNCHANGED <<activeConns, sendQueues, opens>>,
         late' \in Conns \cup {None}, balance' \in [Conns -> Int],
         connToFd' \in [Conns -> Fds \cup {None}],
         \A c \in Conns : connToFd'[c] \in {connToFd[c], None},
         owed' \in [Peers -> Int]
  PROVE  IInv'
<1> USE ConnectionAssumption DEF IInv, CloseSockets
<1>1. TypeOK'
  BY DEF TypeOK, Phases, Incoming, Outgoing
<1>2. TablesMatchSockets'
  BY DEF TypeOK, TablesMatchSockets
<1>3. PeerIsGenuine'
  BY DEF TypeOK, TablesMatchSockets, PeerIsGenuine
<1> QED
  BY <1>1, <1>2, <1>3

(* The end of a handshake with the right peer.                             *)
LEMMA EnlistStep ==
  ASSUME IInv, NEW fd \in Fds, NEW dir \in Directions,
         phase[fd] \in {"answered", "recvAnswer"},
         peer[fd] \in Peers, remote[fd] = peer[fd],
         Advance(fd, "established"), Enlist(fd, <<peer[fd], dir>>),
         UNCHANGED <<peer, opens>>, late' = late, owed' \in [Peers -> Int]
  PROVE  IInv'
<1> USE ConnectionAssumption, NoneIsNoConnection DEF IInv, Advance
<1> DEFINE c == <<peer[fd], dir>>
<1>1. c \in Conns /\ c # None /\ c[1] = remote[fd]
  BY DEF Conns
<1>2. activeConns[fd] = None
  BY DEF TablesMatchSockets
<1> HIDE DEF c
<1>3. /\ activeConns' = [activeConns EXCEPT ![fd] = c]
      /\ connToFd' = IF connToFd[c] = None THEN [connToFd EXCEPT ![c] = fd] ELSE connToFd
      /\ sendQueues' = sendQueues \cup {fd}
      /\ balance' = [balance EXCEPT ![c] = @ + 1]
  BY <1>2 DEF Enlist, Insert, c
<1>4. TypeOK'
  BY <1>1, <1>3 DEF TypeOK, Phases, Incoming, Outgoing
<1>5. TablesMatchSockets'
  BY <1>1, <1>2, <1>3 DEF TypeOK, TablesMatchSockets
<1>6. PeerIsGenuine'
  BY <1>1, <1>3 DEF TypeOK, PeerIsGenuine
<1> QED
  BY <1>4, <1>5, <1>6

(* CloseFD on established descriptors.                                     *)
LEMMA CloseFDStep ==
  ASSUME IInv, NEW fds \in SUBSET Fds, CloseFD(fds), UNCHANGED <<opens, owed>>,
         late' = late
  PROVE  IInv'
<1> USE ConnectionAssumption, NoneIsNoConnection DEF IInv
<1> DEFINE known == {fd \in fds : activeConns[fd] # None}
<1>1. \A c \in Conns : Cardinality({fd \in known : activeConns[fd] = c}) \in Nat
  <2> TAKE c \in Conns
  <2> {fd \in known : activeConns[fd] = c} \in SUBSET Fds
    OBVIOUS
  <2> QED
    BY FS_Subset, FS_CardinalityType
<1>2. balance' \in [Conns -> Int]
  BY <1>1 DEF CloseFD, TypeOK
<1>3. /\ CloseSockets(fds)
      /\ activeConns' = [fd \in Fds |-> IF fd \in known THEN None ELSE activeConns[fd]]
      /\ connToFd' = [c \in Conns |-> IF \E fd \in known : activeConns[fd] = c
                                      THEN None ELSE connToFd[c]]
      /\ sendQueues' = sendQueues \ known
  BY DEF CloseFD
<1> USE <1>3 DEF CloseSockets
<1>4. TypeOK'
  BY <1>2 DEF TypeOK, Phases, Incoming, Outgoing
<1>5. TablesMatchSockets'
  BY DEF TypeOK, TablesMatchSockets
<1>6. PeerIsGenuine'
  BY DEF TypeOK, TablesMatchSockets, PeerIsGenuine
<1> QED
  BY <1>4, <1>5, <1>6

(* What CloseConn closes.                                                  *)
LEMMA EntriesAreDescriptors ==
  ASSUME IInv, NEW p \in Peers, NEW dirs \in SUBSET Directions
  PROVE  {connToFd[<<p, d>>] : d \in dirs} \ {None} \in SUBSET Fds
<1>1. \A d \in dirs : <<p, d>> \in Conns
  BY DEF Conns
<1>2. \A c \in Conns : connToFd[c] \in Fds \cup {None}
  BY DEF IInv, TypeOK
<1>3. \A d \in dirs : connToFd[<<p, d>>] \in Fds \cup {None}
  BY <1>1, <1>2
<1> QED
  BY <1>3

LEMMA NextIInv == IInv /\ [Next]_vars => IInv'
<1> SUFFICES ASSUME IInv, [Next]_vars PROVE IInv'
  OBVIOUS
<1> USE ConnectionAssumption
<1>1. ASSUME NEW fd \in Fds, NEW r \in Peers, AcceptConn(fd, r), late' = late PROVE IInv'
  BY <1>1, NewSocketStep DEF AcceptConn, told, IInv, TypeOK
<1>2. CASE OpenRefused /\ late' = late
  <2>1. opens' \in 0 .. MaxOpens
    BY <1>2 DEF OpenRefused, OpenSession, IInv, TypeOK
  <2> QED
    BY <1>2, <2>1 DEF OpenRefused, IInv, TypeOK, TablesMatchSockets, PeerIsGenuine,
                      sockets, tables, told
<1>3. ASSUME NEW p \in Peers, NEW r \in Peers, NEW fd \in Fds, Connect(p, fd, r), late' = late
      PROVE  IInv'
  <2>1. opens' \in 0 .. MaxOpens /\ owed' \in [Peers -> Int]
    BY <1>3 DEF Connect, OpenSession, IInv, TypeOK
  <2> QED
    BY <1>3, <2>1, NewSocketStep DEF Connect
<1>4. ASSUME NEW p \in Peers, NEW fd \in Fds, ConnectFails(p, fd), late' = late
      PROVE  IInv'
  <2>1. opens' \in 0 .. MaxOpens /\ owed' \in [Peers -> Int]
    BY <1>4 DEF ConnectFails, OpenSession, Answered, IInv, TypeOK
  <2>2. CASE NewSocket(fd, "sendNotify", p, None)
    BY <1>4, <2>1, <2>2, NewSocketStep DEF ConnectFails
  <2>3. CASE UNCHANGED sockets
    BY <1>4, <2>1, <2>3 DEF ConnectFails, IInv, TypeOK, TablesMatchSockets,
                            PeerIsGenuine, sockets, tables
  <2> QED
    BY <1>4, <2>2, <2>3 DEF ConnectFails
<1>5. ASSUME NEW fd \in Fds, NotifyReceived(fd), late' = late PROVE IInv'
  <2> USE <1>5 DEF NotifyReceived, Advance, tables, told, IInv
  <2>1. TypeOK'
    BY DEF TypeOK, Phases, Incoming, Outgoing
  <2>2. TablesMatchSockets'
    BY DEF TypeOK, TablesMatchSockets
  <2>3. PeerIsGenuine'
    BY DEF TypeOK, PeerIsGenuine
  <2> QED
    BY <2>1, <2>2, <2>3
<1>6. ASSUME NEW fd \in Fds, AnswerSent(fd), late' = late PROVE IInv'
  <2> USE <1>6 DEF AnswerSent, Advance, tables, told, IInv
  <2>1. TypeOK'
    BY DEF TypeOK, Phases, Incoming, Outgoing
  <2>2. TablesMatchSockets'
    BY DEF TypeOK, TablesMatchSockets
  <2>3. PeerIsGenuine'
    BY DEF TypeOK, PeerIsGenuine
  <2> QED
    BY <2>1, <2>2, <2>3
<1>15. ASSUME NEW fd \in Fds, AnswerDone(fd), late' = late PROVE IInv'
  <2>1. peer[fd] \in Peers /\ remote[fd] = peer[fd]
    BY <1>15 DEF AnswerDone, IInv, TypeOK, PeerIsGenuine
  <2>2. owed' \in [Peers -> Int] /\ "INCOMING" \in Directions
    BY <1>15 DEF AnswerDone, Directions, IInv, TypeOK
  <2> QED
    BY <1>15, <2>1, <2>2, EnlistStep DEF AnswerDone
<1>7. ASSUME NEW fd \in Fds, NotifySent(fd), late' = late PROVE IInv'
  <2> USE <1>7 DEF NotifySent, Advance, tables, told, IInv
  <2>1. TypeOK'
    BY DEF TypeOK, Phases, Incoming, Outgoing
  <2>2. TablesMatchSockets'
    BY DEF TypeOK, TablesMatchSockets
  <2>3. PeerIsGenuine'
    BY DEF TypeOK, PeerIsGenuine
  <2> QED
    BY <2>1, <2>2, <2>3
<1>8. ASSUME NEW fd \in Fds, NotifyFails(fd), late' = late PROVE IInv'
  <2>1. owed' \in [Peers -> Int] /\ connToFd \in [Conns -> Fds \cup {None}]
    BY <1>8 DEF NotifyFails, Answered, IInv, TypeOK, Outgoing
  <2>2. late' \in Conns \cup {None} /\ balance' \in [Conns -> Int]
    BY <1>8 DEF NotifyFails, IInv, TypeOK
  <2> QED
    BY <1>8, <2>1, <2>2, CloseStep DEF NotifyFails, tables
<1>9. ASSUME NEW fd \in Fds, AnswerReceived(fd), late' = late PROVE IInv'
  <2>1. peer[fd] \in Peers /\ owed' \in [Peers -> Int]
    BY <1>9 DEF AnswerReceived, Answered, IInv, TypeOK, Outgoing
  <2> QED
    BY <1>9, <2>1, EnlistStep DEF AnswerReceived, Directions
<1>10. ASSUME NEW fd \in Fds, HandshakeFails(fd), late' = late PROVE IInv'
  <2>1. /\ owed' \in [Peers -> Int] /\ connToFd \in [Conns -> Fds \cup {None}]
        /\ late' \in Conns \cup {None} /\ balance' \in [Conns -> Int]
    BY <1>10 DEF HandshakeFails, told, IInv, TypeOK
  <2> QED
    BY <1>10, <2>1, CloseStep DEF HandshakeFails, tables, Incoming
<1>11. ASSUME NEW fd \in Fds, (EstablishedAndLost(fd) /\ late' = late) \/ LostBeforeOpened(fd)
       PROVE  IInv'
  <2>1. owed' \in [Peers -> Int] /\ phase[fd] # "established"
    BY <1>11 DEF EstablishedAndLost, LostBeforeOpened, told, IInv, TypeOK
  <2>2. PICK c : Unread(fd, c)
    BY <1>11 DEF EstablishedAndLost, LostBeforeOpened
  <2>3. /\ connToFd' \in [Conns -> Fds \cup {None}]
        /\ \A d \in Conns : connToFd'[d] \in {connToFd[d], None}
    BY <2>2 DEF Unread, IInv, TypeOK
  <2>4. late' \in Conns \cup {None} /\ balance' \in [Conns -> Int]
    <3>1. CASE EstablishedAndLost(fd) /\ late' = late
      BY <3>1 DEF EstablishedAndLost, told, IInv, TypeOK
    <3>2. CASE LostBeforeOpened(fd)
      <4>1. late' \in Conns
        BY <3>2 DEF LostBeforeOpened, Conns, Directions, IInv, TypeOK, Outgoing
      <4> QED
        BY <3>2, <4>1 DEF LostBeforeOpened, IInv, TypeOK
    <3> QED
      BY <1>11, <3>1, <3>2
  <2> QED
    BY <2>1, <2>2, <2>3, <2>4, CloseStep DEF Unread
<1>16. CASE OpenedTooLate
  <2>1. owed' \in [Peers -> Int]
    BY <1>16 DEF OpenedTooLate, Answered, IInv, TypeOK, Conns
  <2>2. balance' \in [Conns -> Int] /\ late' \in Conns \cup {None}
    BY <1>16 DEF OpenedTooLate, IInv, TypeOK
  <2> QED
    BY <1>16, <2>1, <2>2 DEF OpenedTooLate, IInv, TypeOK, TablesMatchSockets,
                             PeerIsGenuine, sockets, tables
<1>12. ASSUME NEW fd \in Fds, ReadFails(fd), late' = late PROVE IInv'
  BY <1>12, CloseFDStep DEF ReadFails
<1>13. ASSUME NEW p \in Peers, NEW dirs \in SUBSET Directions, CloseConn(p, dirs), late' = late
       PROVE  IInv'
  <2> DEFINE fds == {connToFd[<<p, d>>] : d \in dirs} \ {None}
  <2>1. fds \in SUBSET Fds
    BY EntriesAreDescriptors
  <2>2. CloseFD(fds) /\ UNCHANGED <<opens, owed>>
    BY <1>13 DEF CloseConn
  <2> HIDE DEF fds
  <2> QED
    BY <1>13, <2>1, <2>2, CloseFDStep
<1>14. CASE UNCHANGED vars
  BY <1>14 DEF vars, sockets, tables, told, IInv, TypeOK, TablesMatchSockets, PeerIsGenuine
<1> QED
  BY <1>1, <1>2, <1>3, <1>4, <1>5, <1>6, <1>7, <1>8, <1>9, <1>10, <1>11, <1>12,
     <1>13, <1>14, <1>15, <1>16 DEF Next, Step

LEMMA SpecIInv == Spec => []IInv
  BY InitIInv, NextIInv, PTL DEF Spec

(* Type correctness: in particular a handshake that ends knows its peer.   *)
THEOREM TypeCorrect == Spec => []TypeOK
  BY SpecIInv, PTL DEF IInv

(* The tables of ConnectionManager and the sockets agree, for every number *)
(* of sessions per peer and direction and whatever epoll refuses.          *)
THEOREM TablesAlwaysMatch == Spec => []TablesMatchSockets
  BY SpecIInv, PTL DEF IInv

(* Messages are attributed to the node that sent them.                     *)
THEOREM PeersAreGenuine == Spec => []PeerIsGenuine
  BY SpecIInv, PTL DEF IInv

(* SendMessage queues only for live connections to the addressee.          *)
THEOREM SendsAreAddressed == Spec => []MessagesReachTheirPeer
<1>1. IInv => MessagesReachTheirPeer
  <2> SUFFICES ASSUME IInv, NEW p \in Peers, SendTarget(p) # None
               PROVE  SendTarget(p) \in sendQueues /\ remote[SendTarget(p)] = p
    BY DEF MessagesReachTheirPeer
  <2>1. PICK d \in Directions : SendTarget(p) = connToFd[<<p, d>>]
    BY DEF SendTarget, Directions
  <2> DEFINE c == <<p, d>>
  <2>2. c \in Conns /\ c # None /\ c[1] = p
    BY NoneIsNoConnection DEF Conns
  <2> HIDE DEF c
  <2>3. SendTarget(p) = connToFd[c]
    BY <2>1 DEF c
  <2> QED
    BY <2>2, <2>3 DEF IInv, TypeOK, TablesMatchSockets, PeerIsGenuine
<1> QED
  BY <1>1, SpecIInv, PTL

LEMMA SessionsFinite ==
  \A c : IsFiniteSet(SessionsOf(c)) /\ Cardinality(SessionsOf(c)) \in Nat
<1> TAKE c
<1> SessionsOf(c) \in SUBSET Fds
  BY DEF SessionsOf
<1> QED
  BY ConnectionAssumption, FS_Subset, FS_CardinalityType

LEMMA EnlistBalance ==
  ASSUME IInv, NotificationsBalance, NEW fd \in Fds, phase[fd] # "established",
         NEW c \in Conns, Enlist(fd, c), late' = late
  PROVE  NotificationsBalance'
<1> USE NoneIsNoConnection
<1>1. activeConns[fd] = None /\ activeConns' = [activeConns EXCEPT ![fd] = c]
  BY DEF Enlist, Insert, IInv, TablesMatchSockets
<1> SUFFICES ASSUME NEW d \in Conns
             PROVE  balance'[d] = Cardinality(SessionsOf(d)') - (IF late = d THEN 1 ELSE 0)
  BY DEF NotificationsBalance
<1>2. /\ balance \in [Conns -> Int] /\ Cardinality(SessionsOf(d)) \in Nat
      /\ balance[d] = Cardinality(SessionsOf(d)) - (IF late = d THEN 1 ELSE 0)
  BY SessionsFinite DEF IInv, TypeOK, NotificationsBalance
<1>3. CASE d = c
  <2>1. SessionsOf(d)' = SessionsOf(d) \cup {fd} /\ fd \notin SessionsOf(d)
    BY <1>1, <1>3 DEF SessionsOf, IInv, TypeOK
  <2>2. Cardinality(SessionsOf(d)') = Cardinality(SessionsOf(d)) + 1
    BY <2>1, FS_AddElement, SessionsFinite
  <2> QED
    BY <1>2, <1>3, <2>2 DEF Enlist
<1>4. CASE d # c
  <2>1. SessionsOf(d)' = SessionsOf(d)
    BY <1>1, <1>4 DEF SessionsOf, IInv, TypeOK
  <2> QED
    BY <1>2, <1>4, <2>1 DEF Enlist
<1> QED
  BY <1>3, <1>4

(* The size of a set that falls into two parts.                            *)
LEMMA DisjointParts ==
  ASSUME NEW S, NEW T, IsFiniteSet(S), IsFiniteSet(T), S \cap T = {}
  PROVE  Cardinality(S \cup T) = Cardinality(S) + Cardinality(T)
<1>1. Cardinality(S \cap T) = 0
  BY FS_EmptySet
<1>2. Cardinality(S \cup T) = Cardinality(S) + Cardinality(T) - Cardinality(S \cap T)
  BY FS_Union
<1>3. Cardinality(S) \in Nat /\ Cardinality(T) \in Nat
  BY FS_CardinalityType
<1> QED
  BY <1>1, <1>2, <1>3

LEMMA CloseFDBalance ==
  ASSUME IInv, NotificationsBalance, NEW fds \in SUBSET Fds, CloseFD(fds), late' = late
  PROVE  NotificationsBalance'
<1> USE NoneIsNoConnection
<1> DEFINE known == {fd \in fds : activeConns[fd] # None}
           gone(c) == {fd \in known : activeConns[fd] = c}
<1> SUFFICES ASSUME NEW c \in Conns
             PROVE  balance'[c] = Cardinality(SessionsOf(c)') - (IF late = c THEN 1 ELSE 0)
  BY DEF NotificationsBalance
<1>1. SessionsOf(c)' \cup gone(c) = SessionsOf(c) /\ SessionsOf(c)' \cap gone(c) = {}
  BY DEF CloseFD, SessionsOf, IInv, TypeOK
<1>2. SessionsOf(c)' \in SUBSET SessionsOf(c) /\ gone(c) \in SUBSET SessionsOf(c)
  BY <1>1
<1>3. /\ IsFiniteSet(SessionsOf(c)') /\ Cardinality(SessionsOf(c)') \in Nat
      /\ IsFiniteSet(gone(c)) /\ Cardinality(gone(c)) \in Nat
  BY <1>2, SessionsFinite, FS_Subset, FS_CardinalityType
<1>4. Cardinality(SessionsOf(c)) = Cardinality(SessionsOf(c)') + Cardinality(gone(c))
  BY <1>1, <1>3, DisjointParts
<1>5. balance'[c] = balance[c] - Cardinality(gone(c))
  BY DEF CloseFD, IInv, TypeOK
<1>6. balance[c] = Cardinality(SessionsOf(c)) - (IF late = c THEN 1 ELSE 0)
  BY DEF NotificationsBalance
<1> QED
  BY <1>3, <1>4, <1>5, <1>6

LEMMA NextBalance == IInv /\ NotificationsBalance /\ [Next]_vars => NotificationsBalance'
<1> SUFFICES ASSUME IInv, NotificationsBalance, [Next]_vars
             PROVE  NotificationsBalance'
  OBVIOUS
<1>1. CASE UNCHANGED <<activeConns, balance, late>>
  BY <1>1 DEF NotificationsBalance, SessionsOf
<1>2. ASSUME NEW fd \in Fds, AnswerDone(fd), late' = late PROVE NotificationsBalance'
  <2>1. <<peer[fd], "INCOMING">> \in Conns
    BY <1>2 DEF AnswerDone, IInv, TypeOK, PeerIsGenuine, Conns, Directions
  <2> QED
    BY <1>2, <2>1, EnlistBalance DEF AnswerDone
<1>3. ASSUME NEW fd \in Fds, AnswerReceived(fd), late' = late PROVE NotificationsBalance'
  <2>1. <<peer[fd], "OUTGOING">> \in Conns
    BY <1>3 DEF AnswerReceived, IInv, TypeOK, Outgoing, Conns, Directions
  <2> QED
    BY <1>3, <2>1, EnlistBalance DEF AnswerReceived
<1>4. ASSUME NEW fd \in Fds, ReadFails(fd), late' = late PROVE NotificationsBalance'
  BY <1>4, CloseFDBalance DEF ReadFails
<1>5. ASSUME NEW p \in Peers, NEW dirs \in SUBSET Directions, CloseConn(p, dirs), late' = late
      PROVE  NotificationsBalance'
  <2> DEFINE fds == {connToFd[<<p, d>>] : d \in dirs} \ {None}
  <2>1. fds \in SUBSET Fds
    BY EntriesAreDescriptors
  <2>2. CloseFD(fds)
    BY <1>5 DEF CloseConn
  <2> HIDE DEF fds
  <2> QED
    BY <1>5, <2>1, <2>2, CloseFDBalance
<1>6. ASSUME UNCHANGED activeConns, NEW c \in Conns, NEW d \in {-1, 1},
             balance' = [balance EXCEPT ![c] = @ + d],
             IF d = -1 THEN late = None /\ late' = c ELSE late = c /\ late' = None
      PROVE  NotificationsBalance'
  <2> SUFFICES ASSUME NEW e \in Conns
               PROVE  balance'[e] = Cardinality(SessionsOf(e)') - (IF late' = e THEN 1 ELSE 0)
    BY DEF NotificationsBalance
  <2>1. /\ balance \in [Conns -> Int] /\ Cardinality(SessionsOf(e)) \in Nat
        /\ balance[e] = Cardinality(SessionsOf(e)) - (IF late = e THEN 1 ELSE 0)
        /\ SessionsOf(e)' = SessionsOf(e)
    BY <1>6, SessionsFinite DEF NotificationsBalance, SessionsOf, IInv, TypeOK
  <2> QED
    BY <1>6, <2>1, NoneIsNoConnection
<1>7. ASSUME NEW fd \in Fds, LostBeforeOpened(fd) PROVE NotificationsBalance'
  <2>1. <<peer[fd], "OUTGOING">> \in Conns
    BY <1>7 DEF LostBeforeOpened, IInv, TypeOK, Outgoing, Conns, Directions
  <2> DEFINE c == <<peer[fd], "OUTGOING">>
  <2>2. /\ UNCHANGED activeConns /\ late = None /\ late' = c
        /\ balance' = [balance EXCEPT ![c] = @ - 1]
    BY <1>7 DEF LostBeforeOpened, Unread, Idle
  <2> HIDE DEF c
  <2>3. c \in Conns
    BY <2>1 DEF c
  <2>4. balance' = [balance EXCEPT ![c] = @ + (-1)]
    BY <2>2, <2>3 DEF IInv, TypeOK
  <2> QED
    BY <1>6, <2>2, <2>3, <2>4
<1>8. CASE OpenedTooLate
  <2>1. PICK c \in Conns : late = c
    BY <1>8 DEF OpenedTooLate, IInv, TypeOK
  <2>2. /\ UNCHANGED activeConns /\ late' = None
        /\ balance' = [balance EXCEPT ![c] = @ + 1]
    BY <1>8, <2>1 DEF OpenedTooLate, tables
  <2>3. 1 \in {-1, 1} /\ IF 1 = -1 THEN late = None /\ late' = c ELSE late = c /\ late' = None
    BY <2>1, <2>2
  <2> QED
    BY <1>6, <2>2, <2>3
<1> QED
  BY <1>1, <1>2, <1>3, <1>4, <1>5, <1>7, <1>8
     DEF Next, Step, vars, tables, told, AcceptConn, OpenRefused, Connect, ConnectFails,
         NotifyReceived, AnswerSent, NotifySent, NotifyFails, HandshakeFails,
         EstablishedAndLost, Unread

LEMMA InitBalance == Init => NotificationsBalance
<1> SUFFICES ASSUME Init, NEW c \in Conns
             PROVE  balance[c] = Cardinality(SessionsOf(c)) - (IF late = c THEN 1 ELSE 0)
  BY DEF NotificationsBalance
<1>1. SessionsOf(c) = {}
  BY NoneIsNoConnection DEF Init, SessionsOf
<1> QED
  BY <1>1, FS_EmptySet, NoneIsNoConnection DEF Init

(* What the transport manager is told and what is connected agree, for     *)
(* every number of sessions: no lost or opened notification is missing or  *)
(* given twice.                                                            *)
THEOREM NotificationsAlwaysBalance == Spec => []NotificationsBalance
  BY InitBalance, SpecIInv, NextBalance, PTL DEF Spec

-----------------------------------------------------------------------------
(* What a step means for the connections of a node, for the proofs about   *)
(* several nodes.                                                          *)

(* What a descriptor is an end of: an attempt or a session, of which side. *)
Role ==
    [fd \in Fds |->
        IF phase[fd] = "closed" THEN "closed"
        ELSE IF phase[fd] \in Outgoing THEN "dialling"
        ELSE IF phase[fd] \in Incoming THEN "accepting"
        ELSE IF phase[fd] = "answered" THEN "answering"
        ELSE IF activeConns[fd][2] = "OUTGOING" THEN "outgoing" ELSE "incoming"]

Roles == {"closed", "dialling", "accepting", "answering", "outgoing", "incoming"}

Sound == IInv /\ NotificationsBalance

LEMMA RoleValues ==
  ASSUME IInv
  PROVE  /\ Role \in [Fds -> Roles]
         /\ \A fd \in Fds :
              /\ Role[fd] = "closed" <=> phase[fd] = "closed"
              /\ Role[fd] = "dialling" <=> phase[fd] \in Outgoing
              /\ Role[fd] = "accepting" <=> phase[fd] \in Incoming
              /\ Role[fd] = "answering" <=> phase[fd] = "answered"
              /\ Role[fd] \in {"outgoing", "incoming"} <=> phase[fd] = "established"
<1> SUFFICES ASSUME NEW fd \in Fds
             PROVE  /\ Role[fd] \in Roles
                    /\ Role[fd] = "closed" <=> phase[fd] = "closed"
                    /\ Role[fd] = "dialling" <=> phase[fd] \in Outgoing
                    /\ Role[fd] = "accepting" <=> phase[fd] \in Incoming
                    /\ Role[fd] = "answering" <=> phase[fd] = "answered"
                    /\ Role[fd] \in {"outgoing", "incoming"} <=> phase[fd] = "established"
  BY DEF Role
<1>1. phase[fd] \in Phases
  BY DEF IInv, TypeOK
<1> QED
  BY <1>1 DEF Role, Roles, Phases, Outgoing, Incoming

LEMMA RoleOfSession ==
  ASSUME IInv, NEW fd \in Fds
  PROVE  /\ Role[fd] = "outgoing" <=> \E p \in Peers : activeConns[fd] = <<p, "OUTGOING">>
         /\ Role[fd] = "incoming" <=> \E p \in Peers : activeConns[fd] = <<p, "INCOMING">>
<1>1. phase[fd] \in Phases /\ (phase[fd] = "established" <=> activeConns[fd] # None)
  BY DEF IInv, TypeOK, TablesMatchSockets
<1>2. CASE activeConns[fd] = None
  <2>1. \A p \in Peers : <<p, "OUTGOING">> # None /\ <<p, "INCOMING">> # None
    BY NoneIsNoConnection DEF Conns, Directions
  <2> QED
    BY <1>1, <1>2, <2>1, RoleValues
<1>3. CASE activeConns[fd] # None
  <2>1. PICK p \in Peers, d \in Directions : activeConns[fd] = <<p, d>>
    BY <1>3 DEF IInv, TypeOK, Conns
  <2> QED
    BY <1>1, <1>3, <2>1 DEF Role, Directions, Outgoing, Incoming
<1> QED
  BY <1>2, <1>3

(* A descriptor whose phase and connection are what they were has its role. *)
LEMMA RoleKept ==
  ASSUME NEW fd \in Fds, phase'[fd] = phase[fd], activeConns'[fd] = activeConns[fd]
  PROVE  Role'[fd] = Role[fd]
BY DEF Role

(* The role of one descriptor changes.                                     *)
Becomes(fd, r) == Role' = [Role EXCEPT ![fd] = r]

LEMMA OneRole ==
  ASSUME NEW fd \in Fds, NEW r, Role'[fd] = r,
         \A fe \in Fds : fe # fd => phase'[fe] = phase[fe] /\ activeConns'[fe] = activeConns[fe]
  PROVE  Becomes(fd, r)
<1>1. \A fe \in Fds : fe # fd => Role'[fe] = Role[fe]
  BY DEF Role
<1>2. Role = [fe \in Fds |-> Role[fe]] /\ Role' = [fe \in Fds |-> Role'[fe]]
  BY DEF Role
<1> QED
  BY <1>1, <1>2 DEF Becomes

LEMMA Begins ==
  ASSUME IInv, NEW fd \in Fds, NEW ph \in {"recvNotify", "sendNotify"}, NEW p, NEW r,
         NewSocket(fd, ph, p, r), UNCHANGED tables
  PROVE  /\ Role[fd] = "closed"
         /\ Becomes(fd, IF ph = "recvNotify" THEN "accepting" ELSE "dialling")
<1>1. phase \in [Fds -> Phases] /\ phase[fd] = "closed"
      /\ phase' = [phase EXCEPT ![fd] = ph] /\ activeConns' = activeConns
  BY DEF NewSocket, tables, IInv, TypeOK
<1>2. Role[fd] = "closed"
  BY <1>1 DEF Role
<1>3. Role'[fd] = IF ph = "recvNotify" THEN "accepting" ELSE "dialling"
  BY <1>1 DEF Role, Outgoing, Incoming
<1> QED
  BY <1>1, <1>2, <1>3, OneRole

LEMMA Proceeds ==
  ASSUME IInv, NEW fd \in Fds, NotifyReceived(fd) \/ NotifySent(fd)
  PROVE  Role' = Role /\ opens' = opens
<1>1. phase \in [Fds -> Phases] /\ activeConns' = activeConns
      /\ \/ phase[fd] \in Incoming /\ \E ph \in Incoming : phase' = [phase EXCEPT ![fd] = ph]
         \/ phase[fd] \in Outgoing /\ \E ph \in Outgoing : phase' = [phase EXCEPT ![fd] = ph]
  BY DEF NotifyReceived, NotifySent, Advance, tables, IInv, TypeOK, Incoming, Outgoing
<1>2. Role'[fd] = Role[fd]
  BY <1>1 DEF Role, Incoming, Outgoing
<1>3. \A fe \in Fds : fe # fd => Role'[fe] = Role[fe]
  BY <1>1 DEF Role
<1>4. Role = [fe \in Fds |-> Role[fe]] /\ Role' = [fe \in Fds |-> Role'[fe]]
  BY DEF Role
<1>5. opens' = opens
  BY DEF NotifyReceived, NotifySent
<1> QED
  BY <1>2, <1>3, <1>4, <1>5

LEMMA Succeeds ==
  ASSUME IInv, NEW fd \in Fds
  PROVE  /\ AnswerSent(fd) => Role[fd] = "accepting" /\ Becomes(fd, "answering")
         /\ AnswerDone(fd) => Role[fd] = "answering" /\ Becomes(fd, "incoming")
         /\ AnswerReceived(fd) => Role[fd] = "dialling" /\ Becomes(fd, "outgoing")
<1>1. ASSUME NEW c, phase[fd] # "established", Advance(fd, "established"), Enlist(fd, c)
      PROVE  /\ phase' = [phase EXCEPT ![fd] = "established"]
             /\ phase \in [Fds -> Phases]
             /\ activeConns' = [activeConns EXCEPT ![fd] = c]
             /\ activeConns \in [Fds -> Conns \cup {None}]
  BY <1>1 DEF Advance, Enlist, Insert, IInv, TypeOK, TablesMatchSockets
<1>4. ASSUME AnswerSent(fd) PROVE Role[fd] = "accepting" /\ Becomes(fd, "answering")
  <2>1. /\ phase[fd] = "sendAnswer" /\ phase \in [Fds -> Phases]
        /\ phase' = [phase EXCEPT ![fd] = "answered"] /\ activeConns' = activeConns
    BY <1>4 DEF AnswerSent, Advance, tables, IInv, TypeOK
  <2>2. Role[fd] = "accepting" /\ Role'[fd] = "answering"
    BY <2>1 DEF Role, Incoming, Outgoing
  <2> QED
    BY <2>1, <2>2, OneRole
<1>2. ASSUME AnswerDone(fd) PROVE Role[fd] = "answering" /\ Becomes(fd, "incoming")
  <2>1. phase[fd] = "answered" /\ Advance(fd, "established")
        /\ Enlist(fd, <<peer[fd], "INCOMING">>)
    BY <1>2 DEF AnswerDone
  <2>2. PICK c : c = <<peer[fd], "INCOMING">>
    OBVIOUS
  <2>3. c[2] # "OUTGOING"
    BY <2>2
  <2>4. /\ phase' = [phase EXCEPT ![fd] = "established"]
        /\ phase \in [Fds -> Phases]
        /\ activeConns' = [activeConns EXCEPT ![fd] = c]
        /\ activeConns \in [Fds -> Conns \cup {None}]
    BY <1>1, <2>1, <2>2
  <2>5. Role[fd] = "answering"
    BY <2>1 DEF Role, Incoming, Outgoing
  <2>6. Role'[fd] = "incoming"
    BY <2>3, <2>4 DEF Role, Incoming, Outgoing
  <2> QED
    BY <2>4, <2>5, <2>6, OneRole
<1>3. ASSUME AnswerReceived(fd) PROVE Role[fd] = "dialling" /\ Becomes(fd, "outgoing")
  <2>1. phase[fd] = "recvAnswer" /\ Advance(fd, "established")
        /\ Enlist(fd, <<peer[fd], "OUTGOING">>)
    BY <1>3 DEF AnswerReceived
  <2>2. PICK c : c = <<peer[fd], "OUTGOING">>
    OBVIOUS
  <2>3. c[2] = "OUTGOING"
    BY <2>2
  <2>4. /\ phase' = [phase EXCEPT ![fd] = "established"]
        /\ phase \in [Fds -> Phases]
        /\ activeConns' = [activeConns EXCEPT ![fd] = c]
        /\ activeConns \in [Fds -> Conns \cup {None}]
    BY <1>1, <2>1, <2>2
  <2>5. Role[fd] = "dialling"
    BY <2>1 DEF Role, Incoming, Outgoing
  <2>6. Role'[fd] = "outgoing"
    BY <2>3, <2>4 DEF Role, Incoming, Outgoing
  <2> QED
    BY <2>4, <2>5, <2>6, OneRole
<1> QED
  BY <1>2, <1>3, <1>4

(* Descriptors are closed, the others stay what they are.                  *)
LEMMA Closes ==
  ASSUME IInv, NEW fds \in SUBSET Fds, CloseSockets(fds),
         \A fd \in Fds \ fds : activeConns'[fd] = activeConns[fd]
  PROVE  Role' = [fd \in Fds |-> IF fd \in fds THEN "closed" ELSE Role[fd]]
<1>1. phase' = [fd \in Fds |-> IF fd \in fds THEN "closed" ELSE phase[fd]]
  BY DEF CloseSockets
<1>2. ASSUME NEW fd \in Fds
      PROVE  Role'[fd] = IF fd \in fds THEN "closed" ELSE Role[fd]
  <2>1. CASE fd \in fds
    BY <1>1, <2>1 DEF Role
  <2>2. CASE fd \notin fds
    <3>1. phase'[fd] = phase[fd] /\ activeConns'[fd] = activeConns[fd]
      BY <1>1, <2>2
    <3> QED
      BY <2>2, <3>1, RoleKept
  <2> QED
    BY <2>1, <2>2
<1>3. Role' = [fd \in Fds |-> Role'[fd]]
  BY DEF Role
<1> QED
  BY <1>2, <1>3

LEMMA ClosesFD ==
  ASSUME IInv, NEW fds \in SUBSET Fds, CloseFD(fds)
  PROVE  Role' = [fd \in Fds |-> IF fd \in fds THEN "closed" ELSE Role[fd]]
<1>1. CloseSockets(fds)
      /\ \A fd \in Fds \ fds : activeConns'[fd] = activeConns[fd]
  BY DEF CloseFD
<1> QED
  BY <1>1, Closes

LEMMA RoleSteps ==
  ASSUME IInv, NEW fd \in Fds
  PROVE  /\ \A r \in Peers : AcceptConn(fd, r) =>
              Role[fd] = "closed" /\ Becomes(fd, "accepting") /\ opens' = opens
         /\ \A p, r \in Peers : Connect(p, fd, r) =>
              Role[fd] = "closed" /\ Becomes(fd, "dialling") /\ opens' = opens + 1
         /\ \A p \in Peers : ConnectFails(p, fd) /\ ~EpollFaults =>
              Role[fd] = "closed" /\ Becomes(fd, "dialling") /\ opens' = opens + 1
         /\ NotifyReceived(fd) \/ NotifySent(fd) => Role' = Role /\ opens' = opens
         /\ AnswerSent(fd) =>
              Role[fd] = "accepting" /\ Becomes(fd, "answering") /\ opens' = opens
         /\ AnswerDone(fd) =>
              Role[fd] = "answering" /\ Becomes(fd, "incoming") /\ opens' = opens
         /\ AnswerReceived(fd) =>
              Role[fd] = "dialling" /\ Becomes(fd, "outgoing") /\ opens' = opens
         /\ HandshakeFails(fd) \/ NotifyFails(fd) \/ ReadFails(fd) =>
              /\ Role' = [f \in Fds |-> IF f \in {fd} THEN "closed" ELSE Role[f]]
              /\ opens' = opens
<1>1. ASSUME NEW r \in Peers, AcceptConn(fd, r)
      PROVE  Role[fd] = "closed" /\ Becomes(fd, "accepting") /\ opens' = opens
  BY <1>1, Begins DEF AcceptConn
<1>2. ASSUME NEW p \in Peers, NEW r \in Peers, Connect(p, fd, r)
      PROVE  Role[fd] = "closed" /\ Becomes(fd, "dialling") /\ opens' = opens + 1
  <2>1. NewSocket(fd, "sendNotify", p, r) /\ UNCHANGED tables /\ opens' = opens + 1
    BY <1>2 DEF Connect, OpenSession
  <2> QED
    BY <2>1, Begins
<1>3. ASSUME NEW p \in Peers, ConnectFails(p, fd), ~EpollFaults
      PROVE  Role[fd] = "closed" /\ Becomes(fd, "dialling") /\ opens' = opens + 1
  <2>1. NewSocket(fd, "sendNotify", p, None) /\ UNCHANGED tables /\ opens' = opens + 1
    BY <1>3 DEF ConnectFails, OpenSession
  <2> QED
    BY <2>1, Begins
<1>4. ASSUME HandshakeFails(fd) \/ NotifyFails(fd) \/ ReadFails(fd)
      PROVE  /\ Role' = [f \in Fds |-> IF f \in {fd} THEN "closed" ELSE Role[f]]
             /\ opens' = opens
  <2>1. {fd} \in SUBSET Fds /\ opens' = opens
    BY <1>4 DEF HandshakeFails, NotifyFails, ReadFails
  <2>2. CASE ReadFails(fd)
    BY <2>1, <2>2, ClosesFD DEF ReadFails
  <2>3. CASE HandshakeFails(fd) \/ NotifyFails(fd)
    <3>1. CloseSockets({fd}) /\ activeConns' = activeConns
      BY <2>3 DEF HandshakeFails, NotifyFails, tables
    <3> QED
      BY <2>1, <3>1, Closes
  <2> QED
    BY <1>4, <2>2, <2>3
<1>5. AnswerSent(fd) \/ AnswerDone(fd) \/ AnswerReceived(fd) => opens' = opens
  BY DEF AnswerSent, AnswerDone, AnswerReceived
<1> QED
  BY <1>1, <1>2, <1>3, <1>4, <1>5, Proceeds, Succeeds

LEMMA RolesAfterClose ==
  ASSUME IInv, NEW p \in Peers, CloseConn(p, Directions)
  PROVE  /\ Role' = [fd \in Fds |-> IF fd \in {f \in Fds : phase'[f] = "closed"}
                                    THEN "closed" ELSE Role[fd]]
         /\ opens' = opens
<1> DEFINE fds == {connToFd[<<p, d>>] : d \in Directions} \ {None}
<1>1. fds \in SUBSET Fds
  BY EntriesAreDescriptors
<1>2. CloseFD(fds) /\ opens' = opens
  BY DEF CloseConn
<1> HIDE DEF fds
<1>3. Role' = [fd \in Fds |-> IF fd \in fds THEN "closed" ELSE Role[fd]]
  BY <1>1, <1>2, ClosesFD
<1>4. \A fd \in Fds : phase'[fd] = "closed" <=> fd \in fds \/ phase[fd] = "closed"
  BY <1>2 DEF CloseFD, CloseSockets
<1>5. \A fd \in Fds : phase[fd] = "closed" => Role[fd] = "closed"
  BY DEF Role
<1> QED
  BY <1>2, <1>3, <1>4, <1>5

LEMMA SoundInit == Init => Sound
  BY InitIInv, InitBalance DEF Sound

LEMMA SoundStep == Sound /\ [Next]_vars => Sound'
  BY NextIInv, NextBalance DEF Sound

LEMMA Restarts ==
  ASSUME IInv, Restart, late' = None
  PROVE  Sound' /\ Role' = [fd \in Fds |-> "closed"] /\ opens' = opens
<1> USE ConnectionAssumption, NoneIsNoConnection DEF Restart, CloseSockets
<1>1. TypeOK'
  BY DEF IInv, TypeOK, Phases, Incoming, Outgoing
<1>2. TablesMatchSockets'
  BY DEF TablesMatchSockets
<1>3. PeerIsGenuine'
  BY DEF PeerIsGenuine
<1>4. NotificationsBalance'
  <2> SUFFICES ASSUME NEW c \in Conns
               PROVE  balance'[c] = Cardinality(SessionsOf(c)') - (IF late' = c THEN 1 ELSE 0)
    BY DEF NotificationsBalance
  <2>1. SessionsOf(c)' = {}
    BY DEF SessionsOf
  <2> QED
    BY <2>1, FS_EmptySet
<1>5. Role' = [fd \in Fds |-> "closed"]
  BY DEF Role
<1> QED
  BY <1>1, <1>2, <1>3, <1>4, <1>5 DEF Sound, IInv
=============================================================================

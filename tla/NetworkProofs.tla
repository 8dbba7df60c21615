--------------------------- MODULE NetworkProofs ---------------------------
(***************************************************************************)
(* Proof that two nodes agree on their sessions, however many connections  *)
(* there are, break and are closed and however often a node is restarted.  *)
(*                                                                         *)
(* Each node of Network is an instance of ConnectionManager, so its tables *)
(* and notifications are right already (PA and PB below, whose Sound is    *)
(* the invariant of one node).  What is left is what the two have to do    *)
(* with each other: it is stated over the role of each descriptor, and one *)
(* lemma for each kind of step shows that the step keeps it.               *)
(***************************************************************************)
EXTENDS Network, FiniteSetTheorems, TLAPS

PA == INSTANCE ConnectionManagerProofs WITH
    Peers <- {B}, MaxOpens <- MaxDials, EpollFaults <- FALSE,
    phase <- phaseA, peer <- peerA, remote <- remoteA, activeConns <- activeA,
    connToFd <- connToFdA, sendQueues <- queuesA, late <- None, opens <- opensA,
    owed <- owedA, balance <- balanceA

PB == INSTANCE ConnectionManagerProofs WITH
    Peers <- {A}, MaxOpens <- MaxDials, EpollFaults <- FALSE,
    phase <- phaseB, peer <- peerB, remote <- remoteB, activeConns <- activeB,
    connToFd <- connToFdB, sendQueues <- queuesB, late <- None, opens <- opensB,
    owed <- owedB, balance <- balanceB

(* The assumptions of ConnectionManager hold of either node.               *)
LEMMA AssumptionsA == PA!ConnectionAssumption /\ PA!NoneIsNoConnection
<1>1. PA!IsFiniteSet(Fds)
  BY NetworkAssumption DEF IsFiniteSet, PA!IsFiniteSet
<1>2. PA!ConnectionAssumption
  BY <1>1, NetworkAssumption DEF PA!ConnectionAssumption
<1>3. PA!NoneIsNoConnection
  BY NetworkAssumption DEF PA!NoneIsNoConnection, PA!Conns, PA!Directions
<1> QED
  BY <1>2, <1>3

(* Node A is an instance of ConnectionManager.                             *)
LEMMA SameA ==
  ASSUME NEW fd \in Fds
  PROVE  /\ NodeA!AcceptConn(fd, B) => PA!AcceptConn(fd, B)
         /\ NodeA!Connect(B, fd, B) => PA!Connect(B, fd, B)
         /\ NodeA!ConnectFails(B, fd) => PA!ConnectFails(B, fd)
         /\ NodeA!NotifyReceived(fd) => PA!NotifyReceived(fd)
         /\ NodeA!AnswerSent(fd) => PA!AnswerSent(fd)
         /\ NodeA!AnswerDone(fd) => PA!AnswerDone(fd)
         /\ NodeA!NotifySent(fd) => PA!NotifySent(fd)
         /\ NodeA!NotifyFails(fd) => PA!NotifyFails(fd)
         /\ NodeA!AnswerReceived(fd) => PA!AnswerReceived(fd)
         /\ NodeA!HandshakeFails(fd) => PA!HandshakeFails(fd)
         /\ NodeA!ReadFails(fd) => PA!ReadFails(fd)
<1> USE DEF NodeA!NewSocket, PA!NewSocket, NodeA!tables, PA!tables, NodeA!sockets,
            PA!sockets,
            NodeA!OpenSession, PA!OpenSession, NodeA!Answered, PA!Answered,
            NodeA!Idle, PA!Idle, NodeA!MayCommand, PA!MayCommand, NodeA!told, PA!told
<1>1. NodeA!AcceptConn(fd, B) => PA!AcceptConn(fd, B)
  BY DEF NodeA!AcceptConn, PA!AcceptConn
<1>2. NodeA!Connect(B, fd, B) => PA!Connect(B, fd, B)
  BY DEF NodeA!Connect, PA!Connect
<1>3. NodeA!ConnectFails(B, fd) => PA!ConnectFails(B, fd)
  BY DEF NodeA!ConnectFails, PA!ConnectFails
<1> USE DEF NodeA!Advance, PA!Advance
<1>4. NodeA!NotifyReceived(fd) => PA!NotifyReceived(fd)
  BY DEF NodeA!NotifyReceived, PA!NotifyReceived
<1>5. NodeA!AnswerSent(fd) => PA!AnswerSent(fd)
  BY DEF NodeA!AnswerSent, PA!AnswerSent
<1>11. NodeA!AnswerDone(fd) => PA!AnswerDone(fd)
  BY DEF NodeA!AnswerDone, PA!AnswerDone, NodeA!Enlist, PA!Enlist, NodeA!Insert, PA!Insert
<1>6. NodeA!NotifySent(fd) => PA!NotifySent(fd)
  BY DEF NodeA!NotifySent, PA!NotifySent
<1>7. NodeA!NotifyFails(fd) => PA!NotifyFails(fd)
  BY DEF NodeA!NotifyFails, PA!NotifyFails, NodeA!CloseSockets, PA!CloseSockets
<1>8. NodeA!AnswerReceived(fd) => PA!AnswerReceived(fd)
  BY DEF NodeA!AnswerReceived, PA!AnswerReceived, NodeA!Enlist, PA!Enlist, NodeA!Insert,
         PA!Insert
<1>9. NodeA!HandshakeFails(fd) => PA!HandshakeFails(fd)
  BY DEF NodeA!HandshakeFails, PA!HandshakeFails, NodeA!CloseSockets, PA!CloseSockets,
         NodeA!Incoming, PA!Incoming
<1>10. NodeA!ReadFails(fd) => PA!ReadFails(fd)
  BY DEF NodeA!ReadFails, PA!ReadFails, NodeA!CloseFD, PA!CloseFD, NodeA!CloseSockets,
         PA!CloseSockets, NodeA!Conns, PA!Conns, NodeA!Directions, PA!Directions,
         NodeA!Cardinality, PA!Cardinality
<1> QED
  BY <1>1, <1>2, <1>3, <1>4, <1>5, <1>6, <1>7, <1>8, <1>9, <1>10, <1>11

LEMMA SameElsewhereA ==
  /\ NodeA!Init => PA!Init
  /\ NodeA!OpenRefused => PA!OpenRefused
  /\ NodeA!CloseConn(B, NodeA!Directions) => PA!CloseConn(B, PA!Directions)
  /\ NodeA!Restart => PA!Restart
<1>1. NodeA!Init => PA!Init
  BY DEF NodeA!Init, PA!Init, NodeA!Conns, PA!Conns, NodeA!Directions, PA!Directions
<1>2. NodeA!OpenRefused => PA!OpenRefused
  BY DEF NodeA!OpenRefused, PA!OpenRefused, NodeA!OpenSession, PA!OpenSession,
         NodeA!sockets, PA!sockets, NodeA!tables, PA!tables, NodeA!told, PA!told,
         NodeA!MayCommand, PA!MayCommand
<1>3. NodeA!CloseConn(B, NodeA!Directions) => PA!CloseConn(B, PA!Directions)
  BY DEF NodeA!MayCommand, PA!MayCommand, NodeA!CloseConn, PA!CloseConn, NodeA!CloseFD, PA!CloseFD, NodeA!CloseSockets,
         PA!CloseSockets, NodeA!Conns, PA!Conns, NodeA!Directions, PA!Directions,
         NodeA!Cardinality, PA!Cardinality
<1>4. NodeA!Restart => PA!Restart
  BY DEF NodeA!Restart, PA!Restart, NodeA!CloseSockets, PA!CloseSockets, NodeA!Conns,
         PA!Conns, NodeA!Directions, PA!Directions
<1> QED
  BY <1>1, <1>2, <1>3, <1>4

(* What a step at node A does there.                                       *)
LEMMA StepsOfA ==
  ASSUME PA!Sound, NEW fd \in Fds
  PROVE  /\ NodeA!AcceptConn(fd, B) =>
              /\ PA!Sound' /\ PA!Role[fd] = "closed" /\ PA!Becomes(fd, "accepting")
              /\ opensA' = opensA
         /\ NodeA!Connect(B, fd, B) =>
              /\ PA!Sound' /\ PA!Role[fd] = "closed" /\ PA!Becomes(fd, "dialling")
              /\ opensA' = opensA + 1
         /\ NodeA!ConnectFails(B, fd) =>
              /\ PA!Sound' /\ PA!Role[fd] = "closed" /\ PA!Becomes(fd, "dialling")
              /\ opensA' = opensA + 1
         /\ NodeA!NotifyReceived(fd) \/ NodeA!NotifySent(fd) =>
              PA!Sound' /\ PA!Role' = PA!Role /\ opensA' = opensA
         /\ NodeA!AnswerSent(fd) =>
              /\ PA!Sound' /\ PA!Role[fd] = "accepting" /\ PA!Becomes(fd, "answering")
              /\ opensA' = opensA
         /\ NodeA!AnswerDone(fd) =>
              /\ PA!Sound' /\ PA!Role[fd] = "answering" /\ PA!Becomes(fd, "incoming")
              /\ opensA' = opensA
         /\ NodeA!AnswerReceived(fd) =>
              /\ PA!Sound' /\ PA!Role[fd] = "dialling" /\ PA!Becomes(fd, "outgoing")
              /\ opensA' = opensA
         /\ NodeA!HandshakeFails(fd) \/ NodeA!NotifyFails(fd) \/ NodeA!ReadFails(fd) =>
              /\ PA!Sound' /\ opensA' = opensA
              /\ PA!Role' = [f \in Fds |-> IF f \in {fd} THEN "closed" ELSE PA!Role[f]]
<1>1. PA!IInv
  BY DEF PA!Sound
<1>2. PA!Step => PA!Sound'
  BY AssumptionsA, PA!SoundStep DEF PA!Next
<1>3. /\ PA!AcceptConn(fd, B) \/ PA!Connect(B, fd, B) \/ PA!ConnectFails(B, fd) => PA!Sound'
      /\ PA!NotifyReceived(fd) \/ PA!NotifySent(fd) \/ PA!AnswerSent(fd) => PA!Sound'
      /\ PA!AnswerDone(fd) => PA!Sound'
      /\ PA!AnswerReceived(fd) \/ PA!HandshakeFails(fd) \/ PA!NotifyFails(fd) => PA!Sound'
      /\ PA!ReadFails(fd) => PA!Sound'
  BY <1>2 DEF PA!Step
<1>4. /\ PA!AcceptConn(fd, B) =>
           PA!Role[fd] = "closed" /\ PA!Becomes(fd, "accepting") /\ opensA' = opensA
      /\ PA!Connect(B, fd, B) =>
           PA!Role[fd] = "closed" /\ PA!Becomes(fd, "dialling") /\ opensA' = opensA + 1
      /\ PA!ConnectFails(B, fd) =>
           PA!Role[fd] = "closed" /\ PA!Becomes(fd, "dialling") /\ opensA' = opensA + 1
  <2>1. /\ \A r \in {B} : PA!AcceptConn(fd, r) =>
             PA!Role[fd] = "closed" /\ PA!Becomes(fd, "accepting") /\ opensA' = opensA
        /\ \A p, r \in {B} : PA!Connect(p, fd, r) =>
             PA!Role[fd] = "closed" /\ PA!Becomes(fd, "dialling") /\ opensA' = opensA + 1
        /\ \A p \in {B} : PA!ConnectFails(p, fd) /\ ~FALSE =>
             PA!Role[fd] = "closed" /\ PA!Becomes(fd, "dialling") /\ opensA' = opensA + 1
    BY <1>1, AssumptionsA, PA!RoleSteps
  <2> QED
    BY <2>1
<1>5. /\ PA!NotifyReceived(fd) \/ PA!NotifySent(fd) => PA!Role' = PA!Role /\ opensA' = opensA
      /\ PA!AnswerSent(fd) =>
           PA!Role[fd] = "accepting" /\ PA!Becomes(fd, "answering") /\ opensA' = opensA
      /\ PA!AnswerDone(fd) =>
           PA!Role[fd] = "answering" /\ PA!Becomes(fd, "incoming") /\ opensA' = opensA
      /\ PA!AnswerReceived(fd) =>
           PA!Role[fd] = "dialling" /\ PA!Becomes(fd, "outgoing") /\ opensA' = opensA
      /\ PA!HandshakeFails(fd) \/ PA!NotifyFails(fd) \/ PA!ReadFails(fd) =>
           /\ PA!Role' = [f \in Fds |-> IF f \in {fd} THEN "closed" ELSE PA!Role[f]]
           /\ opensA' = opensA
  BY <1>1, AssumptionsA, PA!RoleSteps
<1> QED
  BY <1>3, <1>4, <1>5, SameA

LEMMA StepsElsewhereA ==
  /\ NodeA!Init => PA!Sound /\ opensA = 0 /\ PA!Role = [fd \in Fds |-> "closed"]
  /\ PA!Sound /\ NodeA!OpenRefused =>
       PA!Sound' /\ PA!Role' = PA!Role /\ opensA' = opensA + 1
  /\ PA!Sound /\ NodeA!CloseConn(B, NodeA!Directions) =>
       /\ PA!Sound' /\ opensA' = opensA
       /\ PA!Role' = [fd \in Fds |-> IF fd \in {f \in Fds : phaseA'[f] = "closed"}
                                    THEN "closed" ELSE PA!Role[fd]]
  /\ PA!Sound /\ NodeA!Restart =>
       PA!Sound' /\ PA!Role' = [fd \in Fds |-> "closed"] /\ opensA' = opensA
  /\ PA!Sound /\ UNCHANGED varsA =>
       PA!Sound' /\ PA!Role' = PA!Role /\ opensA' = opensA
<1>1. PA!Sound => PA!IInv
  BY DEF PA!Sound
<1>2. ASSUME NodeA!Init PROVE PA!Sound /\ opensA = 0 /\ PA!Role = [fd \in Fds |-> "closed"]
  <2>1. PA!Init
    BY <1>2, SameElsewhereA
  <2> QED
    BY <2>1, AssumptionsA, PA!SoundInit DEF PA!Init, PA!Role
<1>4. ASSUME PA!Sound, NodeA!OpenRefused
      PROVE  PA!Sound' /\ PA!Role' = PA!Role /\ opensA' = opensA + 1
  <2>1. PA!OpenRefused
    BY <1>4, SameElsewhereA
  <2>2. PA!Sound'
    BY <1>4, <2>1, AssumptionsA, PA!SoundStep DEF PA!Next, PA!Step
  <2>3. phaseA' = phaseA /\ activeA' = activeA /\ opensA' = opensA + 1
    BY <2>1 DEF PA!OpenRefused, PA!OpenSession, PA!sockets, PA!tables, PA!told
  <2> QED
    BY <2>2, <2>3 DEF PA!Role
<1>5. ASSUME PA!Sound, NodeA!CloseConn(B, NodeA!Directions)
      PROVE  /\ PA!Sound' /\ opensA' = opensA
             /\ PA!Role' = [fd \in Fds |-> IF fd \in {f \in Fds : phaseA'[f] = "closed"}
                                          THEN "closed" ELSE PA!Role[fd]]
  <2>1. PA!CloseConn(B, PA!Directions)
    BY <1>5, SameElsewhereA
  <2>2. PA!Sound'
    BY <1>5, <2>1, AssumptionsA, PA!SoundStep DEF PA!Next, PA!Step
  <2> QED
    BY <1>1, <1>5, <2>1, <2>2, AssumptionsA, PA!RolesAfterClose
<1>6. ASSUME PA!Sound, NodeA!Restart
      PROVE  PA!Sound' /\ PA!Role' = [fd \in Fds |-> "closed"] /\ opensA' = opensA
  BY <1>1, <1>6, AssumptionsA, SameElsewhereA, PA!Restarts
<1>7. ASSUME PA!Sound, UNCHANGED varsA
      PROVE  PA!Sound' /\ PA!Role' = PA!Role /\ opensA' = opensA
  <2>1. UNCHANGED PA!vars
    BY <1>7 DEF varsA, PA!vars, PA!sockets, PA!tables, PA!told
  <2>2. PA!Sound'
    BY <1>7, <2>1, AssumptionsA, PA!SoundStep
  <2> QED
    BY <1>7, <2>2 DEF varsA, PA!Role
<1> QED
  BY <1>2, <1>4, <1>5, <1>6, <1>7

(* The assumptions of ConnectionManager hold of either node.               *)
LEMMA AssumptionsB == PB!ConnectionAssumption /\ PB!NoneIsNoConnection
<1>1. PB!IsFiniteSet(Fds)
  BY NetworkAssumption DEF IsFiniteSet, PB!IsFiniteSet
<1>2. PB!ConnectionAssumption
  BY <1>1, NetworkAssumption DEF PB!ConnectionAssumption
<1>3. PB!NoneIsNoConnection
  BY NetworkAssumption DEF PB!NoneIsNoConnection, PB!Conns, PB!Directions
<1> QED
  BY <1>2, <1>3

(* Node B is an instance of ConnectionManager.                             *)
LEMMA SameB ==
  ASSUME NEW fd \in Fds
  PROVE  /\ NodeB!AcceptConn(fd, A) => PB!AcceptConn(fd, A)
         /\ NodeB!Connect(A, fd, A) => PB!Connect(A, fd, A)
         /\ NodeB!ConnectFails(A, fd) => PB!ConnectFails(A, fd)
         /\ NodeB!NotifyReceived(fd) => PB!NotifyReceived(fd)
         /\ NodeB!AnswerSent(fd) => PB!AnswerSent(fd)
         /\ NodeB!AnswerDone(fd) => PB!AnswerDone(fd)
         /\ NodeB!NotifySent(fd) => PB!NotifySent(fd)
         /\ NodeB!NotifyFails(fd) => PB!NotifyFails(fd)
         /\ NodeB!AnswerReceived(fd) => PB!AnswerReceived(fd)
         /\ NodeB!HandshakeFails(fd) => PB!HandshakeFails(fd)
         /\ NodeB!ReadFails(fd) => PB!ReadFails(fd)
<1> USE DEF NodeB!NewSocket, PB!NewSocket, NodeB!tables, PB!tables, NodeB!sockets,
            PB!sockets,
            NodeB!OpenSession, PB!OpenSession, NodeB!Answered, PB!Answered,
            NodeB!Idle, PB!Idle, NodeB!MayCommand, PB!MayCommand, NodeB!told, PB!told
<1>1. NodeB!AcceptConn(fd, A) => PB!AcceptConn(fd, A)
  BY DEF NodeB!AcceptConn, PB!AcceptConn
<1>2. NodeB!Connect(A, fd, A) => PB!Connect(A, fd, A)
  BY DEF NodeB!Connect, PB!Connect
<1>3. NodeB!ConnectFails(A, fd) => PB!ConnectFails(A, fd)
  BY DEF NodeB!ConnectFails, PB!ConnectFails
<1> USE DEF NodeB!Advance, PB!Advance
<1>4. NodeB!NotifyReceived(fd) => PB!NotifyReceived(fd)
  BY DEF NodeB!NotifyReceived, PB!NotifyReceived
<1>5. NodeB!AnswerSent(fd) => PB!AnswerSent(fd)
  BY DEF NodeB!AnswerSent, PB!AnswerSent
<1>11. NodeB!AnswerDone(fd) => PB!AnswerDone(fd)
  BY DEF NodeB!AnswerDone, PB!AnswerDone, NodeB!Enlist, PB!Enlist, NodeB!Insert, PB!Insert
<1>6. NodeB!NotifySent(fd) => PB!NotifySent(fd)
  BY DEF NodeB!NotifySent, PB!NotifySent
<1>7. NodeB!NotifyFails(fd) => PB!NotifyFails(fd)
  BY DEF NodeB!NotifyFails, PB!NotifyFails, NodeB!CloseSockets, PB!CloseSockets
<1>8. NodeB!AnswerReceived(fd) => PB!AnswerReceived(fd)
  BY DEF NodeB!AnswerReceived, PB!AnswerReceived, NodeB!Enlist, PB!Enlist, NodeB!Insert,
         PB!Insert
<1>9. NodeB!HandshakeFails(fd) => PB!HandshakeFails(fd)
  BY DEF NodeB!HandshakeFails, PB!HandshakeFails, NodeB!CloseSockets, PB!CloseSockets,
         NodeB!Incoming, PB!Incoming
<1>10. NodeB!ReadFails(fd) => PB!ReadFails(fd)
  BY DEF NodeB!ReadFails, PB!ReadFails, NodeB!CloseFD, PB!CloseFD, NodeB!CloseSockets,
         PB!CloseSockets, NodeB!Conns, PB!Conns, NodeB!Directions, PB!Directions,
         NodeB!Cardinality, PB!Cardinality
<1> QED
  BY <1>1, <1>2, <1>3, <1>4, <1>5, <1>6, <1>7, <1>8, <1>9, <1>10, <1>11

LEMMA SameElsewhereB ==
  /\ NodeB!Init => PB!Init
  /\ NodeB!OpenRefused => PB!OpenRefused
  /\ NodeB!CloseConn(A, NodeB!Directions) => PB!CloseConn(A, PB!Directions)
  /\ NodeB!Restart => PB!Restart
<1>1. NodeB!Init => PB!Init
  BY DEF NodeB!Init, PB!Init, NodeB!Conns, PB!Conns, NodeB!Directions, PB!Directions
<1>2. NodeB!OpenRefused => PB!OpenRefused
  BY DEF NodeB!OpenRefused, PB!OpenRefused, NodeB!OpenSession, PB!OpenSession,
         NodeB!sockets, PB!sockets, NodeB!tables, PB!tables, NodeB!told, PB!told,
         NodeB!MayCommand, PB!MayCommand
<1>3. NodeB!CloseConn(A, NodeB!Directions) => PB!CloseConn(A, PB!Directions)
  BY DEF NodeB!MayCommand, PB!MayCommand, NodeB!CloseConn, PB!CloseConn, NodeB!CloseFD, PB!CloseFD, NodeB!CloseSockets,
         PB!CloseSockets, NodeB!Conns, PB!Conns, NodeB!Directions, PB!Directions,
         NodeB!Cardinality, PB!Cardinality
<1>4. NodeB!Restart => PB!Restart
  BY DEF NodeB!Restart, PB!Restart, NodeB!CloseSockets, PB!CloseSockets, NodeB!Conns,
         PB!Conns, NodeB!Directions, PB!Directions
<1> QED
  BY <1>1, <1>2, <1>3, <1>4

(* What a step at node B does there.                                       *)
LEMMA StepsOfB ==
  ASSUME PB!Sound, NEW fd \in Fds
  PROVE  /\ NodeB!AcceptConn(fd, A) =>
              /\ PB!Sound' /\ PB!Role[fd] = "closed" /\ PB!Becomes(fd, "accepting")
              /\ opensB' = opensB
         /\ NodeB!Connect(A, fd, A) =>
              /\ PB!Sound' /\ PB!Role[fd] = "closed" /\ PB!Becomes(fd, "dialling")
              /\ opensB' = opensB + 1
         /\ NodeB!ConnectFails(A, fd) =>
              /\ PB!Sound' /\ PB!Role[fd] = "closed" /\ PB!Becomes(fd, "dialling")
              /\ opensB' = opensB + 1
         /\ NodeB!NotifyReceived(fd) \/ NodeB!NotifySent(fd) =>
              PB!Sound' /\ PB!Role' = PB!Role /\ opensB' = opensB
         /\ NodeB!AnswerSent(fd) =>
              /\ PB!Sound' /\ PB!Role[fd] = "accepting" /\ PB!Becomes(fd, "answering")
              /\ opensB' = opensB
         /\ NodeB!AnswerDone(fd) =>
              /\ PB!Sound' /\ PB!Role[fd] = "answering" /\ PB!Becomes(fd, "incoming")
              /\ opensB' = opensB
         /\ NodeB!AnswerReceived(fd) =>
              /\ PB!Sound' /\ PB!Role[fd] = "dialling" /\ PB!Becomes(fd, "outgoing")
              /\ opensB' = opensB
         /\ NodeB!HandshakeFails(fd) \/ NodeB!NotifyFails(fd) \/ NodeB!ReadFails(fd) =>
              /\ PB!Sound' /\ opensB' = opensB
              /\ PB!Role' = [f \in Fds |-> IF f \in {fd} THEN "closed" ELSE PB!Role[f]]
<1>1. PB!IInv
  BY DEF PB!Sound
<1>2. PB!Step => PB!Sound'
  BY AssumptionsB, PB!SoundStep DEF PB!Next
<1>3. /\ PB!AcceptConn(fd, A) \/ PB!Connect(A, fd, A) \/ PB!ConnectFails(A, fd) => PB!Sound'
      /\ PB!NotifyReceived(fd) \/ PB!NotifySent(fd) \/ PB!AnswerSent(fd) => PB!Sound'
      /\ PB!AnswerDone(fd) => PB!Sound'
      /\ PB!AnswerReceived(fd) \/ PB!HandshakeFails(fd) \/ PB!NotifyFails(fd) => PB!Sound'
      /\ PB!ReadFails(fd) => PB!Sound'
  BY <1>2 DEF PB!Step
<1>4. /\ PB!AcceptConn(fd, A) =>
           PB!Role[fd] = "closed" /\ PB!Becomes(fd, "accepting") /\ opensB' = opensB
      /\ PB!Connect(A, fd, A) =>
           PB!Role[fd] = "closed" /\ PB!Becomes(fd, "dialling") /\ opensB' = opensB + 1
      /\ PB!ConnectFails(A, fd) =>
           PB!Role[fd] = "closed" /\ PB!Becomes(fd, "dialling") /\ opensB' = opensB + 1
  <2>1. /\ \A r \in {A} : PB!AcceptConn(fd, r) =>
             PB!Role[fd] = "closed" /\ PB!Becomes(fd, "accepting") /\ opensB' = opensB
        /\ \A p, r \in {A} : PB!Connect(p, fd, r) =>
             PB!Role[fd] = "closed" /\ PB!Becomes(fd, "dialling") /\ opensB' = opensB + 1
        /\ \A p \in {A} : PB!ConnectFails(p, fd) /\ ~FALSE =>
             PB!Role[fd] = "closed" /\ PB!Becomes(fd, "dialling") /\ opensB' = opensB + 1
    BY <1>1, AssumptionsB, PB!RoleSteps
  <2> QED
    BY <2>1
<1>5. /\ PB!NotifyReceived(fd) \/ PB!NotifySent(fd) => PB!Role' = PB!Role /\ opensB' = opensB
      /\ PB!AnswerSent(fd) =>
           PB!Role[fd] = "accepting" /\ PB!Becomes(fd, "answering") /\ opensB' = opensB
      /\ PB!AnswerDone(fd) =>
           PB!Role[fd] = "answering" /\ PB!Becomes(fd, "incoming") /\ opensB' = opensB
      /\ PB!AnswerReceived(fd) =>
           PB!Role[fd] = "dialling" /\ PB!Becomes(fd, "outgoing") /\ opensB' = opensB
      /\ PB!HandshakeFails(fd) \/ PB!NotifyFails(fd) \/ PB!ReadFails(fd) =>
           /\ PB!Role' = [f \in Fds |-> IF f \in {fd} THEN "closed" ELSE PB!Role[f]]
           /\ opensB' = opensB
  BY <1>1, AssumptionsB, PB!RoleSteps
<1> QED
  BY <1>3, <1>4, <1>5, SameB

LEMMA StepsElsewhereB ==
  /\ NodeB!Init => PB!Sound /\ opensB = 0 /\ PB!Role = [fd \in Fds |-> "closed"]
  /\ PB!Sound /\ NodeB!OpenRefused =>
       PB!Sound' /\ PB!Role' = PB!Role /\ opensB' = opensB + 1
  /\ PB!Sound /\ NodeB!CloseConn(A, NodeB!Directions) =>
       /\ PB!Sound' /\ opensB' = opensB
       /\ PB!Role' = [fd \in Fds |-> IF fd \in {f \in Fds : phaseB'[f] = "closed"}
                                    THEN "closed" ELSE PB!Role[fd]]
  /\ PB!Sound /\ NodeB!Restart =>
       PB!Sound' /\ PB!Role' = [fd \in Fds |-> "closed"] /\ opensB' = opensB
  /\ PB!Sound /\ UNCHANGED varsB =>
       PB!Sound' /\ PB!Role' = PB!Role /\ opensB' = opensB
<1>1. PB!Sound => PB!IInv
  BY DEF PB!Sound
<1>2. ASSUME NodeB!Init PROVE PB!Sound /\ opensB = 0 /\ PB!Role = [fd \in Fds |-> "closed"]
  <2>1. PB!Init
    BY <1>2, SameElsewhereB
  <2> QED
    BY <2>1, AssumptionsB, PB!SoundInit DEF PB!Init, PB!Role
<1>4. ASSUME PB!Sound, NodeB!OpenRefused
      PROVE  PB!Sound' /\ PB!Role' = PB!Role /\ opensB' = opensB + 1
  <2>1. PB!OpenRefused
    BY <1>4, SameElsewhereB
  <2>2. PB!Sound'
    BY <1>4, <2>1, AssumptionsB, PB!SoundStep DEF PB!Next, PB!Step
  <2>3. phaseB' = phaseB /\ activeB' = activeB /\ opensB' = opensB + 1
    BY <2>1 DEF PB!OpenRefused, PB!OpenSession, PB!sockets, PB!tables, PB!told
  <2> QED
    BY <2>2, <2>3 DEF PB!Role
<1>5. ASSUME PB!Sound, NodeB!CloseConn(A, NodeB!Directions)
      PROVE  /\ PB!Sound' /\ opensB' = opensB
             /\ PB!Role' = [fd \in Fds |-> IF fd \in {f \in Fds : phaseB'[f] = "closed"}
                                          THEN "closed" ELSE PB!Role[fd]]
  <2>1. PB!CloseConn(A, PB!Directions)
    BY <1>5, SameElsewhereB
  <2>2. PB!Sound'
    BY <1>5, <2>1, AssumptionsB, PB!SoundStep DEF PB!Next, PB!Step
  <2> QED
    BY <1>1, <1>5, <2>1, <2>2, AssumptionsB, PB!RolesAfterClose
<1>6. ASSUME PB!Sound, NodeB!Restart
      PROVE  PB!Sound' /\ PB!Role' = [fd \in Fds |-> "closed"] /\ opensB' = opensB
  BY <1>1, <1>6, AssumptionsB, SameElsewhereB, PB!Restarts
<1>7. ASSUME PB!Sound, UNCHANGED varsB
      PROVE  PB!Sound' /\ PB!Role' = PB!Role /\ opensB' = opensB
  <2>1. UNCHANGED PB!vars
    BY <1>7 DEF varsB, PB!vars, PB!sockets, PB!tables, PB!told
  <2>2. PB!Sound'
    BY <1>7, <2>1, AssumptionsB, PB!SoundStep
  <2> QED
    BY <1>7, <2>2 DEF varsB, PB!Role
<1> QED
  BY <1>2, <1>4, <1>5, <1>6, <1>7
-----------------------------------------------------------------------------
(* From here on a node is its roles: what each descriptor is an end of.    *)

role == [n \in Nodes |-> IF n = A THEN PA!Role ELSE PB!Role]
opened == opensA + opensB
Sound == PA!Sound /\ PB!Sound

Roles == {"closed", "dialling", "accepting", "answering", "outgoing", "incoming"}

Becomes(n, fd, r) == role' = [role EXCEPT ![n][fd] = r]
Closed(n, fds) ==
    role' = [role EXCEPT ![n] = [fd \in Fds |-> IF fd \in fds THEN "closed" ELSE @[fd]]]

LEMMA NodeFacts ==
  /\ A \in Nodes /\ B \in Nodes /\ A # B
  /\ \A n \in Nodes : /\ n = A \/ n = B
                      /\ Other(n) \in Nodes /\ Other(n) # n /\ Other(Other(n)) = n
                      /\ \A m \in Nodes : m = n \/ m = Other(n)
BY NetworkAssumption DEF Nodes, Other

LEMMA RoleTypes ==
  ASSUME Sound
  PROVE  /\ role \in [Nodes -> [Fds -> Roles]]
         /\ role[A] = PA!Role /\ role[B] = PB!Role
         /\ opensA \in Nat /\ opensB \in Nat
         /\ \A n \in Nodes, fd \in Fds :
              /\ role[n][fd] = "closed" <=> phase[n][fd] = "closed"
              /\ role[n][fd] \in {"outgoing", "incoming"} <=> phase[n][fd] = "established"
              /\ role[n][fd] = "answering" <=> phase[n][fd] = "answered"
              /\ role[n][fd] = "outgoing" <=> fd \in Sessions(n, "OUTGOING")
              /\ role[n][fd] = "incoming" <=> fd \in Sessions(n, "INCOMING")
<1> USE NodeFacts
<1>1. PA!IInv /\ PB!IInv
  BY DEF Sound, PA!Sound, PB!Sound
<1>2. role[A] = PA!Role /\ role[B] = PB!Role
  BY DEF role
<1>3. /\ PA!Role \in [Fds -> Roles] /\ PB!Role \in [Fds -> Roles]
      /\ \A fd \in Fds :
           /\ PA!Role[fd] = "closed" <=> phaseA[fd] = "closed"
           /\ PA!Role[fd] \in {"outgoing", "incoming"} <=> phaseA[fd] = "established"
           /\ PA!Role[fd] = "answering" <=> phaseA[fd] = "answered"
           /\ PB!Role[fd] = "closed" <=> phaseB[fd] = "closed"
           /\ PB!Role[fd] \in {"outgoing", "incoming"} <=> phaseB[fd] = "established"
           /\ PB!Role[fd] = "answering" <=> phaseB[fd] = "answered"
  <2>1. PA!Roles = Roles /\ PB!Roles = Roles
    BY DEF Roles, PA!Roles, PB!Roles
  <2> QED
    BY <1>1, <2>1, AssumptionsA, AssumptionsB, PA!RoleValues, PB!RoleValues
<1>4. ASSUME NEW fd \in Fds
      PROVE  /\ PA!Role[fd] = "outgoing" <=> activeA[fd] = <<B, "OUTGOING">>
             /\ PA!Role[fd] = "incoming" <=> activeA[fd] = <<B, "INCOMING">>
             /\ PB!Role[fd] = "outgoing" <=> activeB[fd] = <<A, "OUTGOING">>
             /\ PB!Role[fd] = "incoming" <=> activeB[fd] = <<A, "INCOMING">>
  <2>1. /\ PA!Role[fd] = "outgoing" <=> \E p \in {B} : activeA[fd] = <<p, "OUTGOING">>
        /\ PA!Role[fd] = "incoming" <=> \E p \in {B} : activeA[fd] = <<p, "INCOMING">>
    BY <1>1, AssumptionsA, PA!RoleOfSession
  <2>2. /\ PB!Role[fd] = "outgoing" <=> \E p \in {A} : activeB[fd] = <<p, "OUTGOING">>
        /\ PB!Role[fd] = "incoming" <=> \E p \in {A} : activeB[fd] = <<p, "INCOMING">>
    BY <1>1, AssumptionsB, PB!RoleOfSession
  <2> QED
    BY <2>1, <2>2
<1>5. role \in [Nodes -> [Fds -> Roles]]
  BY <1>3 DEF role
<1>6. opensA \in Nat /\ opensB \in Nat
  BY <1>1, NetworkAssumption DEF PA!IInv, PB!IInv, PA!TypeOK, PB!TypeOK
<1>7. phase[A] = phaseA /\ phase[B] = phaseB
  BY DEF phase
<1>8. /\ \A dir : Sessions(A, dir) = {fd \in Fds : activeA[fd] = <<B, dir>>}
      /\ \A dir : Sessions(B, dir) = {fd \in Fds : activeB[fd] = <<A, dir>>}
  BY DEF Sessions, Other
<1>9. ASSUME NEW fd \in Fds
      PROVE  /\ role[A][fd] = "closed" <=> phase[A][fd] = "closed"
             /\ role[A][fd] \in {"outgoing", "incoming"} <=> phase[A][fd] = "established"
             /\ role[A][fd] = "answering" <=> phase[A][fd] = "answered"
             /\ role[A][fd] = "outgoing" <=> fd \in Sessions(A, "OUTGOING")
             /\ role[A][fd] = "incoming" <=> fd \in Sessions(A, "INCOMING")
  <2>1. role[A][fd] = PA!Role[fd] /\ phase[A][fd] = phaseA[fd]
    BY <1>2, <1>7
  <2>2. \A dir : fd \in Sessions(A, dir) <=> activeA[fd] = <<B, dir>>
    BY <1>8
  <2> QED
    BY <1>3, <1>4, <2>1, <2>2
<1>10. ASSUME NEW fd \in Fds
       PROVE  /\ role[B][fd] = "closed" <=> phase[B][fd] = "closed"
              /\ role[B][fd] \in {"outgoing", "incoming"} <=> phase[B][fd] = "established"
              /\ role[B][fd] = "answering" <=> phase[B][fd] = "answered"
              /\ role[B][fd] = "outgoing" <=> fd \in Sessions(B, "OUTGOING")
              /\ role[B][fd] = "incoming" <=> fd \in Sessions(B, "INCOMING")
  <2>1. role[B][fd] = PB!Role[fd] /\ phase[B][fd] = phaseB[fd]
    BY <1>2, <1>7
  <2>2. \A dir : fd \in Sessions(B, dir) <=> activeB[fd] = <<A, dir>>
    BY <1>8
  <2> QED
    BY <1>3, <1>4, <2>1, <2>2
<1>11. ASSUME NEW n \in Nodes, NEW fd \in Fds
       PROVE  /\ role[n][fd] = "closed" <=> phase[n][fd] = "closed"
              /\ role[n][fd] \in {"outgoing", "incoming"} <=> phase[n][fd] = "established"
              /\ role[n][fd] = "answering" <=> phase[n][fd] = "answered"
              /\ role[n][fd] = "outgoing" <=> fd \in Sessions(n, "OUTGOING")
              /\ role[n][fd] = "incoming" <=> fd \in Sessions(n, "INCOMING")
  <2>1. CASE n = A
    BY <1>9, <2>1
  <2>2. CASE n = B
    BY <1>10, <2>2
  <2> QED
    BY <2>1, <2>2
<1> QED
  BY <1>2, <1>5, <1>6, <1>11

LEMMA SameTypes == Sound => NodeA!TypeOK /\ NodeB!TypeOK
<1>1. PA!TypeOK => NodeA!TypeOK
  BY DEF PA!TypeOK, NodeA!TypeOK, PA!Phases, NodeA!Phases, PA!Incoming, NodeA!Incoming,
         PA!Outgoing, NodeA!Outgoing, PA!Conns, NodeA!Conns, PA!Directions, NodeA!Directions
<1>2. PB!TypeOK => NodeB!TypeOK
  BY DEF PB!TypeOK, NodeB!TypeOK, PB!Phases, NodeB!Phases, PB!Incoming, NodeB!Incoming,
         PB!Outgoing, NodeB!Outgoing, PB!Conns, NodeB!Conns, PB!Directions, NodeB!Directions
<1> QED
  BY <1>1, <1>2 DEF Sound, PA!Sound, PB!Sound, PA!IInv, PB!IInv

(* A step of one node leaves the other as it is.                           *)
LEMMA StepAtA ==
  ASSUME Sound, PA!Sound', UNCHANGED varsB
  PROVE  Sound' /\ role' = [role EXCEPT ![A] = PA!Role'] /\ opensB' = opensB
<1>1. PB!Sound' /\ PB!Role' = PB!Role /\ opensB' = opensB
  BY StepsElsewhereB DEF Sound
<1> QED
  BY <1>1, NodeFacts DEF Sound, role

LEMMA StepAtB ==
  ASSUME Sound, PB!Sound', UNCHANGED varsA
  PROVE  Sound' /\ role' = [role EXCEPT ![B] = PB!Role'] /\ opensA' = opensA
<1>1. PA!Sound' /\ PA!Role' = PA!Role /\ opensA' = opensA
  BY StepsElsewhereA DEF Sound
<1> QED
  BY <1>1, NodeFacts DEF Sound, role

(* What a step of either node does to its roles.                           *)
LEMMA RoleSteps ==
  ASSUME Sound, NEW n \in Nodes, NEW fd \in Fds
  PROVE  /\ At(n, NodeA!AcceptConn(fd, B), NodeB!AcceptConn(fd, A)) =>
              Sound' /\ role[n][fd] = "closed" /\ Becomes(n, fd, "accepting")
              /\ opened' = opened
         /\ At(n, NodeA!Connect(B, fd, B), NodeB!Connect(A, fd, A)) =>
              Sound' /\ role[n][fd] = "closed" /\ Becomes(n, fd, "dialling")
              /\ opened' = opened + 1
         /\ At(n, NodeA!ConnectFails(B, fd) \/ NodeA!OpenRefused,
                  NodeB!ConnectFails(A, fd) \/ NodeB!OpenRefused) =>
              /\ Sound' /\ opened' = opened + 1
              /\ role' = role \/ (role[n][fd] = "closed" /\ Becomes(n, fd, "dialling"))
         /\ At(n, NodeA!NotifySent(fd), NodeB!NotifySent(fd)) =>
              Sound' /\ role' = role /\ opened' = opened
         /\ At(n, NodeA!NotifyReceived(fd), NodeB!NotifyReceived(fd)) =>
              Sound' /\ role' = role /\ opened' = opened
         /\ At(n, NodeA!AnswerSent(fd), NodeB!AnswerSent(fd)) =>
              Sound' /\ role[n][fd] = "accepting" /\ Becomes(n, fd, "answering")
              /\ opened' = opened
         /\ At(n, NodeA!AnswerDone(fd), NodeB!AnswerDone(fd)) =>
              Sound' /\ role[n][fd] = "answering" /\ Becomes(n, fd, "incoming")
              /\ opened' = opened
         /\ At(n, NodeA!AnswerReceived(fd), NodeB!AnswerReceived(fd)) =>
              Sound' /\ role[n][fd] = "dialling" /\ Becomes(n, fd, "outgoing")
              /\ opened' = opened
         /\ At(n, NodeA!HandshakeFails(fd) \/ NodeA!NotifyFails(fd) \/ NodeA!ReadFails(fd),
                  NodeB!HandshakeFails(fd) \/ NodeB!NotifyFails(fd) \/ NodeB!ReadFails(fd)) =>
              Sound' /\ Closed(n, {fd}) /\ opened' = opened
<1> USE RoleTypes, NodeFacts DEF At, Becomes, opened
<1>1. CASE n = A
  <2>1. ASSUME NodeA!AcceptConn(fd, B), UNCHANGED varsB
        PROVE  Sound' /\ role[n][fd] = "closed" /\ Becomes(n, fd, "accepting")
               /\ opened' = opened
    BY <1>1, <2>1, StepsOfA, StepAtA DEF Sound, PA!Becomes
  <2>2. ASSUME NodeA!Connect(B, fd, B) \/ NodeA!ConnectFails(B, fd), UNCHANGED varsB
        PROVE  /\ Sound' /\ role[n][fd] = "closed" /\ Becomes(n, fd, "dialling")
               /\ opened' = opened + 1
    <3>1. PA!Sound' /\ PA!Role[fd] = "closed" /\ PA!Role' = [PA!Role EXCEPT ![fd] = "dialling"]
          /\ opensA' = opensA + 1
      BY <2>2, StepsOfA DEF Sound, PA!Becomes
    <3>2. Sound' /\ role' = [role EXCEPT ![A] = PA!Role'] /\ opensB' = opensB
      BY <2>2, <3>1, StepAtA
    <3> QED
      BY <1>1, <3>1, <3>2
  <2>6. ASSUME NodeA!OpenRefused, UNCHANGED varsB
        PROVE  Sound' /\ role' = role /\ opened' = opened + 1
    <3>1. PA!Sound' /\ PA!Role' = PA!Role /\ opensA' = opensA + 1
      BY <2>6, StepsElsewhereA DEF Sound
    <3>2. Sound' /\ role' = [role EXCEPT ![A] = PA!Role'] /\ opensB' = opensB
      BY <2>6, <3>1, StepAtA
    <3> QED
      BY <1>1, <3>1, <3>2
  <2>3. /\ NodeA!NotifySent(fd) /\ UNCHANGED varsB =>
                Sound' /\ role' = role /\ opened' = opened
        /\ NodeA!NotifyReceived(fd) /\ UNCHANGED varsB =>
             Sound' /\ role' = role /\ opened' = opened
    BY <1>1, StepsOfA, StepAtA DEF Sound
  <2>4. /\ NodeA!AnswerSent(fd) /\ UNCHANGED varsB =>
             Sound' /\ role[n][fd] = "accepting" /\ Becomes(n, fd, "answering")
             /\ opened' = opened
        /\ NodeA!AnswerDone(fd) /\ UNCHANGED varsB =>
             Sound' /\ role[n][fd] = "answering" /\ Becomes(n, fd, "incoming")
             /\ opened' = opened
        /\ NodeA!AnswerReceived(fd) /\ UNCHANGED varsB =>
             Sound' /\ role[n][fd] = "dialling" /\ Becomes(n, fd, "outgoing")
             /\ opened' = opened
    BY <1>1, StepsOfA, StepAtA DEF Sound, PA!Becomes
  <2>5. (NodeA!HandshakeFails(fd) \/ NodeA!NotifyFails(fd) \/ NodeA!ReadFails(fd))
        /\ UNCHANGED varsB => Sound' /\ Closed(n, {fd}) /\ opened' = opened
    BY <1>1, StepsOfA, StepAtA DEF Sound, Closed
  <2> QED
    BY <1>1, <2>1, <2>2, <2>3, <2>4, <2>5, <2>6
<1>2. CASE n = B
  <2>1. ASSUME NodeB!AcceptConn(fd, A), UNCHANGED varsA
        PROVE  Sound' /\ role[n][fd] = "closed" /\ Becomes(n, fd, "accepting")
               /\ opened' = opened
    BY <1>2, <2>1, StepsOfB, StepAtB DEF Sound, PB!Becomes
  <2>2. ASSUME NodeB!Connect(A, fd, A) \/ NodeB!ConnectFails(A, fd), UNCHANGED varsA
        PROVE  /\ Sound' /\ role[n][fd] = "closed" /\ Becomes(n, fd, "dialling")
               /\ opened' = opened + 1
    <3>1. PB!Sound' /\ PB!Role[fd] = "closed" /\ PB!Role' = [PB!Role EXCEPT ![fd] = "dialling"]
          /\ opensB' = opensB + 1
      BY <2>2, StepsOfB DEF Sound, PB!Becomes
    <3>2. Sound' /\ role' = [role EXCEPT ![B] = PB!Role'] /\ opensA' = opensA
      BY <2>2, <3>1, StepAtB
    <3> QED
      BY <1>2, <3>1, <3>2
  <2>6. ASSUME NodeB!OpenRefused, UNCHANGED varsA
        PROVE  Sound' /\ role' = role /\ opened' = opened + 1
    <3>1. PB!Sound' /\ PB!Role' = PB!Role /\ opensB' = opensB + 1
      BY <2>6, StepsElsewhereB DEF Sound
    <3>2. Sound' /\ role' = [role EXCEPT ![B] = PB!Role'] /\ opensA' = opensA
      BY <2>6, <3>1, StepAtB
    <3> QED
      BY <1>2, <3>1, <3>2
  <2>3. /\ NodeB!NotifySent(fd) /\ UNCHANGED varsA =>
                Sound' /\ role' = role /\ opened' = opened
        /\ NodeB!NotifyReceived(fd) /\ UNCHANGED varsA =>
             Sound' /\ role' = role /\ opened' = opened
    BY <1>2, StepsOfB, StepAtB DEF Sound
  <2>4. /\ NodeB!AnswerSent(fd) /\ UNCHANGED varsA =>
             Sound' /\ role[n][fd] = "accepting" /\ Becomes(n, fd, "answering")
             /\ opened' = opened
        /\ NodeB!AnswerDone(fd) /\ UNCHANGED varsA =>
             Sound' /\ role[n][fd] = "answering" /\ Becomes(n, fd, "incoming")
             /\ opened' = opened
        /\ NodeB!AnswerReceived(fd) /\ UNCHANGED varsA =>
             Sound' /\ role[n][fd] = "dialling" /\ Becomes(n, fd, "outgoing")
             /\ opened' = opened
    BY <1>2, StepsOfB, StepAtB DEF Sound, PB!Becomes
  <2>5. (NodeB!HandshakeFails(fd) \/ NodeB!NotifyFails(fd) \/ NodeB!ReadFails(fd))
        /\ UNCHANGED varsA => Sound' /\ Closed(n, {fd}) /\ opened' = opened
    BY <1>2, StepsOfB, StepAtB DEF Sound, Closed
  <2> QED
    BY <1>2, <2>1, <2>2, <2>3, <2>4, <2>5, <2>6
<1> QED
  BY <1>1, <1>2

LEMMA RoleStepsElsewhere ==
  ASSUME Sound, NEW n \in Nodes
  PROVE  /\ At(n, NodeA!CloseConn(B, NodeA!Directions),
                  NodeB!CloseConn(A, NodeB!Directions)) =>
              Sound' /\ Closed(n, {fd \in Fds : phase'[n][fd] = "closed"}) /\ opened' = opened
         /\ At(n, NodeA!Restart, NodeB!Restart) =>
              Sound' /\ Closed(n, Fds) /\ opened' = opened
<1> USE RoleTypes, NodeFacts DEF At, Closed, opened
<1>1. CASE n = A
  <2>1. phase'[n] = phaseA'
    BY <1>1 DEF phase
  <2>2. NodeA!CloseConn(B, NodeA!Directions) /\ UNCHANGED varsB =>
          Sound' /\ Closed(n, {fd \in Fds : phase'[n][fd] = "closed"}) /\ opened' = opened
    BY <1>1, <2>1, StepsElsewhereA, StepAtA DEF Sound
  <2>3. NodeA!Restart /\ UNCHANGED varsB => Sound' /\ Closed(n, Fds) /\ opened' = opened
    BY <1>1, StepsElsewhereA, StepAtA DEF Sound
  <2> QED
    BY <1>1, <2>2, <2>3
<1>2. CASE n = B
  <2>1. phase'[n] = phaseB'
    BY <1>2 DEF phase
  <2>2. NodeB!CloseConn(A, NodeB!Directions) /\ UNCHANGED varsA =>
          Sound' /\ Closed(n, {fd \in Fds : phase'[n][fd] = "closed"}) /\ opened' = opened
    BY <1>2, <2>1, StepsElsewhereB, StepAtB DEF Sound
  <2>3. NodeB!Restart /\ UNCHANGED varsA => Sound' /\ Closed(n, Fds) /\ opened' = opened
    BY <1>2, StepsElsewhereB, StepAtB DEF Sound
  <2> QED
    BY <1>2, <2>2, <2>3
<1> QED
  BY <1>1, <1>2
-----------------------------------------------------------------------------
(* The inductive invariant: what ties the roles of two nodes together.     *)

Dials(r) == r \in {"dialling", "outgoing"}
Accepts(r) == r \in {"accepting", "answering", "incoming"}

NetTypes ==
    /\ end \in [Nodes -> [Fds -> Ids \cup {None}]]
    /\ backlog \in [Nodes -> SUBSET Ids]
    /\ wire \in [Ids -> Wires]
    /\ restarts \in 0 .. MaxRestarts

(* A connection has at most one end at a node, and none where it waits.    *)
OneEnd ==
    \A n \in Nodes, fd \in Fds :
        /\ role[n][fd] = "closed" => end[n][fd] = None
        /\ end[n][fd] \notin backlog[n]
        /\ end[n][fd] # None => \A fe \in Fds : end[n][fe] = end[n][fd] => fe = fd

(* One side of a connection has dialled, the other accepts it.             *)
Sides ==
    \A n \in Nodes :
        /\ backlog[n] \cap backlog[Other(n)] = {}
        /\ \A fe \in Fds : end[Other(n)][fe] \in backlog[n] => Dials(role[Other(n)][fe])
        /\ \A fd, fe \in Fds : end[n][fd] # None /\ end[n][fd] = end[Other(n)][fe] =>
             (Dials(role[n][fd]) <=> Accepts(role[Other(n)][fe]))

(* The answer is sent by a node whose session is open or about to be, and  *)
(* it is what opens the session at the other side.                         *)
Answers ==
    /\ \A c \in Ids : wire[c].answer =>
         \A n \in Nodes : /\ c \notin backlog[n]
                          /\ \A fd \in Fds : end[n][fd] = c => role[n][fd] # "accepting"
    /\ \A n \in Nodes, fd \in Fds :
         role[n][fd] = "outgoing" => end[n][fd] # None /\ wire[end[n][fd]].answer

Used == {c \in Ids : \E n \in Nodes : OpenAt(n, c)}

(* A connection that nobody has is as new, and there are enough of them.   *)
IdsLeft ==
    /\ \A c \in Ids \ Used : ~wire[c].answer
    /\ Cardinality(Used) <= opened

Links == NetTypes /\ OneEnd /\ Sides /\ Answers /\ IdsLeft

IInv == Sound /\ Links

LEMMA UsedFinite == IsFiniteSet(Ids) /\ Cardinality(Ids) = MaxDials
                    /\ IsFiniteSet(Used) /\ Cardinality(Used) \in Nat
<1>1. MaxDials \in Nat
  BY NetworkAssumption
<1>2. IsFiniteSet(1 .. MaxDials) /\ Cardinality(1 .. MaxDials) = MaxDials
  BY <1>1, FS_Interval
<1>3. Used \in SUBSET Ids
  BY DEF Used
<1> QED
  BY <1>2, <1>3, FS_Subset, FS_CardinalityType DEF Ids

(* Used, pointwise.                                                        *)
LEMMA UsedMembers ==
  \A c : /\ c \in Used <=>
              /\ c \in Ids
              /\ \E n \in Nodes : c \in backlog[n] \/ \E fd \in Fds : end[n][fd] = c
         /\ c \in Used' <=>
              /\ c \in Ids
              /\ \E n \in Nodes : c \in backlog'[n] \/ \E fd \in Fds : end'[n][fd] = c
BY DEF Used, OpenAt, EndsAt

(* A new connection has a number that is not in use.                       *)
LEMMA NewIdIsNew ==
  ASSUME Sound, IdsLeft, opened < MaxDials
  PROVE  NewId \in Ids /\ NewId \notin Used
<1>1. Used # Ids
  BY UsedFinite, RoleTypes, NetworkAssumption DEF IdsLeft, opened
<1>2. PICK c \in Ids : \A n \in Nodes : ~OpenAt(n, c)
  BY <1>1 DEF Used
<1>3. NewId \in Ids /\ \A n \in Nodes : ~OpenAt(n, NewId)
  BY <1>2 DEF NewId
<1> QED
  BY <1>3 DEF Used

(* Fewer connections are in use.                                           *)
LEMMA UsedShrinks ==
  ASSUME IdsLeft, Used' \subseteq Used, opened' \in {opened, opened + 1}, opened \in Nat
  PROVE  (Cardinality(Used) <= opened)'
<1>1. Cardinality(Used') <= Cardinality(Used) /\ Cardinality(Used') \in Nat
  BY UsedFinite, FS_Subset, FS_CardinalityType
<1> QED
  BY <1>1, UsedFinite DEF IdsLeft

LEMMA InitLinks == Init => IInv
<1> SUFFICES ASSUME Init PROVE IInv
  OBVIOUS
<1>1. /\ Sound /\ opened = 0
      /\ \A n \in Nodes, fd \in Fds : role[n][fd] = "closed"
  BY StepsElsewhereA, StepsElsewhereB, NodeFacts DEF Init, Sound, opened, role
<1>2. NetTypes
  BY NetworkAssumption DEF Init, NetTypes, Wires, Fresh
<1>3. \A c \in Ids : c # None
  BY NetworkAssumption DEF Ids
<1>4. OneEnd /\ Sides
  BY <1>1, <1>3, NodeFacts DEF Init, OneEnd, Sides
<1>5. Answers
  BY <1>1, <1>3 DEF Init, Answers, Fresh
<1>6. Used = {}
  BY <1>3 DEF Init, Used, OpenAt, EndsAt
<1>7. IdsLeft
  BY <1>1, <1>6, FS_EmptySet DEF Init, IdsLeft, Fresh
<1> QED
  BY <1>1, <1>2, <1>4, <1>5, <1>7 DEF IInv, Links

(* A flag of a connection other than the answer is set.                    *)
LEMMA FlagStep ==
  ASSUME NetTypes, NEW c,
         \/ wire' = [wire EXCEPT ![c].notify = TRUE]
         \/ wire' = [wire EXCEPT ![c].broken = TRUE]
         \/ wire' = [wire EXCEPT ![c].cut = TRUE]
  PROVE  /\ wire' \in [Ids -> Wires]
         /\ \A d \in Ids : wire'[d].answer = wire[d].answer
<1>1. PICK w : wire' = [wire EXCEPT ![c] = w]
               /\ (c \in Ids => w \in Wires /\ w.answer = wire[c].answer)
  <2>1. CASE wire' = [wire EXCEPT ![c].notify = TRUE]
    <3> WITNESS [wire[c] EXCEPT !.notify = TRUE]
    <3>1. c \in Ids => wire[c] \in Wires
      BY DEF NetTypes
    <3> QED
      BY <2>1, <3>1 DEF Wires
  <2>2. CASE wire' = [wire EXCEPT ![c].broken = TRUE]
    <3> WITNESS [wire[c] EXCEPT !.broken = TRUE]
    <3>1. c \in Ids => wire[c] \in Wires
      BY DEF NetTypes
    <3> QED
      BY <2>2, <3>1 DEF Wires
  <2>3. CASE wire' = [wire EXCEPT ![c].cut = TRUE]
    <3> WITNESS [wire[c] EXCEPT !.cut = TRUE]
    <3>1. c \in Ids => wire[c] \in Wires
      BY DEF NetTypes
    <3> QED
      BY <2>3, <3>1 DEF Wires
  <2> QED
    BY <2>1, <2>2, <2>3
<1>2. wire \in [Ids -> Wires]
  BY DEF NetTypes
<1>3. wire' \in [Ids -> Wires] /\ \A d \in Ids : wire'[d].answer = wire[d].answer
  BY <1>1, <1>2
<1> QED
  BY <1>3

(* Dial: one end of a new connection, which waits at the other node.       *)
LEMMA DialStep ==
  ASSUME IInv, NEW n \in Nodes, NEW fd \in Fds, NEW c \in Ids \ Used,
         role[n][fd] = "closed", Becomes(n, fd, "dialling"), opened' = opened + 1,
         end' = [end EXCEPT ![n][fd] = c],
         backlog' = [backlog EXCEPT ![Other(n)] = @ \cup {c}],
         UNCHANGED <<wire, restarts>>
  PROVE  Links'
<1> USE NodeFacts DEF IInv, Links
<1>0. c \in Ids /\ c # None /\ role \in [Nodes -> [Fds -> Roles]]
  BY RoleTypes, NetworkAssumption DEF Ids
<1>1. /\ \A m \in Nodes, f \in Fds :
           /\ role'[m][f] = IF m = n /\ f = fd THEN "dialling" ELSE role[m][f]
           /\ end'[m][f] = IF m = n /\ f = fd THEN c ELSE end[m][f]
      /\ \A m \in Nodes : backlog'[m] = IF m = n THEN backlog[m] ELSE backlog[m] \cup {c}
      /\ wire' = wire
  BY <1>0 DEF Becomes, NetTypes
<1>2. \A m \in Nodes : c \notin backlog[m] /\ \A f \in Fds : end[m][f] # c
  BY UsedMembers
<1>3. end[n][fd] = None /\ \A d \in Ids : d # None
  BY NetworkAssumption DEF OneEnd, Ids
<1>4. NetTypes'
  BY <1>0 DEF NetTypes
<1>5. OneEnd'
  BY <1>0, <1>1, <1>2 DEF OneEnd
<1>6. Sides'
  BY <1>0, <1>1, <1>2 DEF Sides, Dials, Accepts
<1>7. Answers'
  <2>1. ~wire[c].answer
    BY DEF IdsLeft
  <2> QED
    BY <1>0, <1>1, <1>2, <2>1 DEF Answers
<1>8. IdsLeft'
  <2>1. Used' = Used \cup {c}
    <3>1. ASSUME NEW d \in Ids PROVE d \in Used' <=> d \in Used \/ d = c
      <4>1. d \in Used' <=> \E m \in Nodes : d \in backlog'[m] \/ \E f \in Fds : end'[m][f] = d
        BY UsedMembers
      <4>2. d \in Used <=> \E m \in Nodes : d \in backlog[m] \/ \E f \in Fds : end[m][f] = d
        BY UsedMembers
      <4>3. CASE d = c
        <5>1. end'[n][fd] = d
          BY <1>1, <4>3
        <5> QED
          BY <4>1, <4>3, <5>1
      <4>4. CASE d # c
        <5>1. \A m \in Nodes : d \in backlog'[m] <=> d \in backlog[m]
          BY <1>1, <4>4
        <5>2. ASSUME NEW m \in Nodes, NEW f \in Fds PROVE end'[m][f] = d <=> end[m][f] = d
          BY <1>1, <1>3, <4>4
        <5> QED
          BY <4>1, <4>2, <4>4, <5>1, <5>2
      <4> QED
        BY <4>3, <4>4
    <3> QED
      BY <1>0, <3>1 DEF Used
  <2>2. Cardinality(Used') = Cardinality(Used) + 1
    BY <2>1, UsedFinite, FS_AddElement
  <2>3. opened \in Nat
    BY RoleTypes DEF opened
  <2> QED
    BY <1>1, <2>1, <2>2, <2>3, UsedFinite DEF IdsLeft
<1> QED
  BY <1>4, <1>5, <1>6, <1>7, <1>8

(* A dial that makes no connection, and steps within a handshake that send *)
(* no answer.                                                              *)
LEMMA NoConnectionStep ==
  ASSUME IInv, NEW n \in Nodes, NEW fd \in Fds,
         \/ role' = role
         \/ role[n][fd] = "closed" /\ Becomes(n, fd, "dialling")
         \/ role[n][fd] = "answering" /\ Becomes(n, fd, "incoming"),
         opened' \in {opened, opened + 1},
         UNCHANGED <<end, backlog, restarts>>,
         wire' \in [Ids -> Wires],
         \A c \in Ids : wire'[c].answer = wire[c].answer
  PROVE  Links'
<1> USE NodeFacts DEF IInv, Links
<1>0. role \in [Nodes -> [Fds -> Roles]]
  BY RoleTypes
<1>1. \A m \in Nodes, f \in Fds :
        \/ role'[m][f] = role[m][f]
        \/ role[m][f] = "closed" /\ role'[m][f] = "dialling"
        \/ role[m][f] = "answering" /\ role'[m][f] = "incoming"
  BY <1>0 DEF Becomes
<1>2. \A m \in Nodes, f \in Fds : end[m][f] \in Ids \cup {None}
  BY DEF NetTypes
<1>3. NetTypes'
  BY DEF NetTypes
<1>4. OneEnd'
  BY <1>1 DEF OneEnd
<1>5. Sides'
  BY <1>1 DEF OneEnd, Sides, Dials, Accepts
<1>6. Answers'
  BY <1>1, <1>2 DEF Answers
<1>7. IdsLeft'
  <2>1. Used' = Used
    BY DEF Used, OpenAt, EndsAt
  <2>2. opened \in Nat
    BY RoleTypes DEF opened
  <2> QED
    BY <2>1, <2>2, UsedShrinks DEF IdsLeft
<1> QED
  BY <1>3, <1>4, <1>5, <1>6, <1>7

LEMMA AcceptStep ==
  ASSUME IInv, NEW n \in Nodes, NEW fd \in Fds, NEW c \in backlog[n],
         role[n][fd] = "closed", Becomes(n, fd, "accepting"), opened' = opened,
         end' = [end EXCEPT ![n][fd] = c],
         backlog' = [backlog EXCEPT ![n] = @ \ {c}],
         UNCHANGED <<wire, restarts>>
  PROVE  Links'
<1> USE NodeFacts DEF IInv, Links
<1>0. c \in Ids /\ c # None /\ role \in [Nodes -> [Fds -> Roles]]
  <2>1. c \in Ids
    BY DEF NetTypes
  <2> QED
    BY <2>1, RoleTypes, NetworkAssumption DEF Ids
<1>1. /\ \A m \in Nodes, f \in Fds :
           /\ role'[m][f] = IF m = n /\ f = fd THEN "accepting" ELSE role[m][f]
           /\ end'[m][f] = IF m = n /\ f = fd THEN c ELSE end[m][f]
      /\ \A m \in Nodes : backlog'[m] = IF m = n THEN backlog[m] \ {c} ELSE backlog[m]
      /\ wire' = wire
  BY <1>0 DEF Becomes, NetTypes
<1>2. \A f \in Fds : end[n][f] # c
  BY DEF OneEnd
<1>3. c \notin backlog[Other(n)]
      /\ \A f \in Fds : end[Other(n)][f] = c => Dials(role[Other(n)][f])
  BY DEF Sides
<1>4. end[n][fd] = None /\ \A d \in Ids : d # None
  BY NetworkAssumption DEF OneEnd, Ids
<1>5. NetTypes'
  BY <1>0 DEF NetTypes
<1>6. OneEnd'
  <2>1. ASSUME NEW m \in Nodes, NEW f \in Fds
        PROVE  /\ role'[m][f] = "closed" => end'[m][f] = None
               /\ end'[m][f] \notin backlog'[m]
    <3>1. role[m][f] = "closed" => end[m][f] = None
      BY DEF OneEnd
    <3>2. end[m][f] \notin backlog[m]
      BY DEF OneEnd
    <3>3. CASE m = n /\ f = fd
      <4>1. role'[m][f] = "accepting" /\ end'[m][f] = c /\ backlog'[m] = backlog[m] \ {c}
        BY <1>1, <3>3
      <4> QED
        BY <4>1
    <3>4. CASE ~(m = n /\ f = fd)
      BY <1>1, <3>1, <3>2, <3>4
    <3> QED
      BY <3>3, <3>4
  <2>2. ASSUME NEW m \in Nodes, NEW f \in Fds, end'[m][f] # None,
               NEW fe \in Fds, end'[m][fe] = end'[m][f]
        PROVE  fe = f
    BY <1>1, <1>2, <2>2 DEF OneEnd
  <2> QED
    BY <2>1, <2>2 DEF OneEnd
<1>7. Sides'
  BY <1>0, <1>1, <1>2, <1>3 DEF Sides, Dials, Accepts
<1>8. Answers'
  <2>1. ~wire[c].answer
    BY <1>0 DEF Answers
  <2> QED
    BY <1>0, <1>1, <1>2, <2>1 DEF Answers
<1>9. IdsLeft'
  <2>1. Used' = Used
    <3>1. ASSUME NEW d \in Ids PROVE d \in Used' <=> d \in Used
      <4>1. d \in Used' <=> \E m \in Nodes : d \in backlog'[m] \/ \E f \in Fds : end'[m][f] = d
        BY UsedMembers
      <4>2. d \in Used <=> \E m \in Nodes : d \in backlog[m] \/ \E f \in Fds : end[m][f] = d
        BY UsedMembers
      <4>3. CASE d = c
        <5>1. end'[n][fd] = d
          BY <1>1, <4>3
        <5> QED
          BY <4>1, <4>2, <4>3, <5>1
      <4>4. CASE d # c
        <5>1. \A m \in Nodes : d \in backlog'[m] <=> d \in backlog[m]
          BY <1>1, <4>4
        <5>2. ASSUME NEW m \in Nodes, NEW f \in Fds PROVE end'[m][f] = d <=> end[m][f] = d
          BY <1>1, <1>4, <4>4
        <5> QED
          BY <4>1, <4>2, <5>1, <5>2
      <4> QED
        BY <4>3, <4>4
    <3> QED
      BY <3>1 DEF Used
  <2>2. opened \in Nat
    BY RoleTypes DEF opened
  <2> QED
    BY <1>1, <2>1, <2>2, UsedShrinks DEF IdsLeft
<1> QED
  BY <1>5, <1>6, <1>7, <1>8, <1>9

LEMMA AnswerSentStep ==
  ASSUME IInv, NEW n \in Nodes, NEW fd \in Fds,
         role[n][fd] = "accepting", Becomes(n, fd, "answering"), opened' = opened,
         wire' = [wire EXCEPT ![end[n][fd]].answer = TRUE],
         UNCHANGED <<end, backlog, restarts>>
  PROVE  Links'
<1> USE NodeFacts DEF IInv, Links
<1>0. role \in [Nodes -> [Fds -> Roles]] /\ end[n][fd] \in Ids \cup {None}
  BY RoleTypes DEF NetTypes
<1>1. /\ \A m \in Nodes, f \in Fds :
           role'[m][f] = IF m = n /\ f = fd THEN "answering" ELSE role[m][f]
      /\ \A d \in Ids : wire'[d].answer = IF d = end[n][fd] THEN TRUE ELSE wire[d].answer
      /\ end' = end /\ backlog' = backlog
  BY <1>0 DEF Becomes, NetTypes
<1>2. NetTypes'
  <2> DEFINE w == [wire[end[n][fd]] EXCEPT !.answer = TRUE]
  <2>1. wire' = [wire EXCEPT ![end[n][fd]] = w]
    OBVIOUS
  <2>2. wire \in [Ids -> Wires]
    BY DEF NetTypes
  <2>3. \A v \in Wires : [v EXCEPT !.answer = TRUE] \in Wires
    BY DEF Wires
  <2>4. end[n][fd] \in Ids => w \in Wires
    BY <2>2, <2>3
  <2> HIDE DEF w
  <2>5. wire' \in [Ids -> Wires]
    BY <2>1, <2>2, <2>4
  <2> QED
    BY <2>5 DEF NetTypes
<1>3. OneEnd'
  BY <1>1 DEF OneEnd
<1>4. Sides'
  BY <1>1 DEF Sides, Dials, Accepts
<1>5. Answers'
  <2>1. ASSUME end[n][fd] \in Ids, NEW m \in Nodes
        PROVE  /\ end[n][fd] \notin backlog[m]
               /\ \A f \in Fds : end[m][f] = end[n][fd] => role'[m][f] # "accepting"
    <3>1. end[n][fd] # None
      BY <2>1, NetworkAssumption DEF Ids
    <3>2. CASE m = n
      BY <1>1, <3>1, <3>2 DEF OneEnd
    <3>3. CASE m = Other(n)
      BY <1>1, <3>1, <3>3 DEF Sides, Dials, Accepts
    <3> QED
      BY <3>2, <3>3
  <2>2. \A m \in Nodes, f \in Fds : end[m][f] \in Ids \cup {None}
    BY DEF NetTypes
  <2> QED
    BY <1>1, <2>1, <2>2 DEF Answers
<1>6. IdsLeft'
  <2>1. Used' = Used
    BY DEF Used, OpenAt, EndsAt
  <2>2. opened \in Nat
    BY RoleTypes DEF opened
  <2>3. \A d \in Ids \ Used : d # end[n][fd]
    BY UsedMembers
  <2> QED
    BY <1>1, <2>1, <2>2, <2>3, UsedShrinks DEF IdsLeft
<1> QED
  BY <1>2, <1>3, <1>4, <1>5, <1>6

LEMMA AnswerReceivedStep ==
  ASSUME IInv, NEW n \in Nodes, NEW fd \in Fds,
         role[n][fd] = "dialling", Becomes(n, fd, "outgoing"), opened' = opened,
         end[n][fd] # None, wire[end[n][fd]].answer,
         UNCHANGED <<end, backlog, wire, restarts>>
  PROVE  Links'
<1> USE NodeFacts DEF IInv, Links
<1>0. role \in [Nodes -> [Fds -> Roles]]
  BY RoleTypes
<1>1. \A m \in Nodes, f \in Fds :
        role'[m][f] = IF m = n /\ f = fd THEN "outgoing" ELSE role[m][f]
  BY <1>0 DEF Becomes
<1>2. NetTypes'
  BY DEF NetTypes
<1>3. OneEnd'
  BY <1>1 DEF OneEnd
<1>4. Sides'
  BY <1>1 DEF Sides, Dials, Accepts
<1>5. Answers'
  BY <1>1 DEF Answers
<1>6. IdsLeft'
  <2>1. Used' = Used
    BY DEF Used, OpenAt, EndsAt
  <2>2. opened \in Nat
    BY RoleTypes DEF opened
  <2> QED
    BY <2>1, <2>2, UsedShrinks DEF IdsLeft
<1> QED
  BY <1>2, <1>3, <1>4, <1>5, <1>6

(* Failures, CloseSession and restarts.                                    *)
LEMMA CloseStep ==
  ASSUME IInv, NEW n \in Nodes, NEW fds \in SUBSET Fds, Closed(n, fds), opened' = opened,
         CloseEnds(n, fds), restarts' \in 0 .. MaxRestarts,
         \/ UNCHANGED backlog
         \/ backlog' = [backlog EXCEPT ![n] = {}]
  PROVE  Links'
<1> USE NodeFacts DEF IInv, Links
<1>0. /\ role \in [Nodes -> [Fds -> Roles]]
      /\ \A m \in Nodes, f \in Fds : end[m][f] \in Ids \cup {None}
      /\ None \notin Ids
  BY RoleTypes, NetworkAssumption DEF NetTypes, Ids
<1>1. /\ \A m \in Nodes, f \in Fds :
           IF m = n /\ f \in fds THEN role'[m][f] = "closed" /\ end'[m][f] = None
           ELSE role'[m][f] = role[m][f] /\ end'[m][f] = end[m][f]
      /\ \A m \in Nodes : backlog'[m] \subseteq backlog[m]
  BY <1>0 DEF Closed, CloseEnds, NetTypes
<1>2. \A c \in Ids : wire'[c] = IF c \in Used' THEN wire[c] ELSE Fresh
  BY DEF CloseEnds, Used
<1>3. NetTypes'
  <2>1. end' \in [Nodes -> [Fds -> Ids \cup {None}]] /\ backlog' \in [Nodes -> SUBSET Ids]
    BY <1>0 DEF CloseEnds, NetTypes
  <2>2. Fresh \in Wires
    BY DEF Fresh, Wires
  <2>3. wire' = [c \in Ids |-> wire'[c]]
    BY DEF CloseEnds
  <2>4. wire' \in [Ids -> Wires]
    BY <1>2, <2>2, <2>3 DEF NetTypes
  <2> QED
    BY <2>1, <2>4 DEF NetTypes
<1>4. OneEnd'
  <2>1. \A m \in Nodes, f \in Fds : end'[m][f] = None => end'[m][f] \notin backlog'[m]
    BY <1>0, <1>1 DEF NetTypes
  <2> QED
    BY <1>1, <2>1 DEF OneEnd
<1>5. Sides'
  <2>1. \A m \in Nodes : None \notin backlog'[m]
    <3> TAKE m \in Nodes
    <3>1. backlog[m] \subseteq Ids
      BY DEF NetTypes
    <3>2. backlog'[m] \subseteq backlog[m]
      BY <1>1
    <3> QED
      BY <1>0, <3>1, <3>2
  <2> QED
    BY <1>1, <2>1 DEF Sides, Dials, Accepts
<1>6. Answers'
  <2>1. \A c \in Ids : wire'[c].answer => wire[c].answer
    BY <1>2 DEF Fresh
  <2>2. ASSUME NEW m \in Nodes, NEW f \in Fds, role'[m][f] = "outgoing"
        PROVE  end'[m][f] # None /\ wire'[end'[m][f]].answer
    <3>1. role[m][f] = "outgoing" /\ end'[m][f] = end[m][f] /\ end[m][f] # None
          /\ wire[end[m][f]].answer
      BY <1>1, <2>2 DEF Answers
    <3>2. end'[m][f] \in Ids /\ end'[m][f] \in Used'
      BY <1>0, <3>1, UsedMembers DEF Used, OpenAt, EndsAt
    <3> QED
      BY <1>2, <3>1, <3>2
  <2>3. ASSUME NEW c \in Ids, wire'[c].answer, NEW m \in Nodes
        PROVE  /\ c \notin backlog'[m]
               /\ \A f \in Fds : end'[m][f] = c => role'[m][f] # "accepting"
    BY <1>0, <1>1, <2>1, <2>3 DEF Answers
  <2> QED
    BY <2>2, <2>3 DEF Answers
<1>7. IdsLeft'
  <2>1. Used' \subseteq Used
    BY <1>0, <1>1 DEF Used, OpenAt, EndsAt
  <2>2. opened \in Nat
    BY RoleTypes DEF opened
  <2>3. \A c \in Ids \ Used' : ~wire'[c].answer
    BY <1>2 DEF Fresh
  <2> QED
    BY <2>1, <2>2, <2>3, UsedShrinks DEF IdsLeft
<1> QED
  BY <1>3, <1>4, <1>5, <1>6, <1>7

LEMMA NextIInv == IInv /\ [Next]_vars => IInv'
<1> SUFFICES ASSUME IInv, [Next]_vars PROVE IInv'
  OBVIOUS
<1> USE NodeFacts
<1>0. Sound /\ opened \in Nat /\ role \in [Nodes -> [Fds -> Roles]]
  BY RoleTypes DEF IInv, opened
<1>1. ASSUME NEW n \in Nodes, Dial(n) PROVE IInv'
  <2>1. PICK fd \in Fds :
          /\ At(n, NodeA!Connect(B, fd, B), NodeB!Connect(A, fd, A))
          /\ end' = [end EXCEPT ![n][fd] = NewId]
    BY <1>1 DEF Dial, NewFd
  <2>2. NewId \in Ids \ Used
    BY <1>0, <1>1, NewIdIsNew DEF Dial, opened, IInv, Links
  <2>3. Sound' /\ role[n][fd] = "closed" /\ Becomes(n, fd, "dialling")
        /\ opened' = opened + 1
    BY <1>0, <2>1, RoleSteps
  <2>4. Links'
    BY <1>1, <2>1, <2>2, <2>3, DialStep DEF Dial
  <2> QED
    BY <2>3, <2>4 DEF IInv
<1>2. ASSUME NEW n \in Nodes, DialFails(n) PROVE IInv'
  <2>1. PICK fd \in Fds :
          At(n, NodeA!ConnectFails(B, fd) \/ NodeA!OpenRefused,
                NodeB!ConnectFails(A, fd) \/ NodeB!OpenRefused)
    BY <1>2 DEF DialFails, NewFd
  <2>2. /\ Sound' /\ opened' = opened + 1
        /\ role' = role \/ (role[n][fd] = "closed" /\ Becomes(n, fd, "dialling"))
    BY <1>0, <2>1, RoleSteps
  <2>3. UNCHANGED <<end, backlog, restarts, wire>> /\ NetTypes
    BY <1>2 DEF DialFails, net, IInv, Links
  <2>4. Links'
    BY <1>0, <2>2, <2>3, NoConnectionStep DEF NetTypes
  <2> QED
    BY <2>2, <2>4 DEF IInv
<1>3. ASSUME NEW n \in Nodes, Accept(n) PROVE IInv'
  <2>1. PICK fd \in Fds, c \in backlog[n] :
          /\ At(n, NodeA!AcceptConn(fd, B), NodeB!AcceptConn(fd, A))
          /\ backlog' = [backlog EXCEPT ![n] = @ \ {c}]
          /\ end' = [end EXCEPT ![n][fd] = c]
          /\ UNCHANGED <<wire, restarts>>
    BY <1>3 DEF Accept, NewFd
  <2>2. Sound' /\ role[n][fd] = "closed" /\ Becomes(n, fd, "accepting") /\ opened' = opened
    BY <1>0, <2>1, RoleSteps
  <2>3. Links'
    BY <2>1, <2>2, AcceptStep
  <2> QED
    BY <2>2, <2>3 DEF IInv
<1>4. ASSUME NEW n \in Nodes, LinkLost(n) \/ Restart(n) PROVE IInv'
  <2> DEFINE fds == IF LinkLost(n) THEN {fd \in Fds : phase'[n][fd] = "closed"} ELSE Fds
  <2>1. /\ Sound' /\ Closed(n, fds) /\ opened' = opened
        /\ CloseEnds(n, fds)
    BY <1>0, <1>4, RoleStepsElsewhere DEF LinkLost, Restart
  <2>2. /\ restarts' \in 0 .. MaxRestarts
        /\ UNCHANGED backlog \/ backlog' = [backlog EXCEPT ![n] = {}]
    BY <1>4, NetworkAssumption DEF LinkLost, Restart, IInv, Links, NetTypes
  <2>3. fds \in SUBSET Fds
    OBVIOUS
  <2> HIDE DEF fds
  <2>4. Links'
    BY <2>1, <2>2, <2>3, CloseStep
  <2> QED
    BY <2>1, <2>4 DEF IInv
<1>5. ASSUME NEW n \in Nodes, NEW fd \in Fds, SendNotify(n, fd) PROVE IInv'
  <2>1. Sound' /\ role' = role /\ opened' = opened
    BY <1>0, <1>5, RoleSteps DEF SendNotify
  <2>2. /\ wire' \in [Ids -> Wires]
        /\ \A c \in Ids : wire'[c].answer = wire[c].answer
        /\ UNCHANGED <<end, backlog, restarts>>
    BY <1>5, FlagStep DEF SendNotify, IInv, Links
  <2>3. Links'
    BY <1>0, <2>1, <2>2, NoConnectionStep
  <2> QED
    BY <2>1, <2>3 DEF IInv
<1>6. ASSUME NEW n \in Nodes, NEW fd \in Fds, RecvNotify(n, fd) PROVE IInv'
  <2>1. Sound' /\ role' = role /\ opened' = opened
    BY <1>0, <1>6, RoleSteps DEF RecvNotify
  <2>2. UNCHANGED <<end, backlog, restarts, wire>> /\ NetTypes
    BY <1>6 DEF RecvNotify, net, IInv, Links
  <2>3. Links'
    BY <1>0, <2>1, <2>2, NoConnectionStep DEF NetTypes
  <2> QED
    BY <2>1, <2>3 DEF IInv
<1>7. ASSUME NEW n \in Nodes, NEW fd \in Fds, SendAnswer(n, fd) PROVE IInv'
  <2>1. Sound' /\ role[n][fd] = "accepting" /\ Becomes(n, fd, "answering")
        /\ opened' = opened
    BY <1>0, <1>7, RoleSteps DEF SendAnswer
  <2>2. Links'
    BY <1>7, <2>1, AnswerSentStep DEF SendAnswer
  <2> QED
    BY <2>1, <2>2 DEF IInv
<1>13. ASSUME NEW n \in Nodes, NEW fd \in Fds, AnswerDone(n, fd) PROVE IInv'
  <2>1. Sound' /\ role[n][fd] = "answering" /\ Becomes(n, fd, "incoming")
        /\ opened' = opened
    BY <1>0, <1>13, RoleSteps DEF AnswerDone
  <2>2. UNCHANGED <<end, backlog, restarts, wire>> /\ NetTypes
    BY <1>13 DEF AnswerDone, net, IInv, Links
  <2>3. Links'
    BY <1>0, <2>1, <2>2, NoConnectionStep DEF NetTypes
  <2> QED
    BY <2>1, <2>3 DEF IInv
<1>8. ASSUME NEW n \in Nodes, NEW fd \in Fds, RecvAnswer(n, fd) PROVE IInv'
  <2>1. Sound' /\ role[n][fd] = "dialling" /\ Becomes(n, fd, "outgoing") /\ opened' = opened
    BY <1>0, <1>8, RoleSteps DEF RecvAnswer
  <2>2. UNCHANGED <<end, backlog, restarts, wire>>
    BY <1>8 DEF RecvAnswer, net
  <2>3. Links'
    BY <1>8, <2>1, <2>2, AnswerReceivedStep DEF RecvAnswer
  <2> QED
    BY <2>1, <2>3 DEF IInv
<1>9. ASSUME NEW n \in Nodes, NEW fd \in Fds, Fail(n, fd) PROVE IInv'
  <2>1. Sound' /\ Closed(n, {fd}) /\ opened' = opened
    BY <1>0, <1>9, RoleSteps DEF Fail
  <2>2. restarts' \in 0 .. MaxRestarts /\ UNCHANGED backlog /\ CloseEnds(n, {fd})
    BY <1>9 DEF Fail, IInv, Links, NetTypes
  <2>3. Links'
    BY <2>1, <2>2, CloseStep
  <2> QED
    BY <2>1, <2>3 DEF IInv
<1>10. ASSUME UNCHANGED <<varsA, varsB, end, backlog, restarts>>,
              wire' \in [Ids -> Wires],
              \A c \in Ids : wire'[c].answer = wire[c].answer
       PROVE  IInv'
  <2>1. Sound' /\ role' = role /\ opened' = opened
    BY <1>0, <1>10, StepsElsewhereA, StepsElsewhereB DEF Sound, role, opened
  <2>2. ASSUME NEW n \in Nodes, NEW fd \in Fds PROVE Links'
    BY <1>0, <1>10, <2>1, NoConnectionStep
  <2>3. ASSUME Fds = {} PROVE Links'
    <3>1. UNCHANGED <<role, opened, Used>>
      BY <1>10, <2>1 DEF Used, OpenAt, EndsAt
    <3> QED
      BY <1>10, <2>3, <3>1 DEF IInv, Links, NetTypes, OneEnd, Sides, Answers, IdsLeft
  <2> QED
    BY <2>1, <2>2, <2>3 DEF IInv
<1>11. ASSUME NEW c \in Ids, Break(c) \/ Cut(c) PROVE IInv'
  <2>1. /\ wire' \in [Ids -> Wires]
        /\ \A d \in Ids : wire'[d].answer = wire[d].answer
    BY <1>11, FlagStep DEF Break, Cut, IInv, Links
  <2> QED
    BY <1>10, <1>11, <2>1 DEF Break, Cut
<1>14. ASSUME NEW n \in Nodes, NEW fd \in Fds, Drain(n, fd) PROVE IInv'
  BY <1>10, <1>14 DEF Drain, IInv, Links, NetTypes
<1>12. CASE UNCHANGED vars
  BY <1>10, <1>12 DEF vars, net, IInv, Links, NetTypes
<1> QED
  BY <1>1, <1>2, <1>3, <1>4, <1>5, <1>6, <1>7, <1>8, <1>9, <1>11, <1>12, <1>13,
     <1>14 DEF Next, Handle

LEMMA SpecIInv == FairSpec => []IInv
  BY InitLinks, NextIInv, PTL DEF FairSpec

(* Which descriptors are deaf is a matter of types.                        *)
LEMMA SpecReaders ==
  FairSpec => [](stale \in [Nodes -> SUBSET Fds] /\ deaf \in [Nodes -> SUBSET Fds])
<1> DEFINE Readers == stale \in [Nodes -> SUBSET Fds] /\ deaf \in [Nodes -> SUBSET Fds]
<1>1. Init => Readers
  BY DEF Init
<1>2. Readers /\ [Next]_vars => Readers'
  <2> SUFFICES ASSUME Readers, [Next]_vars PROVE Readers'
    OBVIOUS
  <2>1. CASE UNCHANGED <<stale, deaf>>
    BY <2>1
  <2>2. ASSUME NEW n \in Nodes, NEW fds, CloseEnds(n, fds),
               NEW S \in SUBSET Fds, stale' = [stale EXCEPT ![n] = S]
        PROVE  Readers'
    BY <2>2 DEF CloseEnds
  <2>3. ASSUME NEW n \in Nodes, LinkLost(n) PROVE Readers'
    <3>1. PICK S : stale' = [stale EXCEPT ![n] = S] /\ S \in SUBSET Fds
      <4> DEFINE lost == {fd \in Fds \ deaf[n] : /\ phase[n][fd] = "established"
                                                /\ phase'[n][fd] = "closed"}
      <4>1. stale' = [stale EXCEPT ![n] = stale[n] \cup lost]
        BY <2>3 DEF LinkLost
      <4>2. stale[n] \cup lost \in SUBSET Fds
        OBVIOUS
      <4> HIDE DEF lost
      <4> QED
        BY <4>1, <4>2
    <3>2. PICK fds : CloseEnds(n, fds)
      BY <2>3 DEF LinkLost
    <3> QED
      BY <2>2, <3>1, <3>2
  <2>4. ASSUME NEW n \in Nodes, Restart(n) PROVE Readers'
    <3>1. stale' = [stale EXCEPT ![n] = {}] /\ CloseEnds(n, Fds)
      BY <2>4 DEF Restart
    <3>2. {} \in SUBSET Fds
      OBVIOUS
    <3> QED
      BY <2>2, <3>1, <3>2
  <2>5. ASSUME NEW n \in Nodes, NEW fd \in Fds, Fail(n, fd) PROVE Readers'
    BY <2>5 DEF Fail, CloseEnds
  <2>6. ASSUME NEW n \in Nodes, NEW fd \in Fds, Drain(n, fd) PROVE Readers'
    BY <2>6 DEF Drain
  <2> QED
    BY <2>1, <2>3, <2>4, <2>5, <2>6
       DEF Next, vars, net, Dial, DialFails, Accept, Handle, SendNotify, RecvNotify,
           SendAnswer, AnswerDone, RecvAnswer, Break, Cut
<1> QED
  BY <1>1, <1>2, PTL DEF FairSpec

(* The types, and closed descriptors are ends of nothing.                  *)
THEOREM TypeCorrect == FairSpec => []TypeOK
<1>1. /\ IInv /\ stale \in [Nodes -> SUBSET Fds] /\ deaf \in [Nodes -> SUBSET Fds]
      => TypeOK
  <2> SUFFICES ASSUME IInv, stale \in [Nodes -> SUBSET Fds], deaf \in [Nodes -> SUBSET Fds]
               PROVE  TypeOK
    OBVIOUS
  <2>1. NodeA!TypeOK /\ NodeB!TypeOK
    BY SameTypes DEF IInv, Sound
  <2> QED
    BY <2>1, RoleTypes DEF IInv, Links, NetTypes, OneEnd, TypeOK
<1> QED
  BY <1>1, SpecIInv, SpecReaders, PTL

(* The hello exchange, for every number of connections, descriptors,       *)
(* restarts and late destructors: when a node reports an outgoing session, *)
(* the node at the other end has sent its answer, and has reported the     *)
(* incoming session or is in the callback that does, unless it has closed  *)
(* its end meanwhile.                                                      *)
THEOREM SessionAlwaysShared == FairSpec => []SessionIsShared
<1>1. IInv => SessionIsShared
  <2> SUFFICES ASSUME IInv, NEW n \in Nodes, NEW fd \in Sessions(n, "OUTGOING")
               PROVE  /\ end[n][fd] \notin backlog[Other(n)]
                      /\ EndsAt(Other(n), end[n][fd]) \subseteq
                           Sessions(Other(n), "INCOMING")
                             \cup {fe \in Fds : phase[Other(n)][fe] = "answered"}
    BY DEF SessionIsShared
  <2> USE NodeFacts DEF IInv, Links
  <2>1. fd \in Fds /\ role[n][fd] = "outgoing"
    BY RoleTypes DEF Sessions
  <2>2. end[n][fd] \in Ids /\ end[n][fd] # None /\ wire[end[n][fd]].answer
    BY <2>1 DEF Answers, NetTypes
  <2>3. end[n][fd] \notin backlog[Other(n)]
    BY <2>2 DEF Answers
  <2>4. ASSUME NEW fe \in Fds, end[Other(n)][fe] = end[n][fd]
        PROVE  role[Other(n)][fe] \in {"answering", "incoming"}
    BY <2>1, <2>2, <2>4 DEF Answers, Sides, Dials, Accepts
  <2> QED
    BY <2>3, <2>4, RoleTypes DEF EndsAt
<1> QED
  BY <1>1, SpecIInv, PTL

(* The notifications of a node count the sessions that it has.             *)
LEMMA BalanceCounts ==
  ASSUME Sound, NEW n \in Nodes, NEW dir \in {"INCOMING", "OUTGOING"}
  PROVE  /\ IsFiniteSet(Sessions(n, dir))
         /\ balance[n][<<Other(n), dir>>] = Cardinality(Sessions(n, dir))
<1> USE NodeFacts
<1>1. Sessions(n, dir) \in SUBSET Fds
  BY DEF Sessions
<1>2. IsFiniteSet(Sessions(n, dir))
  BY <1>1, NetworkAssumption, FS_Subset
<1>3. CASE n = A
  <2>1. <<B, dir>> \in PA!Conns
    BY DEF PA!Conns, PA!Directions
  <2>5. <<B, dir>> # None
    BY NetworkAssumption
  <2>2. balanceA[<<B, dir>>] = PA!Cardinality(PA!SessionsOf(<<B, dir>>)) - 0
    BY <2>1, <2>5 DEF Sound, PA!Sound, PA!NotificationsBalance
  <2>3. PA!SessionsOf(<<B, dir>>) = Sessions(A, dir)
    BY DEF PA!SessionsOf, Sessions, Other
  <2>4. \A S : PA!Cardinality(S) = Cardinality(S)
    BY DEF PA!Cardinality, Cardinality
  <2>6. Cardinality(Sessions(A, dir)) \in Nat
    BY <1>2, <1>3, FS_CardinalityType
  <2>7. balanceA[<<B, dir>>] = Cardinality(Sessions(A, dir))
    BY <2>2, <2>3, <2>4, <2>6
  <2> QED
    BY <1>2, <1>3, <2>7 DEF balance, Other
<1>4. CASE n = B
  <2>1. <<A, dir>> \in PB!Conns
    BY DEF PB!Conns, PB!Directions
  <2>5. <<A, dir>> # None
    BY NetworkAssumption
  <2>2. balanceB[<<A, dir>>] = PB!Cardinality(PB!SessionsOf(<<A, dir>>)) - 0
    BY <2>1, <2>5 DEF Sound, PB!Sound, PB!NotificationsBalance
  <2>3. PB!SessionsOf(<<A, dir>>) = Sessions(B, dir)
    BY DEF PB!SessionsOf, Sessions, Other
  <2>4. \A S : PB!Cardinality(S) = Cardinality(S)
    BY DEF PB!Cardinality, Cardinality
  <2>6. Cardinality(Sessions(B, dir)) \in Nat
    BY <1>2, <1>4, FS_CardinalityType
  <2>7. balanceB[<<A, dir>>] = Cardinality(Sessions(B, dir))
    BY <2>2, <2>3, <2>4, <2>6
  <2> QED
    BY <1>2, <1>4, <2>7 DEF balance, Other
<1> QED
  BY <1>3, <1>4

(* Once all is quiet, a session at one node has its other end in a session *)
(* at the other node.                                                      *)
LEMMA QuietEnds ==
  ASSUME IInv, Quiet, NEW n \in Nodes, NEW fd \in Fds,
         role[n][fd] \in {"outgoing", "incoming"}
  PROVE  /\ end[n][fd] # None
         /\ \E fe \in Fds : end[Other(n)][fe] = end[n][fd]
         /\ \A fe \in Fds : end[Other(n)][fe] = end[n][fd] =>
              role[Other(n)][fe] = IF role[n][fd] = "outgoing" THEN "incoming" ELSE "outgoing"
<1> USE NodeFacts DEF IInv, Links
<1>1. phase[n][fd] = "established" /\ ~Dead(n, fd)
  BY RoleTypes DEF Quiet, AtRest
<1>2. end[n][fd] # None /\ OpenAt(Other(n), end[n][fd])
  BY <1>1 DEF Dead
<1>3. backlog[Other(n)] = {}
  BY DEF Quiet
<1>4. \E fe \in Fds : end[Other(n)][fe] = end[n][fd]
  BY <1>2, <1>3 DEF OpenAt, EndsAt
<1>5. ASSUME NEW fe \in Fds, end[Other(n)][fe] = end[n][fd]
      PROVE  role[Other(n)][fe] = IF role[n][fd] = "outgoing" THEN "incoming" ELSE "outgoing"
  <2>1. role[Other(n)][fe] # "closed"
    BY <1>2, <1>5 DEF OneEnd
  <2>2. phase[Other(n)][fe] = "established"
    BY <2>1, RoleTypes DEF Quiet, AtRest
  <2>3. role[Other(n)][fe] \in {"outgoing", "incoming"}
    BY <2>2, RoleTypes
  <2>4. Dials(role[n][fd]) <=> Accepts(role[Other(n)][fe])
    BY <1>2, <1>5 DEF Sides
  <2> QED
    BY <2>3, <2>4 DEF Dials, Accepts
<1> QED
  BY <1>2, <1>4, <1>5

LEMMA QuietSessions ==
  ASSUME IInv, Quiet, NEW n \in Nodes
  PROVE  Cardinality(Sessions(n, "OUTGOING")) = Cardinality(Sessions(Other(n), "INCOMING"))
<1> USE NodeFacts
<1> DEFINE o == Other(n)
           S == Sessions(n, "OUTGOING")
           T == Sessions(o, "INCOMING")
           f == [fd \in S |-> CHOOSE fe \in T : end[o][fe] = end[n][fd]]
<1>1. Sound /\ OneEnd
  BY DEF IInv, Links
<1>2. /\ S = {fd \in Fds : role[n][fd] = "outgoing"}
      /\ T = {fd \in Fds : role[o][fd] = "incoming"}
  <2>1. S \subseteq Fds /\ T \subseteq Fds
    BY DEF Sessions
  <2> QED
    BY <1>1, <2>1, RoleTypes
<1> HIDE DEF S, T
<1>3. ASSUME NEW fd \in S
      PROVE  end[n][fd] # None /\ \E fe \in T : end[o][fe] = end[n][fd]
  BY <1>2, <1>3, QuietEnds
<1>4. ASSUME NEW fe \in T
      PROVE  end[o][fe] # None /\ \E fd \in S : end[n][fd] = end[o][fe]
  BY <1>2, <1>4, QuietEnds
<1>5. \A fd \in S : f[fd] \in T /\ end[o][f[fd]] = end[n][fd]
  BY <1>3
<1>6. f \in [S -> T]
  BY <1>5
<1>7. ASSUME NEW fd \in S, NEW fe \in S, f[fd] = f[fe] PROVE fd = fe
  <2>1. end[n][fd] = end[n][fe] /\ end[n][fd] # None /\ fd \in Fds /\ fe \in Fds
    BY <1>2, <1>3, <1>5, <1>7
  <2> QED
    BY <1>1, <2>1 DEF OneEnd
<1>8. ASSUME NEW fe \in T PROVE \E fd \in S : f[fd] = fe
  <2>1. PICK fd \in S : end[n][fd] = end[o][fe]
    BY <1>4
  <2>2. end[o][f[fd]] = end[o][fe] /\ f[fd] \in Fds /\ fe \in Fds /\ end[o][fe] # None
    BY <1>2, <1>4, <1>5, <2>1
  <2>3. f[fd] = fe
    BY <1>1, <2>2 DEF OneEnd
  <2> QED
    BY <2>3
<1> HIDE DEF f
<1>9. f \in Bijection(S, T)
  BY <1>6, <1>7, <1>8 DEF Bijection, Injection, Surjection, IsInjective
<1>10. IsFiniteSet(S)
  BY <1>1, BalanceCounts DEF S
<1>11. Cardinality(T) = Cardinality(S)
  BY <1>9, <1>10, FS_Bijection DEF ExistsBijection
<1> QED
  BY <1>11 DEF S, T

(* OnLinkEstablishing and OnLinkClosed at two nodes, for every number of   *)
(* connections, descriptors and restarts: once nothing is under way and    *)
(* everybody has noticed what is closed, the managers of both nodes have   *)
(* been told of the same sessions.                                         *)
THEOREM SessionsAlwaysAgree == FairSpec => []SessionsAgree
<1>1. IInv => SessionsAgree
  <2> SUFFICES ASSUME IInv, Quiet, NEW n \in Nodes
               PROVE  balance[n][<<Other(n), "OUTGOING">>]
                        = balance[Other(n)][<<n, "INCOMING">>]
    BY DEF SessionsAgree
  <2>1. Sound /\ Other(n) \in Nodes /\ Other(Other(n)) = n
    BY NodeFacts DEF IInv
  <2>2. balance[n][<<Other(n), "OUTGOING">>] = Cardinality(Sessions(n, "OUTGOING"))
    BY <2>1, BalanceCounts
  <2>3. balance[Other(n)][<<n, "INCOMING">>] = Cardinality(Sessions(Other(n), "INCOMING"))
    BY <2>1, BalanceCounts
  <2> QED
    BY <2>2, <2>3, QuietSessions
<1> QED
  BY <1>1, SpecIInv, PTL
=============================================================================

---------------------- MODULE BroadcastManagerProofs ----------------------
(***************************************************************************)
(* The invariants of BroadcastManager hold for every set of peers,         *)
(* addresses, interfaces and descriptors and for every delay.  None of     *)
(* them is inductive by itself: the types need the tables to agree (a      *)
(* timer event is attributed through fdToPeer, an incoming hello through   *)
(* the event that announced it), FoundIsTracked and TimerTracksSilence     *)
(* need that two peers never share a timer and that a free descriptor      *)
(* carries no old expiry.  Their conjunction is inductive.                 *)
(***************************************************************************)
EXTENDS BroadcastManager, TLAPS

(* The inductive invariant.                                                *)
IInv == TypeOK /\ TablesConsistent /\ FoundIsTracked /\ TimerTracksSilence

LEMMA InitIInv == Init => IInv
<1> SUFFICES ASSUME Init PROVE IInv
  OBVIOUS
<1> USE ConstantsAssumption DEF Init
<1>1. TypeOK
  <2>1. /\ left \in [Fds -> 0 .. LostDelay]
        /\ age \in [Peers -> 0 .. LostDelay]
    OBVIOUS
  <2>2. /\ inbox \in Seq(Hellos \cup {Junk})
        /\ mgr \in [Peers -> Notices]
    BY DEF Notices
  <2> QED
    BY <2>1, <2>2 DEF TypeOK
<1>2. TablesConsistent
  BY DEF TablesConsistent, Tracked
<1>3. FoundIsTracked
  BY DEF FoundIsTracked
<1>4. TimerTracksSilence
  BY DEF TimerTracksSilence, Tracked
<1> QED
  BY <1>1, <1>2, <1>3, <1>4 DEF IInv

(* ProcessHello, called for a datagram or for an accepted connection,      *)
(* keeps the invariant: it refreshes a timer, sets up a new one or changes *)
(* no table.                                                               *)
LEMMA HelloStep ==
  ASSUME IInv, NEW m \in Hellos, NEW needNotify \in BOOLEAN,
         ProcessHello(m, needNotify),
         age' \in [Peers -> 0 .. LostDelay],
         \A p \in Peers : p # m.id => age'[p] = age[p],
         batch' \subseteq batch,
         "tcp" \in batch' => tcpHello' # None,
         inbox' \in Seq(Hellos \cup {Junk}),
         tcpHello' \in [id : Peers, addr : Addrs] \cup {None},
         UNCHANGED <<announce, netUp, nlReady>>
  PROVE  IInv'
<1> USE ConstantsAssumption DEF IInv
<1>1. m.id \in Peers \cup {Self} /\ m.addr \in Addrs
  BY DEF Hellos
<1>2. CASE IgnoreOwn(m.id)
  <2> USE <1>1, <1>2 DEF IgnoreOwn, tables
  <2>1. TypeOK'
    BY DEF TypeOK
  <2>2. TablesConsistent'
    BY DEF TablesConsistent, Tracked
  <2>3. FoundIsTracked'
    BY DEF FoundIsTracked, Tracked
  <2>4. TimerTracksSilence'
    BY DEF TimerTracksSilence, Tracked
  <2> QED
    BY <2>1, <2>2, <2>3, <2>4
<1>3. CASE m.id \in Peers /\ RefreshPeer(m.id)
  <2>1. peerToFd[m.id] \in Fds
    BY <1>3 DEF RefreshPeer, TypeOK
  <2> USE <1>3, <2>1 DEF RefreshPeer, SetTimer, tables
  <2>2. TypeOK'
    BY DEF TypeOK
  <2>3. TablesConsistent'
    BY DEF TablesConsistent, Tracked, TypeOK
  <2>4. FoundIsTracked'
    BY DEF FoundIsTracked, Tracked, TypeOK
  <2>5. TimerTracksSilence'
    BY DEF TimerTracksSilence, TablesConsistent, Tracked, TypeOK
  <2> QED
    BY <2>2, <2>3, <2>4, <2>5
<1>4. ASSUME m.id \in Peers, TrackPeer(m.id, m.addr),
             ifToPeer' \in [Ifs -> Peers \cup {None}],
             announced' \subseteq Ifs,
             handler' \in {handler, "dead"},
             mgr' \in [Peers -> Notices],
             \A p \in Peers : p # m.id => mgr'[p] = mgr[p]
      PROVE  IInv'
  <2>1. PICK tfd \in Fds :
          /\ left[tfd] = 0
          /\ left' = [left EXCEPT ![tfd] = LostDelay]
          /\ registered' = registered \cup {tfd}
          /\ peerToFd' = [peerToFd EXCEPT ![m.id] = tfd]
          /\ fdToPeer' = [fdToPeer EXCEPT ![tfd] = m.id]
    BY <1>4 DEF TrackPeer, FreeFds
  <2>2. tfd \notin registered /\ tfd \notin fired /\ fdToPeer[tfd] = None
    BY <2>1 DEF TablesConsistent, TypeOK
  <2>3. peerToFd[m.id] = None /\ peerToAddr[m.id] = None
    BY <1>4 DEF TrackPeer, TablesConsistent, Tracked
  <2>4. /\ peerToAddr' = [peerToAddr EXCEPT ![m.id] = m.addr]
        /\ addrToPeer' = [addrToPeer EXCEPT ![m.addr] = m.id]
        /\ UNCHANGED fired
    BY <1>4 DEF TrackPeer
  <2> USE <1>1, <1>4, <2>1, <2>2, <2>3, <2>4
  <2>5. TypeOK'
    BY DEF TypeOK
  <2>6. TablesConsistent'
    BY DEF TablesConsistent, Tracked, TypeOK
  <2>7. FoundIsTracked'
    BY DEF FoundIsTracked, TablesConsistent, Tracked, TypeOK
  <2>8. TimerTracksSilence'
    BY DEF TimerTracksSilence, TablesConsistent, Tracked, TypeOK
  <2> QED
    BY <2>5, <2>6, <2>7, <2>8
<1>6. CASE m.id \in Peers /\ AddPeer(m.id, m.addr, needNotify)
  <2>1. /\ TrackPeer(m.id, m.addr)
        /\ IfOf[m.addr] \in Ifs
        /\ ifToPeer' = [ifToPeer EXCEPT ![IfOf[m.addr]] = m.id]
        /\ UNCHANGED handler
    BY <1>1, <1>6 DEF AddPeer
  <2>2. /\ announced' \subseteq Ifs
        /\ mgr' \in [Peers -> Notices]
        /\ \A p \in Peers : p # m.id => mgr'[p] = mgr[p]
    <3>1. /\ announced' = announced \cup netUp \/ announced' = announced
          /\ mgr' = [mgr EXCEPT ![m.id] = "found"] \/ mgr' = mgr
      BY <1>6 DEF AddPeer, SendBroadcastHello
    <3>2. /\ announced' \subseteq Ifs
          /\ mgr' \in [Peers -> Notices]
      BY <1>6, <3>1 DEF TypeOK, Notices
    <3> QED
      BY <1>6, <3>1, <3>2 DEF TypeOK
  <2>3. ifToPeer' \in [Ifs -> Peers \cup {None}] /\ handler' \in {handler, "dead"}
    BY <1>6, <2>1 DEF TypeOK
  <2> HIDE DEF IInv
  <2> QED
    BY <1>4, <1>6, <2>1, <2>2, <2>3, Zenon
<1>7. CASE m.id \in Peers /\ AddPeerThrows(m.id, m.addr)
  <2>1. /\ TrackPeer(m.id, m.addr)
        /\ handler' = "dead"
        /\ UNCHANGED <<ifToPeer, announced, mgr>>
    BY <1>7 DEF AddPeerThrows
  <2>2. /\ ifToPeer' \in [Ifs -> Peers \cup {None}]
        /\ announced' \subseteq Ifs
        /\ mgr' \in [Peers -> Notices]
        /\ \A p \in Peers : p # m.id => mgr'[p] = mgr[p]
    BY <2>1 DEF TypeOK
  <2>3. handler' \in {handler, "dead"}
    BY <2>1
  <2> HIDE DEF IInv
  <2> QED
    BY <1>4, <1>7, <2>1, <2>2, <2>3, Zenon
<1>5. CASE m.id \in Peers /\ FailPeer(m.id)
  <2>1. /\ UNCHANGED <<peerToFd, fdToPeer, peerToAddr, addrToPeer, ifToPeer,
                       registered, fired, handler, announced, mgr>>
        /\ peerToFd[m.id] = None
    <3>1. UNCHANGED <<tables, fired, handler, announced, mgr>> /\ peerToFd[m.id] = None
      BY <1>5 DEF FailPeer
    <3> QED
      BY <3>1 DEF tables
  <2>2. /\ left' \in [Fds -> 0 .. LostDelay]
        /\ \A f \in registered : left'[f] = left[f]
    <3>1. CASE UNCHANGED left
      BY <3>1 DEF TypeOK
    <3>2. CASE \E tfd \in FreeFds : left' = [left EXCEPT ![tfd] = LostDelay]
      <4>1. PICK tfd \in Fds : left[tfd] = 0 /\ left' = [left EXCEPT ![tfd] = LostDelay]
        BY <3>2 DEF FreeFds
      <4>2. tfd \notin registered
        BY <4>1 DEF TablesConsistent
      <4> QED
        BY <4>1, <4>2 DEF TypeOK
    <3> QED
      BY <1>5, <3>1, <3>2 DEF FailPeer
  <2>3. TypeOK'
    BY <2>1, <2>2 DEF TypeOK
  <2>4. TablesConsistent'
    BY <2>1, <2>2 DEF TablesConsistent, Tracked, TypeOK
  <2>5. \A p \in Peers : Tracked(p) => peerToFd[p] \in registered /\ p # m.id
    BY <2>1 DEF TablesConsistent, Tracked, TypeOK
  <2>6. FoundIsTracked'
    BY <2>1, <2>2, <2>5 DEF FoundIsTracked, Tracked
  <2>7. TimerTracksSilence'
    BY <2>1, <2>2, <2>5 DEF TimerTracksSilence, Tracked
  <2> QED
    BY <2>3, <2>4, <2>6, <2>7
<1> QED
  BY <1>2, <1>3, <1>5, <1>6, <1>7 DEF ProcessHello

(* The clock: a timer that runs out does so after a silence of the whole   *)
(* delay, because it never ran ahead of it.                                *)
LEMMA TickStep == IInv /\ Tick => IInv'
<1> SUFFICES ASSUME IInv, Tick PROVE IInv'
  OBVIOUS
<1> USE ConstantsAssumption DEF IInv, Tick, tables
<1>1. left' \in [Fds -> 0 .. LostDelay] /\ \A f \in registered : left'[f] > 0
  BY DEF TypeOK, TablesConsistent, Elapse
<1>2. age' \in [Peers -> 0 .. LostDelay]
  BY DEF TypeOK
<1>3. TypeOK'
  BY <1>1, <1>2 DEF TypeOK
<1>4. TablesConsistent'
  BY <1>1 DEF TablesConsistent, Tracked, TypeOK
<1>5. \A p \in Peers : Tracked(p) => peerToFd[p] \in registered /\ peerToFd[p] \in Fds
  BY DEF TablesConsistent, Tracked, TypeOK
<1>6. FoundIsTracked'
  BY <1>1, <1>5 DEF FoundIsTracked, Tracked
<1>7. TimerTracksSilence'
  BY <1>5 DEF TimerTracksSilence, TablesConsistent, TypeOK, Tracked, Elapse
<1> QED
  BY <1>3, <1>4, <1>6, <1>7

(* ProcessPeerLost forgets one peer in every table but ifToPeer.           *)
LEMMA PeerLostStep ==
  ASSUME IInv, NEW fd \in Fds, ProcessPeerLost(fd)
  PROVE  IInv'
<1> USE ConstantsAssumption DEF IInv
<1> DEFINE peer == fdToPeer[fd]
<1>1. fd \in registered /\ peer \in Peers /\ peerToFd[peer] = fd
  BY DEF ProcessPeerLost, Dispatch, TablesConsistent, TypeOK
<1>2. peerToAddr[peer] \in Addrs
  BY <1>1 DEF TablesConsistent, Tracked, TypeOK
<1>3. /\ batch' = batch \ {fd}
      /\ fired' = fired \ {fd}
      /\ registered' = registered \ {fd}
      /\ peerToFd' = [peerToFd EXCEPT ![peer] = None]
      /\ fdToPeer' = [fdToPeer EXCEPT ![fd] = None]
      /\ peerToAddr' = [peerToAddr EXCEPT ![peer] = None]
      /\ addrToPeer' = [addrToPeer EXCEPT ![peerToAddr[peer]] = None]
      /\ mgr' = [mgr EXCEPT ![peer] = "lostTimer"]
      /\ UNCHANGED <<ifToPeer, left, announce, inbox, tcpHello, netUp, nlReady,
                     handler, announced, age>>
  BY DEF ProcessPeerLost, Dispatch, ForgetPeer
<1> HIDE DEF peer
<1>4. TypeOK'
  BY <1>1, <1>2, <1>3 DEF TypeOK, Notices
<1>5. TablesConsistent'
  BY <1>1, <1>2, <1>3 DEF TablesConsistent, Tracked, TypeOK
<1>6. FoundIsTracked'
  BY <1>1, <1>3 DEF FoundIsTracked, TablesConsistent, Tracked, TypeOK
<1>7. TimerTracksSilence'
  BY <1>1, <1>3 DEF TimerTracksSilence, TablesConsistent, Tracked, TypeOK
<1> QED
  BY <1>4, <1>5, <1>6, <1>7

LEMMA NextIInv == IInv /\ [Next]_vars => IInv'
<1> SUFFICES ASSUME IInv, [Next]_vars PROVE IInv'
  OBVIOUS
<1> USE ConstantsAssumption DEF IInv
<1>1. CASE UNCHANGED vars
  BY <1>1 DEF vars, tables, kernel, TypeOK, TablesConsistent, FoundIsTracked,
              TimerTracksSilence, Tracked
<1>2. CASE Tick
  BY <1>2, TickStep
<1>3. ASSUME NEW m \in Hellos \cup {Junk}, Datagram(m) PROVE IInv'
  BY <1>3 DEF Datagram, tables, TypeOK, TablesConsistent, FoundIsTracked,
              TimerTracksSilence, Tracked
<1>4. ASSUME NEW p \in Peers, NEW a \in Addrs, ConnectionHello([id |-> p, addr |-> a])
      PROVE  IInv'
  <2>1. [id |-> p, addr |-> a] \in [id : Peers, addr : Addrs]
    OBVIOUS
  <2>2. TypeOK'
    BY <1>4, <2>1 DEF ConnectionHello, tables, TypeOK
  <2>3. TablesConsistent'
    BY <1>4 DEF ConnectionHello, tables, TypeOK, TablesConsistent, Tracked
  <2> QED
    BY <1>4, <2>2, <2>3 DEF ConnectionHello, tables, FoundIsTracked,
                            TimerTracksSilence, Tracked
<1>5. ASSUME NEW i \in Ifs, LinkChange(i) PROVE IInv'
  BY <1>5 DEF LinkChange, tables, TypeOK, TablesConsistent, FoundIsTracked,
              TimerTracksSilence, Tracked
<1>6. CASE EpollWait
  <2>1. /\ batch' \subseteq Fds \cup {"udp", "tcp", "netlink", "bcast"}
        /\ batch' \cap Fds \subseteq registered
        /\ "tcp" \in batch' => tcpHello # None
    BY <1>6 DEF EpollWait, ReadySources, TypeOK
  <2>2. UNCHANGED <<tables, kernel, handler, announced, mgr, age>>
    BY <1>6 DEF EpollWait
  <2> QED
    BY <2>1, <2>2 DEF tables, kernel, TypeOK, TablesConsistent, FoundIsTracked,
                      TimerTracksSilence, Tracked
<1>7. CASE ReceiveBegin
  BY <1>7 DEF ReceiveBegin, Dispatch, tables, kernel, TypeOK, TablesConsistent,
              FoundIsTracked, TimerTracksSilence, Tracked
<1>8. CASE ReceiveHello
  <2>1. Head(inbox) \in Hellos /\ Tail(inbox) \in Seq(Hellos \cup {Junk})
    BY <1>8 DEF ReceiveHello, TypeOK
  <2>2. /\ age' \in [Peers -> 0 .. LostDelay]
        /\ \A p \in Peers : p # Head(inbox).id => age'[p] = age[p]
    BY <1>8 DEF ReceiveHello, TypeOK
  <2>3. /\ ProcessHello(Head(inbox), TRUE)
        /\ inbox' = Tail(inbox)
        /\ UNCHANGED <<announce, tcpHello, netUp, nlReady, batch>>
    BY <1>8 DEF ReceiveHello
  <2>4. /\ "tcp" \in batch' => tcpHello' # None
        /\ tcpHello' \in [id : Peers, addr : Addrs] \cup {None}
    BY <2>3 DEF TypeOK, TablesConsistent
  <2> QED
    BY <2>1, <2>2, <2>3, <2>4, HelloStep
<1>9. CASE ReceiveJunk
  <2>1. inbox' \in Seq(Hellos \cup {Junk})
    BY <1>9 DEF ReceiveJunk, TypeOK
  <2> QED
    BY <1>9, <2>1 DEF ReceiveJunk, tables, TypeOK, TablesConsistent,
                      FoundIsTracked, TimerTracksSilence, Tracked
<1>10. CASE ReceiveEnd
  BY <1>10 DEF ReceiveEnd, tables, kernel, TypeOK, TablesConsistent,
               FoundIsTracked, TimerTracksSilence, Tracked
<1>11. CASE IncomingHello
  <2>1. tcpHello \in Hellos
    BY <1>11 DEF IncomingHello, Dispatch, TypeOK, TablesConsistent, Hellos
  <2>2. /\ ProcessHello(tcpHello, FALSE)
        /\ batch' = batch \ {"tcp"} /\ tcpHello' = None
        /\ UNCHANGED <<announce, inbox, netUp, nlReady, age>>
    BY <1>11 DEF IncomingHello, Dispatch
  <2> QED
    BY <2>1, <2>2, HelloStep DEF TypeOK
<1>12. ASSUME NEW fd \in Fds, ProcessPeerLost(fd) PROVE IInv'
  BY <1>12, PeerLostStep
<1>13. CASE BroadcastTimer
  BY <1>13 DEF BroadcastTimer, Dispatch, SendBroadcastHello, tables, TypeOK,
               TablesConsistent, FoundIsTracked, TimerTracksSilence, Tracked
<1>14. CASE NetworkUpdateBegin
  BY <1>14 DEF NetworkUpdateBegin, Dispatch, tables, TypeOK, TablesConsistent,
               FoundIsTracked, TimerTracksSilence, Tracked
<1>15. CASE NetworkUpdateEnd
  <2>1. /\ ifToPeer' \in [Ifs -> Peers \cup {None}]
        /\ mgr' \in [Peers -> Notices]
        /\ \A p \in Peers : mgr'[p] = "found" => mgr[p] = "found"
    BY <1>15 DEF NetworkUpdateEnd, TypeOK, Notices
  <2>2. /\ announced' \subseteq Ifs /\ handler' = "idle"
        /\ UNCHANGED <<peerToFd, fdToPeer, peerToAddr, addrToPeer, registered,
                       left, fired, announce, inbox, tcpHello, netUp, nlReady,
                       batch, age>>
    BY <1>15 DEF NetworkUpdateEnd, SendBroadcastHello, kernel, TypeOK
  <2> QED
    BY <2>1, <2>2 DEF TypeOK, TablesConsistent, FoundIsTracked,
                      TimerTracksSilence, Tracked
<1> QED
  BY <1>1, <1>2, <1>3, <1>4, <1>5, <1>6, <1>7, <1>8, <1>9, <1>10, <1>11, <1>12,
     <1>13, <1>14, <1>15 DEF Next, Environment, EpollThread

LEMMA SpecIInv == Spec => []IInv
<1>1. Init => IInv
  BY InitIInv
<1>2. IInv /\ [Next]_vars => IInv'
  BY NextIInv
<1> QED
  BY <1>1, <1>2, PTL DEF Spec

(* Every variable of the discovery keeps its type.                         *)
THEOREM TypeCorrect == Spec => []TypeOK
<1>1. IInv => TypeOK
  BY DEF IInv
<1> QED
  BY <1>1, SpecIInv, PTL

(* The tables that ProcessHello and ProcessPeerLost maintain agree with    *)
(* each other and with the epoll loop in every reachable state, for any    *)
(* number of peers, addresses and descriptors.                             *)
THEOREM TablesAlwaysConsistent == Spec => []TablesConsistent
<1>1. IInv => TablesConsistent
  BY DEF IInv
<1> QED
  BY <1>1, SpecIInv, PTL

(* A neighbour that the transport manager believes present has a running   *)
(* timer and an address, for any number of peers and any failure of        *)
(* create_timer or RegisterAction.                                         *)
THEOREM FoundAlwaysTracked == Spec => []FoundIsTracked
<1>1. IInv => FoundIsTracked
  BY DEF IInv
<1> QED
  BY <1>1, SpecIInv, PTL

(* The lost-peer timer never runs ahead of the silence of its peer, for    *)
(* every LOST_PEER_DELAY.                                                  *)
THEOREM TimerNeverAhead == Spec => []TimerTracksSilence
<1>1. IInv => TimerTracksSilence
  BY DEF IInv
<1> QED
  BY <1>1, SpecIInv, PTL
=============================================================================

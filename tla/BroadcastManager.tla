------------------------- MODULE BroadcastManager -------------------------
(***************************************************************************)
(* Neighbour discovery of one node: BroadcastManager (ip_broadcast.cpp)    *)
(* together with what it drives, the per-peer timerfds, the UDP socket,    *)
(* the netlink socket and the notifications that IpTransport passes on to  *)
(* the transport manager.                                                  *)
(*                                                                         *)
(* All handlers run on the epoll thread.  epoll_wait fetches the whole set *)
(* of ready sources at once (batch) and the handlers then run one after    *)
(* the other, so a handler may act on a readiness that an earlier handler  *)
(* of the same batch has already invalidated.  Time, datagrams and link    *)
(* changes go on between any two steps.                                    *)
(***************************************************************************)
EXTENDS Integers, Sequences, FiniteSets

CONSTANTS
    Peers,        \* the ids of the other nodes
    Self,         \* ipTransport_->_self
    Addrs,        \* addresses hellos come from
    Ifs,          \* names of the local interfaces
    IfOf,         \* the interface whose subnet holds an address, or None
    Fds,          \* the descriptors the process may still open for timers
    LostDelay,    \* LOST_PEER_DELAY in units of BROADCAST_DELAY
    InboxMax,     \* bound: datagrams waiting in the UDP socket
    TcpHellos,    \* do incoming connections deliver hellos too
    LinkChanges,  \* do interfaces go up and down
    EpollFaults,  \* may epoll_ctl refuse a registration
    None

ASSUME ConstantsAssumption ==
    /\ Self \notin Peers
    /\ IfOf \in [Addrs -> Ifs \cup {None}]
    /\ LostDelay \in Nat \ {0}
    /\ InboxMax \in Nat
    /\ {TcpHellos, LinkChanges, EpollFaults} \subseteq BOOLEAN
    /\ None \notin Peers \cup Addrs \cup Ifs \cup Fds
    /\ Fds \cap {"udp", "tcp", "netlink", "bcast"} = {}

VARIABLES
    peerToFd,     \* peerToFd_: timer of a peer, None for absent (or 0)
    fdToPeer,     \* fdToPeer_: peer of a timer; the token is left out
    peerToAddr,   \* peerToAddr_
    addrToPeer,   \* addrToPeer_
    ifToPeer,     \* ifToPeer_
    registered,   \* timers that have an action in the epoll loop
    left,         \* ticks a timerfd has left, 0: descriptor not in use
    fired,        \* timerfds that expired since they were read or set
    announce,     \* is the broadcast timer readable
    inbox,        \* datagrams in the UDP socket
    tcpHello,     \* Hello::Notify of an incoming connection, or None
    netUp,        \* interfaces that are up
    nlReady,      \* is a link notification waiting in the netlink socket
    batch,        \* events of the last epoll_wait not handled yet
    handler,      \* handler that the epoll thread is in the middle of
    announced,    \* history: interfaces broadcast on since the last clock tick
    mgr,          \* history: what the transport manager was told of a peer
    age           \* history: ticks since a UDP hello of a peer, saturating

tables == <<peerToFd, fdToPeer, peerToAddr, addrToPeer, ifToPeer, registered>>
kernel == <<left, fired, announce, inbox, tcpHello, netUp, nlReady>>
vars == <<tables, kernel, batch, handler, announced, mgr, age>>

Junk == [id |-> None, addr |-> None]
Hellos == [id : Peers \cup {Self}, addr : Addrs]

(* "lostLink" is NotifyLostNeighbour preceded by CloseSession(peer, ALL);  *)
(* "found" is NotifyNewNeighbour, whose handler in main.cpp opens a        *)
(* session; "lostTimer" leaves the sessions alone.                         *)
Notices == {"unknown", "found", "lostTimer", "lostLink"}

TypeOK ==
    /\ peerToFd \in [Peers -> Fds \cup {None}]
    /\ fdToPeer \in [Fds -> Peers \cup {None}]
    /\ peerToAddr \in [Peers -> Addrs \cup {None}]
    /\ addrToPeer \in [Addrs -> Peers \cup {None}]
    /\ ifToPeer \in [Ifs -> Peers \cup {None}]
    /\ registered \subseteq Fds
    /\ left \in [Fds -> 0 .. LostDelay]
    /\ fired \subseteq Fds
    /\ announce \in BOOLEAN
    /\ inbox \in Seq(Hellos \cup {Junk})
    /\ tcpHello \in [id : Peers, addr : Addrs] \cup {None}
    /\ netUp \subseteq Ifs
    /\ nlReady \in BOOLEAN
    /\ batch \subseteq Fds \cup {"udp", "tcp", "netlink", "bcast"}
    /\ handler \in {"idle", "udp", "netlink", "dead"}
    /\ announced \subseteq Ifs
    /\ mgr \in [Peers -> Notices]
    /\ age \in [Peers -> 0 .. LostDelay]

(* Start() has run: sockets and broadcast timer registered, first hello    *)
(* broadcast, no peer known.                                               *)
Init ==
    /\ peerToFd = [p \in Peers |-> None]
    /\ fdToPeer = [f \in Fds |-> None]
    /\ peerToAddr = [p \in Peers |-> None]
    /\ addrToPeer = [a \in Addrs |-> None]
    /\ ifToPeer = [i \in Ifs |-> None]
    /\ registered = {}
    /\ left = [f \in Fds |-> 0]
    /\ fired = {}
    /\ announce = FALSE
    /\ inbox = <<>>
    /\ tcpHello = None
    /\ netUp = Ifs
    /\ nlReady = FALSE
    /\ batch = {}
    /\ handler = "idle"
    /\ announced = Ifs
    /\ mgr = [p \in Peers |-> "unknown"]
    /\ age = [p \in Peers |-> LostDelay]

-----------------------------------------------------------------------------
(* The kernel and the network.                                             *)

(* Mutant: the timer is one-shot and counts on below zero.                 *)
Elapse_NoInterval(f) == left[f] - 1

(* One tick of a timerfd: it is periodic (it_interval), so a timer that    *)
(* expires is armed again at once.                                         *)
Elapse(f) == IF left[f] = 1 THEN LostDelay ELSE left[f] - 1

(* The clock.  Timers without an action stand still: nobody sees them.     *)
Tick ==
    /\ left' = [f \in Fds |-> IF f \in registered THEN Elapse(f) ELSE left[f]]
    /\ fired' = fired \cup {f \in registered : left[f] = 1}
    /\ announce' = TRUE
    /\ announced' = {}
    /\ age' = [p \in Peers |-> IF age[p] = LostDelay THEN age[p] ELSE age[p] + 1]
    /\ UNCHANGED <<tables, inbox, tcpHello, netUp, nlReady, batch, handler, mgr>>

(* Something from this address gets through: over its own interface, or,  *)
(* from a subnet of none of ours, over any.                                *)
Reachable(a) == IF IfOf[a] = None THEN netUp # {} ELSE IfOf[a] \in netUp

(* A datagram arrives over an interface that is up: a hello, our own hello *)
(* looped back, or bytes that are not a HelloMsg.                          *)
Datagram(m) ==
    /\ Len(inbox) < InboxMax
    /\ m # Junk => Reachable(m.addr)
    /\ inbox' = Append(inbox, m)
    /\ UNCHANGED <<tables, left, fired, announce, tcpHello, netUp, nlReady,
                   batch, handler, announced, mgr, age>>

(* An accepted connection delivers its Hello::Notify.                      *)
ConnectionHello(m) ==
    /\ TcpHellos
    /\ tcpHello = None
    /\ Reachable(m.addr)
    /\ tcpHello' = m
    /\ UNCHANGED <<tables, left, fired, announce, inbox, netUp, nlReady,
                   batch, handler, announced, mgr, age>>

(* An interface goes up or down; the kernel queues an RTMGRP_LINK message. *)
LinkChange(i) ==
    /\ LinkChanges
    /\ netUp' = IF i \in netUp THEN netUp \ {i} ELSE netUp \cup {i}
    /\ nlReady' = TRUE
    /\ UNCHANGED <<tables, left, fired, announce, inbox, tcpHello,
                   batch, handler, announced, mgr, age>>

-----------------------------------------------------------------------------
(* The epoll thread.                                                       *)

(* Mutant: the peer timers are registered for the wrong direction.         *)
ReadySources_NoTimers ==
    (IF inbox # <<>> THEN {"udp"} ELSE {})
      \cup (IF tcpHello # None THEN {"tcp"} ELSE {})
      \cup (IF nlReady THEN {"netlink"} ELSE {})
      \cup (IF announce THEN {"bcast"} ELSE {})

ReadySources ==
    (fired \cap registered)
      \cup (IF inbox # <<>> THEN {"udp"} ELSE {})
      \cup (IF tcpHello # None THEN {"tcp"} ELSE {})
      \cup (IF nlReady THEN {"netlink"} ELSE {})
      \cup (IF announce THEN {"bcast"} ELSE {})

(* epoll_wait returns every ready source: there are fewer than             *)
(* MAX_EPOLL_EVENTS.  Picking from batch in any order covers every order   *)
(* of the kernel's ready list.                                             *)
EpollWait ==
    /\ handler = "idle"
    /\ batch = {}
    /\ ReadySources # {}
    /\ batch' = ReadySources
    /\ UNCHANGED <<tables, kernel, handler, announced, mgr, age>>

Dispatch(e) ==
    /\ handler = "idle"
    /\ e \in batch
    /\ batch' = batch \ {e}

FreeFds == {f \in Fds : left[f] = 0}

(* Mutant: the timer is set but an expiry that was not read survives.      *)
SetTimer_KeepsExpiry(fd) ==
    /\ left' = [left EXCEPT ![fd] = LostDelay]
    /\ UNCHANGED fired

(* set_timer: timerfd_settime forgets expirations that were not read.      *)
SetTimer(fd) ==
    /\ left' = [left EXCEPT ![fd] = LostDelay]
    /\ fired' = fired \ {fd}

(* Mutant: only where no peer is known yet.                                *)
SendBroadcastHello_Unpeopled ==
    announced' = announced \cup {i \in netUp : ifToPeer[i] = None}

(* SendBroadcastHello: a datagram to the broadcast address of every        *)
(* interface that is up; a send that fails is not tried again.             *)
SendBroadcastHello == announced' = announced \cup netUp

(* ProcessHello for a peer that has a timer.                               *)
RefreshPeer(p) ==
    /\ peerToFd[p] # None
    /\ SetTimer(peerToFd[p])
    /\ UNCHANGED <<tables, handler, announced, mgr>>

(* ProcessHello for a new peer: its timer, the action and four tables.     *)
TrackPeer(p, a) ==
    /\ peerToFd[p] = None
    /\ \E tfd \in FreeFds :
         /\ left' = [left EXCEPT ![tfd] = LostDelay]
         /\ registered' = registered \cup {tfd}
         /\ peerToFd' = [peerToFd EXCEPT ![p] = tfd]
         /\ fdToPeer' = [fdToPeer EXCEPT ![tfd] = p]
    /\ peerToAddr' = [peerToAddr EXCEPT ![p] = a]
    /\ addrToPeer' = [addrToPeer EXCEPT ![a] = p]
    /\ UNCHANGED fired

(* get_interface_by_ip finds the interface, the fifth table follows and,   *)
(* for a broadcast hello, OnNeighborFound with its own broadcast.          *)
AddPeer(p, a, needNotify) ==
    /\ TrackPeer(p, a)
    /\ IfOf[a] # None
    /\ ifToPeer' = [ifToPeer EXCEPT ![IfOf[a]] = p]
    /\ IF needNotify
       THEN SendBroadcastHello /\ mgr' = [mgr EXCEPT ![p] = "found"]
       ELSE UNCHANGED <<announced, mgr>>
    /\ UNCHANGED handler

(* get_interface_by_ip returns nullptr: the address is in no subnet of     *)
(* ours, or its interface has been removed since.  The string made of it   *)
(* throws and nothing up to the epoll thread's function catches that.      *)
AddPeerThrows(p, a) ==
    /\ TrackPeer(p, a)
    /\ IfOf[a] \notin netUp
    /\ handler' = "dead"
    /\ UNCHANGED <<ifToPeer, announced, mgr>>

(* Mutant: the peer is announced to the manager although it was given up.  *)
FailPeer_Notifies(p) ==
    /\ peerToFd[p] = None
    /\ FreeFds = {}
    /\ mgr' = [mgr EXCEPT ![p] = "found"]
    /\ UNCHANGED <<tables, left, fired, handler, announced>>

(* ProcessHello gives up on a new peer: create_timer finds no descriptor,  *)
(* or the timer is there but the epoll loop does not take the action; the  *)
(* timer then stays open and belongs to nobody.                            *)
FailPeer(p) ==
    /\ peerToFd[p] = None
    /\ \/ /\ FreeFds = {}
          /\ UNCHANGED left
       \/ /\ EpollFaults
          /\ \E tfd \in FreeFds : left' = [left EXCEPT ![tfd] = LostDelay]
    /\ UNCHANGED <<tables, fired, handler, announced, mgr>>

IgnoreOwn(id) ==
    /\ id = Self
    /\ UNCHANGED <<tables, left, fired, handler, announced, mgr>>

ProcessHello(m, needNotify) ==
    \/ IgnoreOwn(m.id)
    \/ /\ m.id \in Peers
       /\ \/ RefreshPeer(m.id)
          \/ AddPeer(m.id, m.addr, needNotify)
          \/ AddPeerThrows(m.id, m.addr)
          \/ FailPeer(m.id)

(* ReceiveBroadcasts reads until the socket is empty.                      *)
ReceiveBegin ==
    /\ Dispatch("udp")
    /\ handler' = "udp"
    /\ UNCHANGED <<tables, kernel, announced, mgr, age>>

ReceiveHello ==
    /\ handler = "udp"
    /\ inbox # <<>>
    /\ Head(inbox) # Junk
    /\ inbox' = Tail(inbox)
    /\ ProcessHello(Head(inbox), TRUE)
    /\ age' = [p \in Peers |-> IF p = Head(inbox).id THEN 0 ELSE age[p]]
    /\ UNCHANGED <<announce, tcpHello, netUp, nlReady, batch>>

ReceiveJunk ==
    /\ handler = "udp"
    /\ inbox # <<>>
    /\ Head(inbox) = Junk
    /\ inbox' = Tail(inbox)
    /\ UNCHANGED <<tables, left, fired, announce, tcpHello, netUp, nlReady,
                   batch, handler, announced, mgr, age>>

ReceiveEnd ==
    /\ handler = "udp"
    /\ inbox = <<>>
    /\ handler' = "idle"
    /\ UNCHANGED <<tables, kernel, batch, announced, mgr, age>>

(* The part of the incoming hello exchange that concerns discovery.        *)
IncomingHello ==
    /\ Dispatch("tcp")
    /\ ProcessHello(tcpHello, FALSE)
    /\ tcpHello' = None
    /\ UNCHANGED <<announce, inbox, netUp, nlReady, age>>

(* Mutant: the reverse address map is not cleaned up.                      *)
ForgetPeer_KeepsAddress(peer, fd) ==
    /\ registered' = registered \ {fd}
    /\ peerToFd' = [peerToFd EXCEPT ![peer] = None]
    /\ fdToPeer' = [fdToPeer EXCEPT ![fd] = None]
    /\ peerToAddr' = [peerToAddr EXCEPT ![peer] = None]
    /\ UNCHANGED addrToPeer

ForgetPeer(peer, fd) ==
    /\ registered' = registered \ {fd}
    /\ peerToFd' = [peerToFd EXCEPT ![peer] = None]
    /\ fdToPeer' = [fdToPeer EXCEPT ![fd] = None]
    /\ peerToAddr' = [peerToAddr EXCEPT ![peer] = None]
    /\ addrToPeer' = [addrToPeer EXCEPT ![peerToAddr[peer]] = None]

(* ProcessPeerLost: what read returns is ignored, the descriptor is not    *)
(* closed, ifToPeer_ is left alone.                                        *)
ProcessPeerLost(fd) ==
    /\ Dispatch(fd)
    /\ fired' = fired \ {fd}
    /\ ForgetPeer(fdToPeer[fd], fd)
    /\ mgr' = [mgr EXCEPT ![fdToPeer[fd]] = "lostTimer"]
    /\ UNCHANGED <<ifToPeer, left, announce, inbox, tcpHello, netUp, nlReady,
                   handler, announced, age>>

(* cb_timer: read, SendBroadcastHello, set_timer.                          *)
BroadcastTimer ==
    /\ Dispatch("bcast")
    /\ announce' = FALSE
    /\ SendBroadcastHello
    /\ UNCHANGED <<tables, left, fired, inbox, tcpHello, netUp, nlReady,
                   handler, mgr, age>>

(* ProcessNetworkUpdate: first empty the netlink socket ...                *)
NetworkUpdateBegin ==
    /\ Dispatch("netlink")
    /\ nlReady' = FALSE
    /\ handler' = "netlink"
    /\ UNCHANGED <<tables, left, fired, announce, inbox, tcpHello, netUp,
                   announced, mgr, age>>

(* ... then look at the interfaces, drop the peers of those that are gone  *)
(* (the peer's timer and addresses stay) and broadcast.                    *)
NetworkUpdateEnd ==
    /\ handler = "netlink"
    /\ LET removed == {i \in Ifs \ netUp : ifToPeer[i] # None}
       IN  /\ ifToPeer' = [i \in Ifs |-> IF i \in removed THEN None ELSE ifToPeer[i]]
           /\ mgr' = [p \in Peers |-> IF \E i \in removed : ifToPeer[i] = p
                                      THEN "lostLink" ELSE mgr[p]]
    /\ SendBroadcastHello
    /\ handler' = "idle"
    /\ UNCHANGED <<peerToFd, fdToPeer, peerToAddr, addrToPeer, registered,
                   kernel, batch, age>>

(* What happens around a process that has ended does not matter.           *)
Environment ==
    \/ Tick
    \/ /\ handler # "dead"
       /\ \/ \E m \in Hellos \cup {Junk} : Datagram(m)
          \/ \E p \in Peers, a \in Addrs : ConnectionHello([id |-> p, addr |-> a])
          \/ \E i \in Ifs : LinkChange(i)

EpollThread ==
    \/ EpollWait
    \/ ReceiveBegin
    \/ ReceiveHello
    \/ ReceiveJunk
    \/ ReceiveEnd
    \/ IncomingHello
    \/ \E fd \in Fds : ProcessPeerLost(fd)
    \/ BroadcastTimer
    \/ NetworkUpdateBegin
    \/ NetworkUpdateEnd

Next == Environment \/ EpollThread

Spec == Init /\ [][Next]_vars

(* The kernel schedules the epoll thread, the clock goes on, and datagrams *)
(* come in slower than they are read: a ReceiveBroadcasts loop that finds  *)
(* the socket empty again and again returns at last.                       *)
FairSpec ==
    /\ Spec
    /\ WF_vars(EpollThread)
    /\ WF_vars(Tick)
    /\ SF_vars(ReceiveEnd)

-----------------------------------------------------------------------------
(* Properties.                                                             *)

Tracked(p) == peerToFd[p] # None

(* ProcessHello and ProcessPeerLost update five tables and the epoll loop  *)
(* one by one; together they stay consistent.  A peer has one timer, the   *)
(* timer knows its peer and is the one with an action, the peer has an     *)
(* address exactly while it has a timer, a reverse address entry names a   *)
(* peer at that address, and an event still to be handled has its subject: *)
(* a timer event belongs to a known peer, so the "Cannot find fd for lost  *)
(* peer timer" branch of ProcessPeerLost is dead.                          *)
TablesConsistent ==
    /\ \A p \in Peers : Tracked(p) => fdToPeer[peerToFd[p]] = p
    /\ \A p \in Peers : Tracked(p) <=> peerToAddr[p] # None
    /\ \A f \in Fds : fdToPeer[f] # None => peerToFd[fdToPeer[f]] = f
    /\ \A f \in Fds : f \in registered <=> fdToPeer[f] # None
    /\ \A a \in Addrs : addrToPeer[a] # None => peerToAddr[addrToPeer[a]] = a
    /\ batch \cap Fds \subseteq registered
    /\ fired \subseteq registered
    /\ \A f \in registered : left[f] > 0
    /\ "tcp" \in batch => tcpHello # None

(* What the transport manager was told and what the tables hold: a         *)
(* neighbour it was told of and not told to forget has a running timer     *)
(* and an address, so a session to it can be opened and its loss will be   *)
(* noticed, whatever failed on the way and whatever came over TCP.         *)
FoundIsTracked ==
    \A p \in Peers :
        mgr[p] = "found" => /\ Tracked(p)
                            /\ left[peerToFd[p]] > 0
                            /\ peerToAddr[p] # None

(* The lost-peer timer against the hellos (LOST_PEER_DELAY): it never runs *)
(* ahead of the silence of its peer, and when it has expired the peer has  *)
(* not been heard by UDP for the whole delay.                              *)
TimerTracksSilence ==
    \A p \in Peers :
        Tracked(p) => IF peerToFd[p] \in fired
                      THEN age[p] = LostDelay
                      ELSE LostDelay - left[peerToFd[p]] <= age[p]

(* ip_broadcast.h: "Peer node is treated as lost if we did not receive UDP *)
(* broadcast message from him during 10 seconds".  No tracked peer stays   *)
(* so for ever unless its timer is set again and again, or the process has *)
(* ended.                                                                  *)
SilentPeerIsDropped ==
    \A p \in Peers :
        []<>(\/ Tracked(p) => left[peerToFd[p]] = LostDelay /\ peerToFd[p] \notin fired
            \/ handler = "dead")

(* ip_broadcast.h: "periodically (every 1 second) send broadcast messages  *)
(* via UDP": as long as the process lives it never falls silent on an      *)
(* interface that is up, whoever is or was known there and whatever        *)
(* datagrams and link changes it has to deal with in between.              *)
KeepsAnnouncing ==
    \A i \in Ifs : []<>(i \in announced \/ i \notin netUp \/ handler = "dead")

(* The same sentence read as what being lost means: a neighbour given up   *)
(* because of its timer has not been heard for the whole delay.  An expiry *)
(* fetched in one batch with the hello that sets the timer again is        *)
(* handled after it all the same.                                          *)
LostMeansSilent ==
    [][\A p \in Peers :
         mgr'[p] = "lostTimer" /\ mgr[p] # "lostTimer" => age[p] = LostDelay]_vars
=============================================================================

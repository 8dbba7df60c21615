-------------------------- MODULE EpollLoopProofs --------------------------
(***************************************************************************)
(* Proof that callbacks are neither destroyed too early nor forgotten, for *)
(* every number of descriptors, operations and threads; and that epoll     *)
(* never watches for an event that no callback is registered for.          *)
(***************************************************************************)
EXTENDS EpollLoop, TLAPS

(* What the loop looks actions up in.                                      *)
Types ==
    /\ table \in [Fds \X Dirs -> Callbacks \cup {None}]
    /\ removeQueue \in Seq(Callbacks)
    /\ cancelMap \subseteq Ops
    /\ key \in [Ops -> (Fds \X Dirs) \cup {None}]
    /\ token \in [Ops -> BOOLEAN]

(* A token in cancelMap is the token of an AsyncFd, which knows where it   *)
(* is registered.                                                          *)
Tokens == \A o \in cancelMap : token[o] /\ key[o] \in Fds \X Dirs

Current == pc \in CallbackPcs \cup {"destroy"} => cur \in Callbacks

IInv == Types /\ Tokens /\ Current /\ RunningIsAlive /\ RemovalSignalled

(* The memory of the callback is in use.                                   *)
Queued(c) == \E i \in DOMAIN removeQueue : removeQueue[i] = c
Live(c) == Queued(c) \/ \E k \in Fds \X Dirs : table[k] = c

(* A step takes no callback out of both, and nothing is queued in silence. *)
Keeps == \A c \in Callbacks : Live(c) => Live(c)'
Signals ==
    /\ removeEvent => removeEvent'
    /\ removeQueue' # <<>> => removeEvent' \/ removeQueue # <<>>

-----------------------------------------------------------------------------
(* The operations of EpollLoop.                                            *)

LEMMA Utilize ==
    ASSUME NEW cbs \in Seq(Callbacks), removeQueue \in Seq(Callbacks), UtilizeCallback(cbs)
    PROVE  /\ removeQueue' \in Seq(Callbacks)
           /\ \A c : Queued(c) => Queued(c)'
           /\ \A i \in DOMAIN cbs : Queued(cbs[i])'
           /\ Signals
<1>1. removeQueue' = removeQueue \o cbs
  BY DEF UtilizeCallback
<1>2. \A i \in DOMAIN removeQueue : i \in DOMAIN removeQueue' /\ removeQueue'[i] = removeQueue[i]
  BY <1>1
<1>3. ASSUME NEW i \in DOMAIN cbs
      PROVE  /\ Len(removeQueue) + i \in DOMAIN removeQueue'
             /\ removeQueue'[Len(removeQueue) + i] = cbs[i]
  BY <1>1
<1>4. cbs = <<>> => removeQueue' = removeQueue
  BY <1>1
<1>5. removeEvent' <=> (removeEvent \/ cbs # <<>>)
  BY Zenon DEF UtilizeCallback
<1>6. Signals
  BY <1>4, <1>5, Zenon DEF Signals
<1>7. removeQueue' \in Seq(Callbacks)
  BY <1>1
<1> QED
  BY <1>2, <1>3, <1>6, <1>7 DEF Queued

LEMMA Registers ==
    ASSUME IInv, NEW o \in Ops, NEW gen \in 1 .. 4, NEW fd \in Fds, NEW d \in Dirs,
           NEW isOpen, RegisterAction(o, gen, fd, d, isOpen), UNCHANGED removal
    PROVE  Types' /\ Tokens' /\ Keeps /\ Signals
<1> USE DEF IInv
<1>1. UNCHANGED <<removeQueue, removeEvent>>
  BY DEF removal
<1>2. CASE Accepts(fd, d, isOpen)
  <2>1. /\ table[<<fd, d>>] = None
        /\ table' = [table EXCEPT ![<<fd, d>>] = [op |-> o, gen |-> gen]]
        /\ cancelMap' = cancelMap \cup {o}
        /\ key' = [key EXCEPT ![o] = <<fd, d>>]
        /\ token' = [token EXCEPT ![o] = TRUE]
    BY <1>2 DEF RegisterAction, Accepts
  <2>2. Types'
    BY <2>1, <1>1 DEF Types, Callbacks
  <2>3. Tokens'
    BY <2>1 DEF Types, Tokens
  <2>4. ASSUME NEW c \in Callbacks, NEW k \in Fds \X Dirs, table[k] = c PROVE table'[k] = c
    BY <2>1, <2>4, EpollLoopAssumption DEF Types
  <2>5. Keeps
    BY <2>4, <1>1 DEF Keeps, Live, Queued
  <2> QED
    BY <2>2, <2>3, <2>5, <1>1 DEF Signals
<1>3. CASE ~Accepts(fd, d, isOpen)
  <2>1. UNCHANGED <<table, cancelMap, key, token>>
    BY <1>3 DEF RegisterAction, regs
  <2> QED
    BY <2>1, <1>1 DEF Types, Tokens, Keeps, Live, Queued, Signals
<1> QED
  BY <1>2, <1>3

LEMMA Deregisters ==
    ASSUME Types, Tokens, NEW o \in Ops, DeregisterAction(o)
    PROVE  /\ table' \in [Fds \X Dirs -> Callbacks \cup {None}]
           /\ removeQueue' \in Seq(Callbacks)
           /\ cancelMap' = cancelMap \ {o}
           /\ Keeps /\ Signals
<1>1. cancelMap' = cancelMap \ {o}
  BY DEF DeregisterAction
<1>2. CASE o \in cancelMap /\ table[key[o]] # None
  <2> DEFINE k == key[o]
  <2>1. k \in Fds \X Dirs
    BY <1>2 DEF Tokens
  <2>2. PICK fd \in Fds, d \in Dirs : k = <<fd, d>>
    BY <2>1
  <2>3. PICK c \in Callbacks : table[k] = c
    BY <1>2, <2>2 DEF Types
  <2>4. /\ UtilizeCallback(<<c>>)
        /\ table' = [table EXCEPT ![k] = None]
    BY <1>2, <2>3 DEF DeregisterAction
  <2>5. k \in Fds \X Dirs /\ table' \in [Fds \X Dirs -> Callbacks \cup {None}]
    BY <2>1, <2>4 DEF Types
  <2>6. \A j \in Fds \X Dirs : table'[j] = table[j] \/ table[j] = c
    BY <2>1, <2>3, <2>4 DEF Types
  <2>7. <<c>> \in Seq(Callbacks) /\ 1 \in DOMAIN <<c>> /\ <<c>>[1] = c
    OBVIOUS
  <2>8. /\ removeQueue' \in Seq(Callbacks)
        /\ \A x : Queued(x) => Queued(x)'
        /\ \A i \in DOMAIN <<c>> : Queued(<<c>>[i])'
        /\ Signals
    BY <2>4, <2>7, Utilize DEF Types
  <2>9. Queued(c)'
    BY <2>7, <2>8
  <2>10. Keeps
    BY <2>6, <2>8, <2>9 DEF Keeps, Live
  <2> QED
    BY <1>1, <2>5, <2>8, <2>10
<1>3. CASE ~(o \in cancelMap /\ table[key[o]] # None)
  <2>0. UNCHANGED <<table, kernel, removal>>
    BY <1>3, Zenon DEF DeregisterAction
  <2>1. UNCHANGED <<table, removeQueue, removeEvent>>
    BY <2>0 DEF removal
  <2> QED
    BY <1>1, <2>1 DEF Types, Keeps, Live, Queued, Signals
<1> QED
  BY <1>2, <1>3

LEMMA DeregistersFd ==
    ASSUME IInv, NEW fd \in Fds, DeregisterFd(fd)
    PROVE  Types' /\ Tokens' /\ Keeps /\ Signals
<1> USE DEF IInv
<1>1. PICK a \in Callbacks \cup {None} : a = table[<<fd, "in">>]
  BY DEF Types, Dirs
<1>2. PICK b \in Callbacks \cup {None} : b = table[<<fd, "out">>]
  BY DEF Types, Dirs
<1> DEFINE cbs == (IF a # None THEN <<a>> ELSE <<>>) \o (IF b # None THEN <<b>> ELSE <<>>)
<1>3. /\ UtilizeCallback(cbs)
      /\ table' = [table EXCEPT ![<<fd, "in">>] = None, ![<<fd, "out">>] = None]
      /\ UNCHANGED <<cancelMap, key, token>>
  BY <1>1, <1>2 DEF DeregisterFd
<1>4. /\ table' \in [Fds \X Dirs -> Callbacks \cup {None}]
      /\ \A k \in Fds \X Dirs : table'[k] = table[k] \/ table[k] = a \/ table[k] = b
  BY <1>1, <1>2, <1>3 DEF Types
<1>5. /\ cbs \in Seq(Callbacks)
      /\ a # None => \E i \in DOMAIN cbs : cbs[i] = a
      /\ b # None => \E i \in DOMAIN cbs : cbs[i] = b
  <2>1. CASE a # None /\ b # None
    <3>1. cbs = <<a>> \o <<b>>
      BY <2>1
    <3> HIDE DEF cbs
    <3>2. 1 \in DOMAIN cbs /\ cbs[1] = a /\ 2 \in DOMAIN cbs /\ cbs[2] = b
      BY <2>1, <3>1
    <3>3. cbs \in Seq(Callbacks)
      BY <2>1, <3>1
    <3> QED
      BY <3>2, <3>3
  <2>2. CASE a # None /\ b = None
    <3>1. cbs = <<a>>
      BY <2>2
    <3> HIDE DEF cbs
    <3>2. 1 \in DOMAIN cbs /\ cbs[1] = a
      BY <3>1
    <3> QED
      BY <2>2, <3>1, <3>2
  <2>3. CASE a = None /\ b # None
    <3>1. cbs = <<b>>
      BY <2>3
    <3> QED
      BY <2>3, <3>1
  <2>4. CASE a = None /\ b = None
    <3>1. cbs = <<>>
      BY <2>4
    <3> QED
      BY <2>4, <3>1
  <2> QED
    BY <2>1, <2>2, <2>3, <2>4
<1> HIDE DEF cbs
<1>6. /\ removeQueue' \in Seq(Callbacks)
      /\ \A c : Queued(c) => Queued(c)'
      /\ \A i \in DOMAIN cbs : Queued(cbs[i])'
      /\ Signals
  BY <1>3, <1>5, Utilize DEF Types
<1>7. (a # None => Queued(a)') /\ (b # None => Queued(b)')
  BY <1>5, <1>6
<1>8. \A c \in Callbacks : c # None
  BY EpollLoopAssumption
<1>9. Keeps
  BY <1>4, <1>6, <1>7, <1>8 DEF Keeps, Live
<1> QED
  BY <1>3, <1>4, <1>6, <1>9 DEF Types, Tokens

LEMMA NothingDone ==
    ASSUME IInv, UNCHANGED <<table, cancelMap, key, token, removal>>
    PROVE  Types' /\ Tokens' /\ Keeps /\ Signals
BY DEF IInv, Types, Tokens, Keeps, Live, Queued, Signals, removal

-----------------------------------------------------------------------------
(* One lemma for what the steps have in common, then one for each step     *)
(* that does not fit it.                                                   *)

(* What the epoll thread runs stays, or it goes back to its events, or a   *)
(* callback goes on to its completion.                                     *)
LEMMA Ordinary ==
    ASSUME IInv, Types', Tokens', Keeps, Signals,
           \/ pc' = pc /\ cur' = cur
           \/ pc' \in {"wait", "batch", "stopped"} /\ pc \notin {"drain", "destroy"}
           \/ pc \in CallbackPcs /\ pc' \in CallbackPcs /\ cur' = cur
    PROVE  IInv'
<1> USE DEF IInv
<1>1. Current'
  BY DEF Current, CallbackPcs
<1>2. RunningIsAlive'
  <2>1. SUFFICES ASSUME pc' \in CallbackPcs PROVE Live(cur)'
    BY DEF RunningIsAlive, Live, Queued
  <2>2. cur' = cur /\ pc \in CallbackPcs
    BY <2>1 DEF CallbackPcs
  <2>3. cur \in Callbacks /\ Live(cur)
    BY <2>2 DEF Current, RunningIsAlive, Live, Queued
  <2> QED
    BY <2>2, <2>3 DEF Keeps, Live, Queued
<1>3. RemovalSignalled'
  BY DEF RemovalSignalled, Signals, CallbackPcs
<1> QED
  BY <1>1, <1>2, <1>3

LEMMA CommandStep == ASSUME IInv, Command PROVE IInv'
<1>1. ASSUME NEW t \in Threads, NEW fd \in Fds, NEW o \in Ops, NEW d \in Dirs,
             Connect(t, fd, o, d)
      PROVE  IInv'
  <2>1. /\ RegisterAction(o, 1, fd, d, TRUE)
        /\ UNCHANGED <<batch, curFd, stopEvent>> /\ UNCHANGED removal /\ UNCHANGED <<pc, cur>>
    BY <1>1 DEF Connect, loop
  <2>2. 1 \in 1 .. 4
    OBVIOUS
  <2>3. Types' /\ Tokens' /\ Keeps /\ Signals
    BY <1>1, <2>1, <2>2, Registers
  <2> QED
    BY <2>1, <2>3, Ordinary
<1>2. ASSUME NEW t \in Threads, NEW fd \in Fds, NEW o \in Ops, StartSend(t, fd, o)
      PROVE  IInv'
  <2>1. "out" \in Dirs
    BY DEF Dirs
  <2> QED
    BY <1>2, <2>1, Registers, Ordinary DEF StartSend, loop
<1>3. ASSUME NEW t \in Threads, NEW fd \in Fds, CloseBegin(t, fd)
      PROVE  IInv'
  BY <1>3, DeregistersFd, Ordinary DEF CloseBegin, loop
<1>4. ASSUME NEW t \in Threads, CloseEnd(t)
      PROVE  IInv'
  BY <1>4, NothingDone, Ordinary DEF CloseEnd, loop
<1>5. CASE Stop
  BY <1>5, NothingDone, Ordinary DEF Stop, regs
<1> QED
  BY <1>1, <1>2, <1>3, <1>4, <1>5 DEF Command

LEMMA RunStep == ASSUME IInv, NEW fd \in Fds, RunCallback(fd) PROVE IInv'
<1> USE DEF IInv
<1>1. PICK d \in Dirs : d = IF batch[1][fd] \in {"in", "err"} THEN "in" ELSE "out"
  BY DEF Dirs
<1>2. /\ pc = "batch"
      /\ \/ UNCHANGED <<pc, cur>>
         \/ table[<<fd, d>>] # None /\ cur' = table[<<fd, d>>] /\ pc' = "run"
      /\ UNCHANGED <<regs, removal>>
  BY <1>1 DEF RunCallback
<1>3. Types' /\ Tokens' /\ Keeps /\ Signals
  BY <1>2, NothingDone DEF regs
<1>4. CASE UNCHANGED <<pc, cur>>
  BY <1>3, <1>4, Ordinary
<1>5. CASE table[<<fd, d>>] # None /\ cur' = table[<<fd, d>>] /\ pc' = "run"
  <2>1. <<fd, d>> \in Fds \X Dirs /\ table[<<fd, d>>] \in Callbacks /\ table' = table
    BY <1>2, <1>5 DEF Types, regs
  <2>2. Current' /\ RunningIsAlive'
    BY <1>5, <2>1 DEF Current, RunningIsAlive, CallbackPcs
  <2>3. RemovalSignalled'
    BY <1>2, <1>5 DEF RemovalSignalled, removal
  <2> QED
    BY <1>3, <2>2, <2>3
<1> QED
  BY <1>2, <1>4, <1>5

LEMMA DispatchStep == ASSUME IInv, Wait \/ Dispatch PROVE IInv'
<1>1. CASE Wait
  BY <1>1, NothingDone, Ordinary DEF Wait, EpollWait, WaitFails, regs
<1>2. CASE BatchDone
  BY <1>2, NothingDone, Ordinary DEF BatchDone, regs
<1>3. CASE HandleStop
  BY <1>3, NothingDone, Ordinary DEF HandleStop, regs
<1>4. CASE DrainBegin
  BY <1>4 DEF DrainBegin, regs, IInv, Types, Tokens, Current, RunningIsAlive, RemovalSignalled,
             CallbackPcs
<1>5. ASSUME NEW fd \in Fds, RunCallback(fd) PROVE IInv'
  BY <1>5, RunStep
<1> QED
  BY <1>1, <1>2, <1>3, <1>4, <1>5 DEF Dispatch

(* The callback of the length goes to the queue before the table forgets   *)
(* it.                                                                     *)
LEMMA ReplaceStep == ASSUME IInv, ReplaceAction PROVE IInv'
<1> USE DEF IInv
<1> DEFINE k == key[cur.op]
           new == [cur EXCEPT !.gen = @ + 1]
<1>1. /\ pc = "run" /\ pc' = "batch" /\ cur.op \in cancelMap /\ table[k] # None
      /\ cur \in Callbacks /\ cur.gen \in {1, 3}
  BY DEF ReplaceAction, Current, CallbackPcs
<1>2. /\ table' = [table EXCEPT ![k] = new]
      /\ UNCHANGED <<cancelMap, key, token>>
  BY DEF ReplaceAction
<1>3. k \in Fds \X Dirs /\ new \in Callbacks
  BY <1>1 DEF Tokens, Types, Callbacks
<1> HIDE DEF k, new
<1>4. PICK c \in Callbacks : table[k] = c
  BY <1>1, <1>3 DEF Types
<1>5. UtilizeCallback(<<c>>)
  BY <1>4 DEF ReplaceAction, k
<1>6. \A j \in Fds \X Dirs : table'[j] = table[j] \/ table[j] = c
  BY <1>2, <1>3, <1>4 DEF Types
<1>7. <<c>> \in Seq(Callbacks) /\ 1 \in DOMAIN <<c>> /\ <<c>>[1] = c
  OBVIOUS
<1>8. /\ removeQueue' \in Seq(Callbacks)
      /\ \A x : Queued(x) => Queued(x)'
      /\ \A i \in DOMAIN <<c>> : Queued(<<c>>[i])'
      /\ Signals
  BY <1>5, <1>7, Utilize DEF Types
<1>9. Queued(c)'
  BY <1>7, <1>8
<1>10. Keeps
  BY <1>6, <1>8, <1>9 DEF Keeps, Live
<1>11. Types' /\ Tokens'
  BY <1>2, <1>3, <1>8 DEF Types, Tokens
<1> QED
  BY <1>1, <1>8, <1>10, <1>11, Ordinary

LEMMA CompleteStep == ASSUME IInv, Complete PROVE IInv'
<1> USE DEF IInv
<1>1. /\ pc = "run" /\ pc' = "after" /\ cur' = cur
      /\ DeregisterAction(cur.op)
      /\ token' = [token EXCEPT ![cur.op] = FALSE]
      /\ key' = key
  BY DEF Complete
<1>2. PICK o \in Ops : o = cur.op
  BY <1>1 DEF Current, CallbackPcs, Callbacks
<1>3. /\ table' \in [Fds \X Dirs -> Callbacks \cup {None}]
      /\ removeQueue' \in Seq(Callbacks)
      /\ cancelMap' = cancelMap \ {o}
      /\ Keeps /\ Signals
  BY <1>1, <1>2, Deregisters
<1>4. token' = [token EXCEPT ![o] = FALSE]
  BY <1>1, <1>2
<1>5. Types' /\ Tokens'
  BY <1>1, <1>3, <1>4 DEF Types, Tokens
<1> QED
  BY <1>1, <1>3, <1>5, Ordinary DEF CallbackPcs

LEMMA CallbackStep == ASSUME IInv, Callback PROVE IInv'
<1>1. CASE KeepCallback
  BY <1>1, NothingDone, Ordinary DEF KeepCallback, regs
<1>2. CASE ReplaceAction
  BY <1>2, ReplaceStep
<1>3. CASE Complete
  BY <1>3, CompleteStep
<1>4. ASSUME NEW fd \in Fds, Proceed(fd) PROVE IInv'
  <2>1. PICK o \in Ops : o = cur.op
    BY <1>4 DEF Proceed, IInv, Current, CallbackPcs, Callbacks
  <2>2. PICK d \in Dirs : d = GetOpposite(key[cur.op][2])
    BY DEF GetOpposite, Dirs
  <2>3. /\ RegisterAction(o, 3, fd, d, fd \in open)
        /\ pc = "after" /\ pc' \in {"after", "failed"} /\ UNCHANGED <<removal, cur>>
    BY <1>4, <2>1, <2>2 DEF Proceed
  <2> QED
    BY <2>3, Registers, Ordinary DEF CallbackPcs
<1>5. ASSUME NEW fd \in Fds, Establish(fd) \/ Notify(fd) PROVE IInv'
  BY <1>5, NothingDone, Ordinary DEF Establish, Notify, ReadCompleted, CallbackPcs, regs
<1>6. ASSUME NEW fd \in Fds, CloseFailed(fd) PROVE IInv'
  BY <1>6, DeregistersFd, Ordinary DEF CloseFailed, ReadCompleted, CallbackPcs
<1>7. ASSUME NEW fd \in Fds, NEW o \in Ops, ReadMessage(fd, o) PROVE IInv'
  <2>1. /\ RegisterAction(o, 1, fd, "in", fd \in open) /\ "in" \in Dirs
        /\ pc \in {"notified", "reading"} /\ pc' \in {"after", "readErr"}
        /\ UNCHANGED <<removal, cur>>
    BY <1>7 DEF ReadMessage, Dirs
  <2> QED
    BY <2>1, Registers, Ordinary DEF CallbackPcs
<1>8. ASSUME NEW fd \in Fds, NEW o \in Ops, SendNext(fd, o) PROVE IInv'
  <2>1. /\ RegisterAction(o, 1, fd, "out", fd \in open) /\ "out" \in Dirs
        /\ UNCHANGED <<removal, pc, cur>>
    BY <1>8 DEF SendNext, Dirs
  <2> QED
    BY <2>1, Registers, Ordinary
<1>9. CASE GiveUp
  BY <1>9, NothingDone, Ordinary DEF GiveUp, CallbackPcs
<1>10. CASE CallbackReturns
  BY <1>10, NothingDone, Ordinary DEF CallbackReturns, regs
<1> QED
  BY <1>1, <1>2, <1>3, <1>4, <1>5, <1>6, <1>7, <1>8, <1>9, <1>10 DEF Callback

LEMMA DestroyStep == ASSUME IInv, DestroyCallback PROVE IInv'
<1> USE DEF IInv
<1>1. pc = "destroy" /\ pc' = "drain"
  BY DEF DestroyCallback
<1>2. PICK o \in Ops : o = cur.op
  BY <1>1 DEF Current, Callbacks
<1>3. Types' /\ Tokens'
  <2>1. CASE UNCHANGED <<regs, removal>>
    BY <2>1 DEF Types, Tokens, regs, removal
  <2>2. CASE /\ token[o] /\ DeregisterAction(o)
             /\ token' = [token EXCEPT ![o] = FALSE]
             /\ key' = [key EXCEPT ![o] = None]
    <3>1. /\ table' \in [Fds \X Dirs -> Callbacks \cup {None}]
          /\ removeQueue' \in Seq(Callbacks)
          /\ cancelMap' = cancelMap \ {o}
      BY <2>2, Deregisters
    <3> QED
      BY <2>2, <3>1 DEF Types, Tokens
  <2>3. CASE /\ ~token[o] /\ UNCHANGED <<table, cancelMap, removal>>
             /\ token' = [token EXCEPT ![o] = FALSE]
             /\ key' = [key EXCEPT ![o] = None]
    BY <2>3 DEF Types, Tokens, removal
  <2> QED
    BY <1>2, <2>1, <2>2, <2>3 DEF DestroyCallback
<1> QED
  BY <1>1, <1>3 DEF Current, RunningIsAlive, RemovalSignalled, CallbackPcs

LEMMA DrainStep == ASSUME IInv, Drain PROVE IInv'
<1> USE DEF IInv
<1>1. CASE DrainOne
  <2>1. /\ pc' = "destroy"
        /\ removeQueue # <<>> /\ cur' = Head(removeQueue) /\ removeQueue' = Tail(removeQueue)
        /\ UNCHANGED <<table, cancelMap, key, token>>
    BY <1>1 DEF DrainOne, regs
  <2>2. cur' \in Callbacks /\ removeQueue' \in Seq(Callbacks)
    BY <2>1 DEF Types
  <2> QED
    BY <2>1, <2>2 DEF Types, Tokens, Current, RunningIsAlive, RemovalSignalled, CallbackPcs
<1>2. CASE DestroyCallback
  BY <1>2, DestroyStep
<1>3. CASE DrainEnd
  BY <1>3 DEF DrainEnd, regs, removal, Types, Tokens, Current, RunningIsAlive, RemovalSignalled,
             CallbackPcs
<1> QED
  BY <1>1, <1>2, <1>3 DEF Drain

-----------------------------------------------------------------------------
LEMMA Invariance == Spec => []IInv
<1>1. Init => IInv
  BY DEF Init, IInv, Types, Tokens, Current, RunningIsAlive, RemovalSignalled, CallbackPcs
<1>2. ASSUME IInv, [Next]_vars PROVE IInv'
  <2>1. CASE UNCHANGED vars
    BY <1>2, <2>1, NothingDone, Ordinary DEF vars, regs, loop
  <2> QED
    BY <1>2, <2>1, CommandStep, DispatchStep, CallbackStep, DrainStep DEF Next
<1> QED
  BY <1>1, <1>2, PTL DEF Spec

(* RunCallback gives up globalLock_ before it runs the callback; whatever  *)
(* other threads and the callback itself deregister or replace meanwhile,  *)
(* the callback stays in the table or in removeQueue_ until it returns.    *)
THEOREM RunningAlwaysAlive == Spec => []RunningIsAlive
<1>1. IInv => RunningIsAlive
  BY DEF IInv
<1> QED
  BY <1>1, Invariance, PTL

(* UtilizeCallback, HandleRemoveEvent: no callback waits in removeQueue_   *)
(* without removeEvent_ or the epoll thread about to see it.               *)
THEOREM RemovalAlwaysSignalled == Spec => []RemovalSignalled
<1>1. IInv => RemovalSignalled
  BY DEF IInv
<1> QED
  BY <1>1, Invariance, PTL

-----------------------------------------------------------------------------
(* What epoll watches.                                                     *)

Watched == kernel \in [Fds -> SUBSET Dirs] /\ EventsHaveCallbacks

LEMMA DirFacts ==
    /\ Dirs = {"in", "out"}
    /\ \A d \in Dirs : /\ GetOpposite(d) \in Dirs /\ GetOpposite(d) # d
                       /\ \A e \in Dirs : e = d \/ e = GetOpposite(d)
BY DEF Dirs, GetOpposite

LEMMA RegisterWatches ==
    ASSUME IInv, Watched, NEW o, NEW gen \in 1 .. 4, o \in Ops, NEW fd \in Fds, NEW d \in Dirs,
           NEW isOpen, RegisterAction(o, gen, fd, d, isOpen)
    PROVE  Watched'
<1>1. CASE Accepts(fd, d, isOpen)
  <2>1. /\ table' = [table EXCEPT ![<<fd, d>>] = [op |-> o, gen |-> gen]]
        /\ kernel' = [kernel EXCEPT ![fd] = {e \in Dirs : e = d \/ table[<<fd, e>>] # None}]
    BY <1>1 DEF RegisterAction
  <2>2. [op |-> o, gen |-> gen] # None
    BY EpollLoopAssumption DEF Callbacks
  <2>3. \A g \in Fds, e \in Dirs : table'[<<g, e>>] # None \/ table'[<<g, e>>] = table[<<g, e>>]
    BY <2>1, <2>2 DEF IInv, Types
  <2>4. table'[<<fd, d>>] # None
    BY <2>1, <2>2 DEF IInv, Types
  <2> QED
    BY <2>1, <2>3, <2>4 DEF Watched, EventsHaveCallbacks
<1>2. CASE ~Accepts(fd, d, isOpen)
  BY <1>2 DEF RegisterAction, regs, Watched, EventsHaveCallbacks
<1> QED
  BY <1>1, <1>2

LEMMA DeregisterWatches ==
    ASSUME IInv, Watched, NEW o \in Ops, DeregisterAction(o) PROVE Watched'
<1>1. CASE o \in cancelMap /\ table[key[o]] # None
  <2>1. PICK fd \in Fds, d \in Dirs : key[o] = <<fd, d>>
    BY <1>1 DEF IInv, Tokens
  <2>2. PICK e \in Dirs : e = GetOpposite(d) /\ e # d
    BY DirFacts
  <2>3. key[o][1] = fd /\ GetOpposite(key[o][2]) = e
    BY <2>1, <2>2
  <2>4. /\ table' = [table EXCEPT ![<<fd, d>>] = None]
        /\ kernel' = [kernel EXCEPT ![fd] = IF table[<<fd, e>>] # None /\ kernel[fd] # {}
                                            THEN {e} ELSE {}]
    BY <1>1, <2>1, <2>3 DEF DeregisterAction
  <2>5. /\ \A g \in Fds, c \in Dirs : <<g, c>> # <<fd, d>> => table'[<<g, c>>] = table[<<g, c>>]
        /\ \A g \in Fds : g # fd => kernel'[g] = kernel[g]
        /\ kernel'[fd] = IF table[<<fd, e>>] # None /\ kernel[fd] # {} THEN {e} ELSE {}
    BY <2>4 DEF IInv, Types, Watched
  <2>6. kernel' \in [Fds -> SUBSET Dirs]
    BY <2>4 DEF Watched
  <2>7. <<fd, e>> # <<fd, d>>
    BY <2>2
  <2>8. ASSUME NEW g \in Fds PROVE kernel'[g] \subseteq {c \in Dirs : table'[<<g, c>>] # None}
    <3>1. CASE g = fd
      BY <2>5, <2>7, <3>1
    <3>2. CASE g # fd
      BY <2>5, <3>2 DEF Watched, EventsHaveCallbacks
    <3> QED
      BY <3>1, <3>2
  <2> QED
    BY <2>6, <2>8 DEF Watched, EventsHaveCallbacks
<1>2. CASE ~(o \in cancelMap /\ table[key[o]] # None)
  <2>1. UNCHANGED <<table, kernel, removal>>
    BY <1>2, Zenon DEF DeregisterAction
  <2> QED
    BY <2>1 DEF Watched, EventsHaveCallbacks
<1> QED
  BY <1>1, <1>2

LEMMA DeregisterFdWatches ==
    ASSUME IInv, Watched, NEW fd \in Fds, DeregisterFd(fd) PROVE Watched'
<1>1. /\ table' = [table EXCEPT ![<<fd, "in">>] = None, ![<<fd, "out">>] = None]
      /\ kernel' = [kernel EXCEPT ![fd] = {}]
           \/ (kernel' = kernel /\ \A d \in Dirs : table[<<fd, d>>] = None)
  BY DirFacts DEF DeregisterFd
<1>2. \A g \in Fds, d \in Dirs : g # fd => table'[<<g, d>>] = table[<<g, d>>]
  BY <1>1 DEF IInv, Types
<1>3. kernel'[fd] = {} /\ kernel' \in [Fds -> SUBSET Dirs] /\ \A g \in Fds : g # fd => kernel'[g] = kernel[g]
  BY <1>1 DEF Watched, EventsHaveCallbacks
<1> QED
  BY <1>2, <1>3 DEF Watched, EventsHaveCallbacks

(* close(): the kernel forgets the descriptor, or nothing changes.         *)
LEMMA CloseWatches ==
    ASSUME IInv, Watched, table' = table,
           kernel' = kernel \/ \E fd \in Fds : kernel' = [kernel EXCEPT ![fd] = {}]
    PROVE  Watched'
<1>1. kernel' \in [Fds -> SUBSET Dirs] /\ \A fd \in Fds : kernel'[fd] = {} \/ kernel'[fd] = kernel[fd]
  BY DEF Watched
<1> QED
  BY <1>1 DEF Watched, EventsHaveCallbacks

LEMMA CommandWatches == ASSUME IInv, Watched, Command PROVE Watched'
<1>1. ASSUME NEW t \in Threads, NEW fd \in Fds, NEW o \in Ops, NEW d \in Dirs,
             Connect(t, fd, o, d)
      PROVE  Watched'
  <2>1. RegisterAction(o, 1, fd, d, TRUE)
    BY <1>1 DEF Connect
  <2>2. 1 \in 1 .. 4
    OBVIOUS
  <2> QED
    BY <2>1, <2>2, RegisterWatches
<1>2. ASSUME NEW t \in Threads, NEW fd \in Fds, NEW o \in Ops, StartSend(t, fd, o)
      PROVE  Watched'
  <2>1. RegisterAction(o, 1, fd, "out", fd \in open) /\ "out" \in Dirs
    BY <1>2, DirFacts DEF StartSend
  <2> QED
    BY <2>1, RegisterWatches
<1>3. ASSUME NEW t \in Threads, NEW fd \in Fds, CloseBegin(t, fd) PROVE Watched'
  BY <1>3, DeregisterFdWatches DEF CloseBegin
<1>4. ASSUME NEW t \in Threads, CloseEnd(t) PROVE Watched'
  <2>1. table' = table /\ kernel' = [kernel EXCEPT ![closing[t]] = {}]
    BY <1>4 DEF CloseEnd
  <2>2. CASE closing[t] \in Fds
    BY <2>1, <2>2, CloseWatches
  <2>3. CASE closing[t] \notin Fds
    BY <2>1, <2>3 DEF Watched, EventsHaveCallbacks
  <2> QED
    BY <2>2, <2>3
<1>5. CASE Stop
  BY <1>5, CloseWatches DEF Stop, regs
<1> QED
  BY <1>1, <1>2, <1>3, <1>4, <1>5 DEF Command

LEMMA LoopWatches == ASSUME IInv, Watched, Wait \/ Dispatch \/ Drain PROVE Watched'
<1>1. CASE Wait \/ Dispatch
  BY <1>1, CloseWatches DEF Wait, EpollWait, WaitFails, Dispatch, BatchDone, HandleStop,
     DrainBegin, RunCallback, regs
<1>2. CASE DrainOne \/ DrainEnd
  BY <1>2, CloseWatches DEF DrainOne, DrainEnd, regs
<1>3. CASE DestroyCallback
  <2>1. cur.op \in Ops
    BY <1>3 DEF DestroyCallback, IInv, Current, Callbacks
  <2>2. DeregisterAction(cur.op) \/ UNCHANGED <<table, kernel>>
    BY <1>3 DEF DestroyCallback, regs
  <2> QED
    BY <2>1, <2>2, DeregisterWatches, CloseWatches
<1> QED
  BY <1>1, <1>2, <1>3 DEF Drain

LEMMA CallbackWatches == ASSUME IInv, Watched, Callback PROVE Watched'
<1> USE DEF CallbackPcs
<1>1. CASE KeepCallback \/ CallbackReturns
  BY <1>1, CloseWatches DEF KeepCallback, CallbackReturns, regs
<1>2. CASE ReplaceAction
  <2>1. /\ key[cur.op] \in Fds \X Dirs /\ [cur EXCEPT !.gen = @ + 1] \in Callbacks
        /\ table' = [table EXCEPT ![key[cur.op]] = [cur EXCEPT !.gen = @ + 1]]
        /\ kernel' = kernel
    BY <1>2 DEF ReplaceAction, IInv, Tokens, Current, Callbacks
  <2>2. \A k \in Fds \X Dirs : table'[k] # None \/ table'[k] = table[k]
    BY <2>1, EpollLoopAssumption DEF IInv, Types
  <2> QED
    BY <2>1, <2>2 DEF Watched, EventsHaveCallbacks
<1>3. CASE Complete
  <2>1. cur.op \in Ops /\ DeregisterAction(cur.op)
    BY <1>3 DEF Complete, IInv, Current, Callbacks
  <2> QED
    BY <2>1, DeregisterWatches
<1>4. ASSUME NEW fd \in Fds, Proceed(fd) PROVE Watched'
  <2>1. PICK o \in Ops : o = cur.op
    BY <1>4 DEF Proceed, IInv, Current, Callbacks
  <2>2. PICK d \in Dirs : d = GetOpposite(key[cur.op][2])
    BY DEF GetOpposite, Dirs
  <2>3. RegisterAction(o, 3, fd, d, fd \in open)
    BY <1>4, <2>1, <2>2 DEF Proceed
  <2> QED
    BY <2>3, RegisterWatches
<1>5. ASSUME NEW fd \in Fds, Establish(fd) \/ Notify(fd) PROVE Watched'
  BY <1>5, CloseWatches DEF Establish, Notify, regs
<1>6. ASSUME NEW fd \in Fds, CloseFailed(fd) PROVE Watched'
  BY <1>6, DeregisterFdWatches DEF CloseFailed
<1>7. ASSUME NEW fd \in Fds, NEW o \in Ops, ReadMessage(fd, o) PROVE Watched'
  <2>1. RegisterAction(o, 1, fd, "in", fd \in open) /\ "in" \in Dirs
    BY <1>7, DirFacts DEF ReadMessage
  <2> QED
    BY <2>1, RegisterWatches
<1>8. ASSUME NEW fd \in Fds, NEW o \in Ops, SendNext(fd, o) PROVE Watched'
  <2>1. RegisterAction(o, 1, fd, "out", fd \in open) /\ "out" \in Dirs
    BY <1>8, DirFacts DEF SendNext
  <2> QED
    BY <2>1, RegisterWatches
<1>9. CASE GiveUp
  <2>1. table' = table /\ kernel' = [kernel EXCEPT ![curFd] = {}]
    BY <1>9 DEF GiveUp
  <2>2. CASE curFd \in Fds
    BY <2>1, <2>2, CloseWatches
  <2>3. CASE curFd \notin Fds
    BY <2>1, <2>3 DEF Watched, EventsHaveCallbacks
  <2> QED
    BY <2>2, <2>3
<1> QED
  BY <1>1, <1>2, <1>3, <1>4, <1>5, <1>6, <1>7, <1>8, <1>9 DEF Callback

(* RegisterAction, DeregisterAction, DeregisterFd and close(): whichever   *)
(* threads call them and however descriptor numbers are reused, epoll      *)
(* watches no direction of a descriptor without a callback, so no level-   *)
(* triggered event is reported that nobody takes away.                     *)
THEOREM EventsAlwaysHaveCallbacks == Spec => []EventsHaveCallbacks
<1>1. Init => Watched
  BY DEF Init, Watched, EventsHaveCallbacks
<1>2. ASSUME IInv, Watched, [Next]_vars PROVE Watched'
  <2>1. CASE UNCHANGED vars
    BY <1>2, <2>1, CloseWatches DEF vars, regs
  <2> QED
    BY <1>2, <2>1, CommandWatches, LoopWatches, CallbackWatches DEF Next
<1>3. Watched => EventsHaveCallbacks
  BY DEF Watched
<1> QED
  BY <1>1, <1>2, <1>3, Invariance, PTL DEF Spec
=============================================================================

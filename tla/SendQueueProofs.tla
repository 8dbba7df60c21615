-------------------------- MODULE SendQueueProofs --------------------------
(***************************************************************************)
(* Proofs about the life of one connection, for every number of threads    *)
(* and messages: the baton of the send queue, the front of the queue, no   *)
(* lost wakeup, closing once, and the refinement of MessageChannel.        *)
(***************************************************************************)
EXTENDS SendQueue, TLAPS

(* Where the epoll thread is inside the callback of the send operation.    *)
CallbackPcs == {"sendLen", "replace", "sendBody", "deregister"}

(* The steps between finding the connection in activeConns and telling.    *)
CloserPcs == {"unmap", "dropQueue", "tell"}

(* The baton: one thread or the registered operation has it, the thread    *)
(* only together with its own operation, and then the queue is not empty,  *)
(* so nobody else picks one up.                                            *)
Baton ==
    /\ \A t, u \in Threads : Sending(t) /\ Sending(u) => t = u
    /\ \A t \in Threads : Sending(t) => queue # <<>>
    /\ outAct # None => queue # <<>>
    /\ \A t \in Threads : Sending(t) /\ outAct # None => pc[t] \in CallbackPcs
    /\ \A t \in Threads : pc[t] \in CallbackPcs => t = Epoll

(* The front is the empty Message exactly while its message is under way;  *)
(* everything behind it is a message.                                      *)
Front ==
    /\ queue # NoQueue => \A i \in 2 .. Len(queue) : queue[i] \in Msgs
    /\ outAct # None => outAct.msg \in Msgs
    /\ outAct # None /\ queue # NoQueue => queue[1] = Moved
    /\ \A t \in Threads :
         /\ pc[t] \in {"lookup", "enqueue", "register"} \cup CallbackPcs => held[t] \in Msgs
         /\ pc[t] = "take" /\ queue # NoQueue => queue[1] \in Msgs
         /\ pc[t] \in SendPcs \ {"take"} /\ queue # NoQueue => queue[1] = Moved

(* A baton is lost only on the way to closing.                             *)
Wakeup ==
    /\ NoStalledQueue
    /\ ~active \/ ~fdOpen => closing
    /\ \A t \in Threads :
         /\ pc[t] \in {"sendLen", "replace", "sendBody"} /\ outAct = None => closing
         /\ pc[t] \in {"closeFd", "unlist"} \cup CloserPcs => closing

(* One thread takes the connection out of activeConns; it goes on alone.   *)
Closer ==
    /\ \A t, u \in Threads : pc[t] \in CloserPcs /\ pc[u] \in CloserPcs => t = u
    /\ told \in {0, 1}
    /\ active => told = 0
    /\ told = 1 => ~active /\ ~mapped /\ queue = NoQueue /\ ~fdOpen
    /\ \A t \in Threads :
         /\ pc[t] = "unlist" => ~fdOpen
         /\ pc[t] \in CloserPcs => ~active /\ ~fdOpen /\ told = 0
         /\ pc[t] \in {"dropQueue", "tell"} => ~mapped
         /\ pc[t] = "tell" => queue = NoQueue

(* TypeOK in two parts: where the threads are, and the rest.               *)
Pcs == {"idle"} \cup SendPcs \cup ReadPcs \cup ClosePcs \cup UserPcs

Control == pc \in [Threads -> Pcs] /\ connMutex \in Threads \cup {None}

Data ==
    /\ held \in [Threads -> Nat]
    /\ active \in BOOLEAN /\ mapped \in BOOLEAN
    /\ queue \in Seq(Nat) \cup {NoQueue}
    /\ inAct \in BOOLEAN
    /\ outAct \in Operations \cup {None}
    /\ event \in {"none", "in", "out", "err", "errOut"}
    /\ fdOpen \in BOOLEAN /\ broken \in BOOLEAN
    /\ calls \in 0 .. MaxMsgs
    /\ accepted \in Seq(Msgs)
    /\ wire \in Seq(Msgs) /\ unsent \in Seq(Msgs)
    /\ closing \in BOOLEAN
    /\ told \in Nat

(* What a callback carries is what is registered; the queue goes away after *)
(* the descriptor; an error is reported of a broken connection only.       *)
Carried ==
    /\ \A t \in Threads :
         pc[t] \in {"sendLen", "replace", "sendBody"} /\ outAct # None => held[t] = outAct.msg
    /\ queue = NoQueue => ~fdOpen
    /\ event \in {"err", "errOut"} => broken

IInv == Control /\ Data /\ Baton /\ Front /\ Wakeup /\ Closer /\ Carried

-----------------------------------------------------------------------------
(* Sequences.                                                              *)

LEMMA FrontMoved ==
    ASSUME NEW q \in Seq(Nat), q # <<>>
    PROVE  LET r == [q EXCEPT ![1] = Moved]
           IN  /\ r \in Seq(Nat) /\ r # <<>> /\ Len(r) = Len(q) /\ r[1] = Moved
               /\ \A i \in 2 .. Len(q) : r[i] = q[i]
BY DEF Moved

LEMMA Popped ==
    ASSUME NEW q \in Seq(Nat), q # <<>>
    PROVE  /\ Tail(q) \in Seq(Nat) /\ Len(Tail(q)) = Len(q) - 1
           /\ \A i \in 1 .. Len(q) - 1 : Tail(q)[i] = q[i + 1]
           /\ Tail(q) # <<>> => 2 \in 2 .. Len(q)
OBVIOUS

LEMMA Pushed ==
    ASSUME NEW q \in Seq(Nat), NEW m \in Nat
    PROVE  /\ Append(q, m) \in Seq(Nat) /\ Append(q, m) # <<>>
           /\ Len(Append(q, m)) = Len(q) + 1
           /\ \A i \in 1 .. Len(q) : Append(q, m)[i] = q[i]
           /\ Append(q, m)[Len(q) + 1] = m
OBVIOUS

LEMMA NoneDiffers == None # <<>> /\ None \notin Operations /\ \A q \in Seq(Nat) : q # None
<1>1. <<>> \in Seq(Nat)
  OBVIOUS
<1> QED
  BY <1>1, SendQueueAssumption DEF Operations

-----------------------------------------------------------------------------
(* The steps of SendMessage, SendMessageFd and the completion.             *)

LEMMA SendMessageStep == ASSUME IInv, NEW t \in Threads, SendMessage(t) PROVE IInv'
<1> USE DEF IInv, SendMessage, Goto, Return, local, tables, actions, history, NoQueue
<1>a. calls + 1 \in Msgs /\ Msgs \subseteq Nat
  BY SendQueueAssumption DEF Data, Msgs
<1>1. Control'
  BY DEF Control, Pcs, SendPcs, ReadPcs, ClosePcs, UserPcs, Threads
<1>2. Data'
  BY <1>a DEF Data, Msgs
<1>3. Baton'
  BY DEF Control, Baton, Sending, SendPcs, CallbackPcs, Threads
<1>4. Front'
  BY <1>a DEF Control, Data, Front, SendPcs, CallbackPcs
<1>5. Wakeup'
  BY DEF Control, Wakeup, NoStalledQueue, Sending, SendPcs, CloserPcs, Threads
<1>6. Closer'
  BY DEF Control, Data, Closer, CloserPcs, Threads
<1>7. Carried'
  BY DEF Control, Data, Carried, Baton, Sending, SendPcs, CallbackPcs, Threads
<1> QED
  BY <1>1, <1>2, <1>3, <1>4, <1>5, <1>6, <1>7

LEMMA LookupStep == ASSUME IInv, NEW t \in Threads, Lookup(t) PROVE IInv'
<1> USE DEF IInv, Lookup, Goto, Return, local, tables, actions, history, NoQueue
<1>1. Control'
  BY DEF Control, Pcs, SendPcs, ReadPcs, ClosePcs, UserPcs, Threads
<1>2. Data'
  BY DEF Data, Control, Operations
<1>3. Baton'
  BY DEF Control, Baton, Sending, SendPcs, CallbackPcs, Threads
<1>4. Front'
  BY DEF Control, Data, Front, SendPcs, CallbackPcs, Threads
<1>5. Wakeup'
  BY DEF Control, Wakeup, NoStalledQueue, Sending, SendPcs, CloserPcs, Threads
<1>6. Closer'
  BY DEF Control, Data, Closer, CloserPcs, Threads
<1>7. Carried'
  BY DEF Control, Data, Carried, Baton, Sending, SendPcs, CallbackPcs, Threads
<1> QED
  BY <1>1, <1>2, <1>3, <1>4, <1>5, <1>6, <1>7

LEMMA EnqueueStep == ASSUME IInv, NEW t \in Threads, Enqueue(t) PROVE IInv'
<1> USE DEF IInv, Enqueue, Goto, Return, local, tables, actions, history, NoQueue
<1>a. held[t] \in Msgs /\ held[t] \in Nat /\ pc[t] = "enqueue"
  BY DEF Front, Data
<1>1. Control'
  BY DEF Control, Pcs, SendPcs, ReadPcs, ClosePcs, UserPcs, Threads
<1>2. Data'
  <2>1. accepted \in Seq(Msgs) => Append(accepted, held[t]) \in Seq(Msgs)
    BY <1>a
  <2>2. queue \in Seq(Nat) => Append(queue, held[t]) \in Seq(Nat)
    BY <1>a
  <2>3. queue' \in Seq(Nat) \cup {None} /\ accepted' \in Seq(Msgs)
    BY <2>1, <2>2 DEF Data
  <2> QED
    BY <2>3 DEF Data
<1>3. Baton'
  BY DEF Control, Baton, Sending, SendPcs, CallbackPcs, Threads
<1>4. Front'
  <2>1. CASE queue = NoQueue
    BY <2>1 DEF Control, Front, SendPcs, CallbackPcs
  <2>2. CASE queue # NoQueue
    <3>1. /\ queue' = Append(queue, held[t]) /\ held' = held /\ outAct' = outAct
          /\ \A u \in Threads : u # t => pc'[u] = pc[u]
          /\ pc'[t] \in {"idle", "take"}
          /\ pc'[t] = "take" => queue = <<>>
      BY <2>2, <1>a, Pushed DEF Control, Data
    <3>2. /\ Len(queue') = Len(queue) + 1 /\ Len(queue) \in Nat
          /\ \A i \in 1 .. Len(queue) : queue'[i] = queue[i]
          /\ queue'[Len(queue) + 1] = held[t]
      BY <2>2, <3>1, <1>a, Pushed DEF Data
    <3>3. ASSUME NEW i \in 2 .. Len(queue') PROVE queue'[i] \in Msgs
      <4>1. i = Len(queue) + 1 \/ i \in 2 .. Len(queue)
        BY <3>2
      <4> QED
        BY <2>2, <3>2, <4>1, <1>a DEF Front
    <3>4. queue # <<>> => queue'[1] = queue[1]
      BY <2>2, <3>2 DEF Data
    <3>5. queue = <<>> => queue'[1] = held[t]
      BY <3>2
    <3>6. outAct # None => queue # <<>>
      BY DEF Baton
    <3>7. \A u \in Threads : pc[u] \in SendPcs => queue # <<>>
      BY DEF Baton, Sending
    <3> QED
      BY <2>2, <3>1, <3>3, <3>4, <3>5, <3>6, <3>7, <1>a DEF Front, SendPcs, CallbackPcs
  <2> QED
    BY <2>1, <2>2
<1>5. Wakeup'
  BY DEF Control, Wakeup, NoStalledQueue, Sending, SendPcs, CloserPcs, Threads
<1>6. Closer'
  BY DEF Control, Data, Closer, CloserPcs, Threads
<1>7. Carried'
  <2>1. queue # None => queue \in Seq(Nat) /\ (queue' = queue \/ queue' = Append(queue, held[t]))
    BY DEF Data
  <2>2. queue # None => queue' # None
    BY <1>a, <2>1, Pushed, NoneDiffers
  <2> QED
    BY <1>a, <2>2 DEF Control, Carried
<1> QED
  BY <1>1, <1>2, <1>3, <1>4, <1>5, <1>6, <1>7

LEMMA TakeStep == ASSUME IInv, NEW t \in Threads, Take(t) PROVE IInv'
<1> USE DEF IInv, Take, Goto, Return, local, tables, actions, history, NoQueue
<1>a. queue # <<>> /\ pc[t] = "take" /\ outAct = None
  BY DEF Baton, Sending, SendPcs, CallbackPcs
<1>b. queue # None => /\ queue[1] \in Msgs /\ queue[1] \in Nat
                      /\ queue' \in Seq(Nat) /\ queue' # <<>>
                      /\ Len(queue') = Len(queue) /\ queue'[1] = Moved
                      /\ \A i \in 2 .. Len(queue) : queue'[i] = queue[i]
                      /\ held' = [held EXCEPT ![t] = queue[1]]
                      /\ pc' = [pc EXCEPT ![t] = "register"]
  <2>1. SUFFICES ASSUME queue # None
                 PROVE  /\ queue[1] \in Msgs /\ queue[1] \in Nat
                        /\ queue' \in Seq(Nat) /\ queue' # <<>>
                        /\ Len(queue') = Len(queue) /\ queue'[1] = Moved
                        /\ \A i \in 2 .. Len(queue) : queue'[i] = queue[i]
                        /\ held' = [held EXCEPT ![t] = queue[1]]
                        /\ pc' = [pc EXCEPT ![t] = "register"]
    OBVIOUS
  <2>2. queue \in Seq(Nat) /\ queue[1] \in Msgs
    BY <1>a, <2>1 DEF Data, Front
  <2>3. queue[1] \in Nat /\ Head(queue) = queue[1]
    BY <1>a, <2>2
  <2>4. queue' = [queue EXCEPT ![1] = Moved]
    BY <1>a, <2>1
  <2>5. /\ queue' \in Seq(Nat) /\ queue' # <<>>
        /\ Len(queue') = Len(queue) /\ queue'[1] = Moved
        /\ \A i \in 2 .. Len(queue) : queue'[i] = queue[i]
    BY <1>a, <2>2, <2>4, FrontMoved
  <2> QED
    BY <1>a, <2>1, <2>2, <2>3, <2>5
<1>c. queue = None => pc' = [pc EXCEPT ![t] = "idle"] /\ UNCHANGED <<queue, held>>
  BY <1>a
<1>1. Control'
  BY DEF Control, Pcs, SendPcs, ReadPcs, ClosePcs, UserPcs, Threads
<1>2. Data'
  BY <1>b, <1>c DEF Data
<1>3. Baton'
  BY <1>a, <1>b, <1>c DEF Control, Baton, Sending, SendPcs, CallbackPcs
<1>4. Front'
  <2>1. CASE queue = None
    BY <1>c, <2>1 DEF Control, Front, SendPcs, CallbackPcs
  <2>2. CASE queue # None
    <3>1. /\ pc' = [pc EXCEPT ![t] = "register"] /\ held' = [held EXCEPT ![t] = queue[1]]
          /\ queue[1] \in Msgs /\ queue'[1] = Moved /\ outAct' = None
          /\ Len(queue') = Len(queue)
          /\ \A i \in 2 .. Len(queue) : queue'[i] = queue[i]
      BY <1>a, <1>b, <2>2
    <3>2. \A u \in Threads : pc[u] \in SendPcs => u = t
      BY <1>a DEF Baton, Sending, SendPcs
    <3>3. \A i \in 2 .. Len(queue') : queue'[i] \in Msgs
      BY <2>2, <3>1 DEF Front
    <3> QED
      BY <3>1, <3>2, <3>3 DEF Control, Data, Front, SendPcs, CallbackPcs
  <2> QED
    BY <2>1, <2>2
<1>5. Wakeup'
  BY DEF Control, Wakeup, NoStalledQueue, Sending, SendPcs, CloserPcs, Threads
<1>6. Closer'
  BY DEF Control, Data, Closer, CloserPcs, Threads
<1>7. Carried'
  BY <1>a, <1>b, <1>c, NoneDiffers DEF Control, Carried
<1> QED
  BY <1>1, <1>2, <1>3, <1>4, <1>5, <1>6, <1>7

LEMMA Appended ==
    ASSUME NEW s \in Seq(Msgs), NEW m \in Msgs PROVE Append(s, m) \in Seq(Msgs)
  OBVIOUS

LEMMA RegisterStep == ASSUME IInv, NEW t \in Threads, Register(t) PROVE IInv'
<1> USE DEF IInv, Register, FailSend, Goto, Return, local, tables, actions, history, NoQueue
<1>a. pc[t] = "register" /\ held[t] \in Nat /\ [msg |-> held[t], stage |-> "len"] \in Operations
  BY DEF Data, Operations
<1>b. held[t] \in Msgs
  BY <1>a DEF Front
<1>u. unsent' \in Seq(Msgs)
  BY <1>b, Appended DEF Data
<1>1. Control'
  BY DEF Control, Pcs, SendPcs, ReadPcs, ClosePcs, UserPcs, Threads
<1>2. Data'
  BY <1>a, <1>u DEF Data
<1>3. Baton'
  BY DEF Control, Baton, Sending, SendPcs, CallbackPcs, Threads
<1>4. Front'
  BY DEF Control, Data, Front, SendPcs, CallbackPcs, Threads
<1>5. Wakeup'
  BY <1>a, NoneDiffers DEF Control, Wakeup, NoStalledQueue, Sending, SendPcs, CloserPcs, Baton, CallbackPcs
<1>6. Closer'
  BY DEF Control, Data, Closer, CloserPcs, Threads
<1>7. Carried'
  BY DEF Control, Data, Carried, Baton, Sending, SendPcs, CallbackPcs, Threads
<1> QED
  BY <1>1, <1>2, <1>3, <1>4, <1>5, <1>6, <1>7

LEMMA SendPartStep == ASSUME IInv, NEW t \in Threads, SendPart(t) PROVE IInv'
<1> USE DEF IInv, SendPart, Goto, Return, local, tables, actions, history, NoQueue
<1>1. Control'
  BY DEF Control, Pcs, SendPcs, ReadPcs, ClosePcs, UserPcs, Threads
<1>2. Data'
  BY DEF Data, Control, Operations
<1>3. Baton'
  BY DEF Control, Baton, Sending, SendPcs, CallbackPcs, Threads
<1>4. Front'
  BY DEF Control, Data, Front, SendPcs, CallbackPcs, Threads
<1>5. Wakeup'
  BY DEF Control, Wakeup, NoStalledQueue, Sending, SendPcs, CloserPcs, Threads
<1>6. Closer'
  BY DEF Control, Data, Closer, CloserPcs, Threads
<1>7. Carried'
  BY DEF Control, Data, Carried, Baton, Sending, SendPcs, CallbackPcs, Threads
<1> QED
  BY <1>1, <1>2, <1>3, <1>4, <1>5, <1>6, <1>7

LEMMA SendLengthStep == ASSUME IInv, NEW t \in Threads, SendLength(t) PROVE IInv'
<1> USE DEF IInv, SendLength, FailSend, Goto, Return, local, tables, actions, history, NoQueue
<1>a. held[t] \in Msgs
  BY DEF Front, CallbackPcs
<1>u. unsent' \in Seq(Msgs)
  BY <1>a, Appended DEF Data
<1>1. Control'
  BY DEF Control, Pcs, SendPcs, ReadPcs, ClosePcs, UserPcs, Threads
<1>2. Data'
  BY <1>u DEF Data, Operations
<1>3. Baton'
  BY DEF Control, Baton, Sending, SendPcs, CallbackPcs, Threads
<1>4. Front'
  BY DEF Control, Data, Front, SendPcs, CallbackPcs, Threads
<1>5. Wakeup'
  BY DEF Control, Wakeup, NoStalledQueue, Sending, SendPcs, CloserPcs, Threads
<1>6. Closer'
  BY DEF Control, Data, Closer, CloserPcs, Threads
<1>7. Carried'
  BY DEF Control, Data, Carried, Baton, Sending, SendPcs, CallbackPcs, Threads
<1> QED
  BY <1>1, <1>2, <1>3, <1>4, <1>5, <1>6, <1>7

LEMMA ReplaceStep == ASSUME IInv, NEW t \in Threads, Replace(t) PROVE IInv'
<1> USE DEF IInv, Replace, FailSend, Goto, Return, local, tables, actions, history, NoQueue
<1>a. pc[t] = "replace" /\ \A u \in Threads : pc[u] \in CallbackPcs => u = t
  BY DEF Baton, CallbackPcs
<1>b. outAct # None => /\ outAct' \in Operations /\ outAct' # None /\ outAct'.msg = outAct.msg
                       /\ pc' = [pc EXCEPT ![t] = "idle"]
  BY NoneDiffers DEF Data, Operations
<1>c. outAct = None => outAct' = None /\ pc' = [pc EXCEPT ![t] = "deregister"]
  OBVIOUS
<1>d. held[t] \in Msgs
  BY DEF Front, CallbackPcs
<1>u. unsent' \in Seq(Msgs)
  BY <1>d, Appended DEF Data
<1>1. Control'
  BY DEF Control, Pcs, SendPcs, ReadPcs, ClosePcs, UserPcs, Threads
<1>2. Data'
  BY <1>b, <1>c, <1>u DEF Data
<1>3. Baton'
  BY <1>a, <1>b, <1>c DEF Control, Baton, Sending, SendPcs, CallbackPcs
<1>4. Front'
  BY <1>a, <1>b, <1>c DEF Control, Front, SendPcs, CallbackPcs
<1>5. Wakeup'
  <2>1. CASE outAct = None
    BY <1>a, <1>c, <2>1 DEF Control, Wakeup, NoStalledQueue, CloserPcs, CallbackPcs
  <2>2. CASE outAct # None
    BY <1>a, <1>b, <2>2 DEF Control, Wakeup, NoStalledQueue, CloserPcs, CallbackPcs
  <2> QED
    BY <2>1, <2>2
<1>6. Closer'
  BY DEF Control, Data, Closer, CloserPcs, Threads
<1>7. Carried'
  BY DEF Control, Data, Carried, Baton, Sending, SendPcs, CallbackPcs, Threads
<1> QED
  BY <1>1, <1>2, <1>3, <1>4, <1>5, <1>6, <1>7

LEMMA SendBodyStep == ASSUME IInv, NEW t \in Threads, SendBody(t) PROVE IInv'
<1> USE DEF IInv, SendBody, FailSend, Goto, Return, local, tables, actions, history, NoQueue
<1>a. held[t] \in Msgs
  BY DEF Front, CallbackPcs
<1>u. unsent' \in Seq(Msgs) /\ wire' \in Seq(Msgs)
  BY <1>a, Appended DEF Data
<1>1. Control'
  BY DEF Control, Pcs, SendPcs, ReadPcs, ClosePcs, UserPcs, Threads
<1>2. Data'
  BY <1>u DEF Data, Operations
<1>3. Baton'
  BY DEF Control, Baton, Sending, SendPcs, CallbackPcs, Threads
<1>4. Front'
  BY DEF Control, Data, Front, SendPcs, CallbackPcs, Threads
<1>5. Wakeup'
  BY DEF Control, Wakeup, NoStalledQueue, Sending, SendPcs, CloserPcs, Threads
<1>6. Closer'
  BY DEF Control, Data, Closer, CloserPcs, Threads
<1>7. Carried'
  BY DEF Control, Data, Carried, Baton, Sending, SendPcs, CallbackPcs, Threads
<1> QED
  BY <1>1, <1>2, <1>3, <1>4, <1>5, <1>6, <1>7

LEMMA DeregisterStep == ASSUME IInv, NEW t \in Threads, Deregister(t) PROVE IInv'
<1> USE DEF IInv, Deregister, Goto, Return, local, tables, actions, history, NoQueue
<1>1. Control'
  BY DEF Control, Pcs, SendPcs, ReadPcs, ClosePcs, UserPcs, Threads
<1>2. Data'
  BY DEF Data, Control, Operations
<1>3. Baton'
  BY DEF Control, Baton, Sending, SendPcs, CallbackPcs, Threads
<1>4. Front'
  BY DEF Control, Data, Front, SendPcs, CallbackPcs, Threads
<1>5. Wakeup'
  BY DEF Control, Wakeup, NoStalledQueue, Sending, SendPcs, CloserPcs, Baton, CallbackPcs
<1>6. Closer'
  BY DEF Control, Data, Closer, CloserPcs, Threads
<1>7. Carried'
  BY DEF Control, Data, Carried, Baton, Sending, SendPcs, CallbackPcs, Threads
<1> QED
  BY <1>1, <1>2, <1>3, <1>4, <1>5, <1>6, <1>7

LEMMA CheckActiveStep == ASSUME IInv, NEW t \in Threads, CheckActive(t) PROVE IInv'
<1> USE DEF IInv, CheckActive, Goto, Return, local, tables, actions, history, NoQueue
<1>1. Control'
  BY DEF Control, Pcs, SendPcs, ReadPcs, ClosePcs, UserPcs, Threads
<1>2. Data'
  BY DEF Data, Control, Operations
<1>3. Baton'
  BY DEF Control, Baton, Sending, SendPcs, CallbackPcs, Threads
<1>4. Front'
  BY DEF Control, Data, Front, SendPcs, CallbackPcs, Threads
<1>5. Wakeup'
  BY DEF Control, Wakeup, NoStalledQueue, Sending, SendPcs, CloserPcs, Threads
<1>6. Closer'
  BY DEF Control, Data, Closer, CloserPcs, Threads
<1>7. Carried'
  BY DEF Control, Data, Carried, Baton, Sending, SendPcs, CallbackPcs, Threads
<1> QED
  BY <1>1, <1>2, <1>3, <1>4, <1>5, <1>6, <1>7

LEMMA PopStep == ASSUME IInv, NEW t \in Threads, Pop(t) PROVE IInv'
<1> USE DEF IInv, Pop, Goto, Return, local, tables, actions, history, NoQueue
<1>a. pc[t] = "pop" /\ outAct = None /\ queue # <<>>
  BY DEF Baton, Sending, SendPcs, CallbackPcs
<1>b. queue # None => /\ queue' = Tail(queue) /\ queue' \in Seq(Nat)
                      /\ \A i \in 1 .. Len(queue') : queue'[i] \in Msgs
  <2>1. SUFFICES ASSUME queue # None
                 PROVE  queue' = Tail(queue) /\ queue' \in Seq(Nat)
                        /\ \A i \in 1 .. Len(queue') : queue'[i] \in Msgs
    OBVIOUS
  <2>2. queue' = Tail(queue) /\ queue \in Seq(Nat)
    BY <2>1 DEF Data
  <2>3. /\ queue' \in Seq(Nat) /\ Len(queue') = Len(queue) - 1
        /\ \A i \in 1 .. Len(queue) - 1 : queue'[i] = queue[i + 1]
    BY <1>a, <2>2, Popped
  <2>4. \A i \in 1 .. Len(queue') : i + 1 \in 2 .. Len(queue)
    <3>1. Len(queue) \in Nat
      BY <2>2
    <3> QED
      BY <2>3, <3>1
  <2>5. \A i \in 1 .. Len(queue') : queue'[i] = queue[i + 1]
    BY <2>3
  <2>6. \A i \in 2 .. Len(queue) : queue[i] \in Msgs
    BY <2>1 DEF Front
  <2> QED
    BY <2>2, <2>3, <2>4, <2>5, <2>6
<1>c. /\ \A u \in Threads : u # t => pc'[u] = pc[u] /\ pc[u] \notin SendPcs
      /\ pc'[t] \in {"idle", "take"}
      /\ pc'[t] = "take" => queue # None /\ queue' # <<>>
      /\ queue = None => queue' = None
  BY <1>a DEF Control, Baton, Sending, SendPcs
<1>1. Control'
  BY DEF Control, Pcs, SendPcs, ReadPcs, ClosePcs, UserPcs, Threads
<1>2. Data'
  BY <1>b, <1>c DEF Data
<1>3. Baton'
  BY DEF Control, Baton, Sending, SendPcs, CallbackPcs, Threads
<1>4. Front'
  <2>1. queue' # None => queue # None
    BY <1>c
  <2>2. queue' \in Seq(Nat) /\ queue' # <<>> => 1 \in 1 .. Len(queue')
    OBVIOUS
  <2>3. \A i \in 2 .. Len(queue') : i \in 1 .. Len(queue')
    OBVIOUS
  <2> QED
    BY <1>a, <1>b, <1>c, <2>1, <2>2, <2>3 DEF Front, SendPcs, CallbackPcs
<1>5. Wakeup'
  BY DEF Control, Wakeup, NoStalledQueue, Sending, SendPcs, CloserPcs, Threads
<1>6. Closer'
  BY DEF Control, Data, Closer, CloserPcs, Threads
<1>7. Carried'
  BY <1>a, <1>b, <1>c, NoneDiffers DEF Control, Carried
<1> QED
  BY <1>1, <1>2, <1>3, <1>4, <1>5, <1>6, <1>7

-----------------------------------------------------------------------------
(* ReadMessage.                                                            *)

LEMMA RecvStep == ASSUME IInv, NEW t \in Threads, Recv(t) PROVE IInv'
<1> USE DEF IInv, Recv, Goto, Return, local, tables, actions, history, NoQueue
<1>1. Control'
  BY DEF Control, Pcs, SendPcs, ReadPcs, ClosePcs, UserPcs, Threads
<1>2. Data'
  BY DEF Data, Control, Operations
<1>3. Baton'
  BY DEF Control, Baton, Sending, SendPcs, CallbackPcs, Threads
<1>4. Front'
  BY DEF Control, Data, Front, SendPcs, CallbackPcs, Threads
<1>5. Wakeup'
  BY DEF Control, Wakeup, NoStalledQueue, Sending, SendPcs, CloserPcs, Threads
<1>6. Closer'
  BY DEF Control, Data, Closer, CloserPcs, Threads
<1>7. Carried'
  BY DEF Control, Data, Carried, Baton, Sending, SendPcs, CallbackPcs, Threads
<1> QED
  BY <1>1, <1>2, <1>3, <1>4, <1>5, <1>6, <1>7

LEMMA ReadDoneStep == ASSUME IInv, NEW t \in Threads, ReadDone(t) PROVE IInv'
<1> USE DEF IInv, ReadDone, Goto, Return, local, tables, actions, history, NoQueue
<1>1. Control'
  BY DEF Control, Pcs, SendPcs, ReadPcs, ClosePcs, UserPcs, Threads
<1>2. Data'
  BY DEF Data, Control, Operations
<1>3. Baton'
  BY DEF Control, Baton, Sending, SendPcs, CallbackPcs, Threads
<1>4. Front'
  BY DEF Control, Data, Front, SendPcs, CallbackPcs, Threads
<1>5. Wakeup'
  BY DEF Control, Wakeup, NoStalledQueue, Sending, SendPcs, CloserPcs, Threads
<1>6. Closer'
  BY DEF Control, Data, Closer, CloserPcs, Threads
<1>7. Carried'
  BY DEF Control, Data, Carried, Baton, Sending, SendPcs, CallbackPcs, Threads
<1> QED
  BY <1>1, <1>2, <1>3, <1>4, <1>5, <1>6, <1>7

LEMMA ReadAgainStep == ASSUME IInv, NEW t \in Threads, ReadAgain(t) PROVE IInv'
<1> USE DEF IInv, ReadAgain, Goto, Return, local, tables, actions, history, NoQueue
<1>1. Control'
  BY DEF Control, Pcs, SendPcs, ReadPcs, ClosePcs, UserPcs, Threads
<1>2. Data'
  BY DEF Data, Control, Operations
<1>3. Baton'
  BY DEF Control, Baton, Sending, SendPcs, CallbackPcs, Threads
<1>4. Front'
  BY DEF Control, Data, Front, SendPcs, CallbackPcs, Threads
<1>5. Wakeup'
  BY DEF Control, Wakeup, NoStalledQueue, Sending, SendPcs, CloserPcs, Threads
<1>6. Closer'
  BY DEF Control, Data, Closer, CloserPcs, Threads
<1>7. Carried'
  BY DEF Control, Data, Carried, Baton, Sending, SendPcs, CallbackPcs, Threads
<1> QED
  BY <1>1, <1>2, <1>3, <1>4, <1>5, <1>6, <1>7

-----------------------------------------------------------------------------
(* CloseSession and CloseFD.                                               *)

LEMMA CloseSessionStep == ASSUME IInv, NEW t \in Threads, CloseSession(t) PROVE IInv'
<1> USE DEF IInv, CloseSession, Goto, Return, local, tables, actions, history, NoQueue
<1>1. Control'
  BY DEF Control, Pcs, SendPcs, ReadPcs, ClosePcs, UserPcs, Threads
<1>2. Data'
  BY DEF Data, Control, Operations
<1>3. Baton'
  BY DEF Control, Baton, Sending, SendPcs, CallbackPcs, Threads
<1>4. Front'
  BY DEF Control, Data, Front, SendPcs, CallbackPcs, Threads
<1>5. Wakeup'
  BY DEF Control, Wakeup, NoStalledQueue, Sending, SendPcs, CloserPcs, Threads
<1>6. Closer'
  BY DEF Control, Data, Closer, CloserPcs, Threads
<1>7. Carried'
  BY DEF Control, Data, Carried, Baton, Sending, SendPcs, CallbackPcs, Threads
<1> QED
  BY <1>1, <1>2, <1>3, <1>4, <1>5, <1>6, <1>7

LEMMA FindFdStep == ASSUME IInv, NEW t \in Threads, FindFd(t) PROVE IInv'
<1> USE DEF IInv, FindFd, Goto, Return, local, tables, actions, history, NoQueue
<1>1. Control'
  BY DEF Control, Pcs, SendPcs, ReadPcs, ClosePcs, UserPcs, Threads
<1>2. Data'
  BY DEF Data, Control, Operations
<1>3. Baton'
  BY DEF Control, Baton, Sending, SendPcs, CallbackPcs, Threads
<1>4. Front'
  BY DEF Control, Data, Front, SendPcs, CallbackPcs, Threads
<1>5. Wakeup'
  BY DEF Control, Wakeup, NoStalledQueue, Sending, SendPcs, CloserPcs, Threads
<1>6. Closer'
  BY DEF Control, Data, Closer, CloserPcs, Threads
<1>7. Carried'
  BY DEF Control, Data, Carried, Baton, Sending, SendPcs, CallbackPcs, Threads
<1> QED
  BY <1>1, <1>2, <1>3, <1>4, <1>5, <1>6, <1>7

LEMMA DeregisterFdStep == ASSUME IInv, NEW t \in Threads, DeregisterFd(t) PROVE IInv'
<1> USE DEF IInv, DeregisterFd, Goto, Return, local, tables, actions, history, NoQueue
<1>1. Control'
  BY DEF Control, Pcs, SendPcs, ReadPcs, ClosePcs, UserPcs, Threads
<1>2. Data'
  BY DEF Data, Control, Operations
<1>3. Baton'
  BY DEF Control, Baton, Sending, SendPcs, CallbackPcs, Threads
<1>4. Front'
  BY DEF Control, Data, Front, SendPcs, CallbackPcs, Threads
<1>5. Wakeup'
  BY DEF Control, Wakeup, NoStalledQueue, Sending, SendPcs, CloserPcs, Threads
<1>6. Closer'
  BY DEF Control, Data, Closer, CloserPcs, Threads
<1>7. Carried'
  BY DEF Control, Data, Carried, Baton, Sending, SendPcs, CallbackPcs, Threads
<1> QED
  BY <1>1, <1>2, <1>3, <1>4, <1>5, <1>6, <1>7

LEMMA CloseFdStep == ASSUME IInv, NEW t \in Threads, CloseFd(t) PROVE IInv'
<1> USE DEF IInv, CloseFd, Goto, Return, local, tables, actions, history, NoQueue
<1>1. Control'
  BY DEF Control, Pcs, SendPcs, ReadPcs, ClosePcs, UserPcs, Threads
<1>2. Data'
  BY DEF Data, Control, Operations
<1>3. Baton'
  BY DEF Control, Baton, Sending, SendPcs, CallbackPcs, Threads
<1>4. Front'
  BY DEF Control, Data, Front, SendPcs, CallbackPcs, Threads
<1>5. Wakeup'
  BY DEF Control, Wakeup, NoStalledQueue, Sending, SendPcs, CloserPcs, Threads
<1>6. Closer'
  BY DEF Control, Data, Closer, CloserPcs, Threads
<1>7. Carried'
  BY DEF Control, Data, Carried, Baton, Sending, SendPcs, CallbackPcs, Threads
<1> QED
  BY <1>1, <1>2, <1>3, <1>4, <1>5, <1>6, <1>7

LEMMA UnlistStep == ASSUME IInv, NEW t \in Threads, Unlist(t) PROVE IInv'
<1> USE DEF IInv, Unlist, Goto, Return, local, tables, actions, history, NoQueue
<1>1. Control'
  BY DEF Control, Pcs, SendPcs, ReadPcs, ClosePcs, UserPcs, Threads
<1>2. Data'
  BY DEF Data, Control, Operations
<1>3. Baton'
  BY DEF Control, Baton, Sending, SendPcs, CallbackPcs, Threads
<1>4. Front'
  BY DEF Control, Data, Front, SendPcs, CallbackPcs, Threads
<1>5. Wakeup'
  BY DEF Control, Wakeup, NoStalledQueue, Sending, SendPcs, CloserPcs, Threads
<1>6. Closer'
  BY DEF Control, Data, Closer, CloserPcs, Threads
<1>7. Carried'
  BY DEF Control, Data, Carried, Baton, Sending, SendPcs, CallbackPcs, Threads
<1> QED
  BY <1>1, <1>2, <1>3, <1>4, <1>5, <1>6, <1>7

LEMMA UnmapStep == ASSUME IInv, NEW t \in Threads, Unmap(t) PROVE IInv'
<1> USE DEF IInv, Unmap, Goto, Return, local, tables, actions, history, NoQueue
<1>1. Control'
  BY DEF Control, Pcs, SendPcs, ReadPcs, ClosePcs, UserPcs, Threads
<1>2. Data'
  BY DEF Data, Control, Operations
<1>3. Baton'
  BY DEF Control, Baton, Sending, SendPcs, CallbackPcs, Threads
<1>4. Front'
  BY DEF Control, Data, Front, SendPcs, CallbackPcs, Threads
<1>5. Wakeup'
  BY DEF Control, Wakeup, NoStalledQueue, Sending, SendPcs, CloserPcs, Threads
<1>6. Closer'
  BY DEF Control, Data, Closer, CloserPcs, Threads
<1>7. Carried'
  BY DEF Control, Data, Carried, Baton, Sending, SendPcs, CallbackPcs, Threads
<1> QED
  BY <1>1, <1>2, <1>3, <1>4, <1>5, <1>6, <1>7

LEMMA DropQueueStep == ASSUME IInv, NEW t \in Threads, DropQueue(t) PROVE IInv'
<1> USE DEF IInv, DropQueue, Goto, Return, local, tables, actions, history, NoQueue
<1>1. Control'
  BY DEF Control, Pcs, SendPcs, ReadPcs, ClosePcs, UserPcs, Threads
<1>2. Data'
  BY DEF Data, Control, Operations
<1>3. Baton'
  BY NoneDiffers DEF Control, Baton, Sending, SendPcs, CallbackPcs
<1>4. Front'
  BY DEF Control, Data, Front, SendPcs, CallbackPcs, Threads
<1>5. Wakeup'
  BY DEF Control, Wakeup, NoStalledQueue, Sending, SendPcs, CloserPcs, Threads
<1>6. Closer'
  BY DEF Control, Data, Closer, CloserPcs, Threads
<1>7. Carried'
  BY DEF Control, Carried, Closer, CloserPcs
<1> QED
  BY <1>1, <1>2, <1>3, <1>4, <1>5, <1>6, <1>7

LEMMA TellStep == ASSUME IInv, NEW t \in Threads, Tell(t) PROVE IInv'
<1> USE DEF IInv, Tell, Goto, Return, local, tables, actions, history, NoQueue
<1>1. Control'
  BY DEF Control, Pcs, SendPcs, ReadPcs, ClosePcs, UserPcs, Threads
<1>2. Data'
  BY DEF Data, Control, Operations
<1>3. Baton'
  BY DEF Control, Baton, Sending, SendPcs, CallbackPcs, Threads
<1>4. Front'
  BY DEF Control, Data, Front, SendPcs, CallbackPcs, Threads
<1>5. Wakeup'
  BY DEF Control, Wakeup, NoStalledQueue, Sending, SendPcs, CloserPcs, Threads
<1>6. Closer'
  BY DEF Control, Data, Closer, CloserPcs, Threads
<1>7. Carried'
  BY DEF Control, Data, Carried, Baton, Sending, SendPcs, CallbackPcs, Threads
<1> QED
  BY <1>1, <1>2, <1>3, <1>4, <1>5, <1>6, <1>7

-----------------------------------------------------------------------------
(* The epoll thread and the network.                                       *)

LEMMA EpollWaitStep == ASSUME IInv, EpollWait PROVE IInv'
<1> USE DEF IInv, EpollWait, Goto, Return, local, tables, actions, history, NoQueue
<1>1. Control'
  BY DEF Control, Pcs, SendPcs, ReadPcs, ClosePcs, UserPcs, Threads
<1>2. Data'
  BY DEF Data, Control, Operations
<1>3. Baton'
  BY DEF Control, Baton, Sending, SendPcs, CallbackPcs, Threads
<1>4. Front'
  BY DEF Control, Data, Front, SendPcs, CallbackPcs, Threads
<1>5. Wakeup'
  BY DEF Control, Wakeup, NoStalledQueue, Sending, SendPcs, CloserPcs, Threads
<1>6. Closer'
  BY DEF Control, Data, Closer, CloserPcs, Threads
<1>7. Carried'
  BY DEF Control, Data, Carried, Baton, Sending, SendPcs, CallbackPcs, Threads
<1> QED
  BY <1>1, <1>2, <1>3, <1>4, <1>5, <1>6, <1>7

LEMMA RunInCallbackStep == ASSUME IInv, RunInCallback PROVE IInv'
<1> USE DEF IInv, RunInCallback, Goto, Return, local, tables, actions, history, NoQueue
<1>1. Control'
  BY DEF Control, Pcs, SendPcs, ReadPcs, ClosePcs, UserPcs, Threads
<1>2. Data'
  BY DEF Data, Control, Operations
<1>3. Baton'
  BY DEF Control, Baton, Sending, SendPcs, CallbackPcs, Threads
<1>4. Front'
  BY DEF Control, Data, Front, SendPcs, CallbackPcs, Threads
<1>5. Wakeup'
  BY DEF Control, Wakeup, NoStalledQueue, Sending, SendPcs, CloserPcs, Threads
<1>6. Closer'
  BY DEF Control, Data, Closer, CloserPcs, Threads
<1>7. Carried'
  BY DEF Control, Data, Carried, Baton, Sending, SendPcs, CallbackPcs, Threads
<1> QED
  BY <1>1, <1>2, <1>3, <1>4, <1>5, <1>6, <1>7

LEMMA RunOutCallbackStep == ASSUME IInv, RunOutCallback PROVE IInv'
<1> USE DEF IInv, RunOutCallback, Goto, Return, local, tables, actions, history, NoQueue
<1>a. outAct # None => outAct.msg \in Msgs
  BY DEF Front
<1>u. unsent' \in Seq(Msgs)
  BY <1>a, Appended DEF Data
<1>1. Control'
  BY DEF Control, Pcs, SendPcs, ReadPcs, ClosePcs, UserPcs, Threads
<1>2. Data'
  BY <1>u DEF Data, Control, Operations
<1>3. Baton'
  BY DEF Control, Baton, Sending, SendPcs, CallbackPcs, Threads
<1>4. Front'
  BY DEF Control, Data, Front, SendPcs, CallbackPcs, Threads
<1>5. Wakeup'
  BY DEF Control, Wakeup, NoStalledQueue, Sending, SendPcs, CloserPcs, Threads
<1>6. Closer'
  BY DEF Control, Data, Closer, CloserPcs, Threads
<1>7. Carried'
  BY DEF Control, Data, Carried, Baton, Sending, SendPcs, CallbackPcs, Threads
<1> QED
  BY <1>1, <1>2, <1>3, <1>4, <1>5, <1>6, <1>7

LEMMA BreakStep == ASSUME IInv, Break PROVE IInv'
<1> USE DEF IInv, Break, Goto, Return, local, tables, actions, history, NoQueue
<1>1. Control'
  BY DEF Control, Pcs, SendPcs, ReadPcs, ClosePcs, UserPcs, Threads
<1>2. Data'
  BY DEF Data, Control, Operations
<1>3. Baton'
  BY DEF Control, Baton, Sending, SendPcs, CallbackPcs, Threads
<1>4. Front'
  BY DEF Control, Data, Front, SendPcs, CallbackPcs, Threads
<1>5. Wakeup'
  BY DEF Control, Wakeup, NoStalledQueue, Sending, SendPcs, CloserPcs, Threads
<1>6. Closer'
  BY DEF Control, Data, Closer, CloserPcs, Threads
<1>7. Carried'
  BY DEF Control, Data, Carried, Baton, Sending, SendPcs, CallbackPcs, Threads
<1> QED
  BY <1>1, <1>2, <1>3, <1>4, <1>5, <1>6, <1>7

-----------------------------------------------------------------------------
LEMMA Invariance == Spec => []IInv
<1>1. Init => IInv
  <2>1. ASSUME Init PROVE Control
    BY <2>1 DEF Init, Control, Pcs
  <2>3. ASSUME Init PROVE Data
    <3>1. held \in [Threads -> Nat]
      BY <2>3 DEF Init, Moved
    <3>2. calls \in 0 .. MaxMsgs
      BY <2>3, SendQueueAssumption DEF Init
    <3>3. /\ queue \in Seq(Nat) /\ accepted \in Seq(Msgs)
          /\ wire \in Seq(Msgs) /\ unsent \in Seq(Msgs)
      BY <2>3 DEF Init
    <3> QED
      BY <2>3, <3>1, <3>2, <3>3 DEF Init, Data
  <2>2. ASSUME Init PROVE Baton /\ Front /\ Wakeup /\ Closer /\ Carried
    BY <2>2, NoneDiffers DEF Init, Baton, Front, Wakeup, Closer, Carried, NoQueue, NoStalledQueue, Sending, SendPcs,
                CallbackPcs, CloserPcs
  <2> QED
    BY <2>1, <2>2, <2>3 DEF IInv
<1>2. ASSUME IInv, [Next]_vars PROVE IInv'
  <2>1. ASSUME NEW t \in Threads, Send(t) PROVE IInv'
    BY <1>2, <2>1, LookupStep, EnqueueStep, TakeStep, RegisterStep, SendPartStep,
       SendLengthStep, ReplaceStep, SendBodyStep, DeregisterStep,
       CheckActiveStep, PopStep DEF Send
  <2>2. ASSUME NEW t \in Threads, Read(t) PROVE IInv'
    BY <1>2, <2>2, RecvStep, ReadDoneStep, ReadAgainStep DEF Read
  <2>3. ASSUME NEW t \in Threads, Close(t) PROVE IInv'
    BY <1>2, <2>3, FindFdStep, DeregisterFdStep, CloseFdStep, UnlistStep, UnmapStep,
       DropQueueStep, TellStep DEF Close
  <2>4. ASSUME NEW t \in Threads, SendMessage(t) \/ CloseSession(t) PROVE IInv'
    BY <1>2, <2>4, SendMessageStep, CloseSessionStep
  <2>5. CASE EpollWait \/ RunInCallback \/ RunOutCallback \/ Break
    BY <1>2, <2>5, EpollWaitStep, RunInCallbackStep, RunOutCallbackStep, BreakStep
  <2>6. CASE UNCHANGED vars
    BY <1>2, <2>6 DEF vars, local, tables, actions, history, IInv, Control, Data, Baton, Front,
                      Wakeup, Closer, Carried, NoStalledQueue, Sending
  <2> QED
    BY <1>2, <2>1, <2>2, <2>3, <2>4, <2>5, <2>6 DEF Next
<1> QED
  BY <1>1, <1>2, PTL DEF Spec

(* The variables of a connection keep their types.                         *)
THEOREM TypeCorrect == Spec => []TypeOK
<1>1. IInv => TypeOK
  BY DEF IInv, Control, Data, Pcs, TypeOK
<1> QED
  BY <1>1, Invariance, PTL

(* SendMessage and the completion never send at the same time, whichever   *)
(* threads push, complete, fail and close; RegisterAction never meets an   *)
(* operation of the same direction.                                        *)
THEOREM AlwaysOneSender == Spec => []OneSender
<1>1. IInv => OneSender
  BY DEF IInv, Baton, OneSender, Sending, SendPcs, CallbackPcs
<1> QED
  BY <1>1, Invariance, PTL

(* assert(msg_len > 0) never fails and pop_front removes a message that    *)
(* was taken.                                                              *)
THEOREM FrontAlwaysTakenOnce == Spec => []FrontIsTakenOnce
<1>1. ASSUME IInv PROVE FrontIsTakenOnce
  <2>1. Moved \notin Msgs
    BY DEF Moved, Msgs
  <2>2. queue # NoQueue /\ queue # <<>> => Head(queue) = queue[1]
    BY <1>1 DEF IInv, Data
  <2> QED
    BY <1>1, <2>1, <2>2 DEF IInv, Baton, Front, FrontIsTakenOnce, Sending, SendPcs, CallbackPcs
<1> QED
  BY <1>1, Invariance, PTL

(* No message waits in a queue that nobody works on.                       *)
THEOREM QueueNeverStalls == Spec => []NoStalledQueue
<1>1. IInv => NoStalledQueue
  BY DEF IInv, Wakeup
<1> QED
  BY <1>1, Invariance, PTL

(* CloseFD tells the manager at most once, after every table has forgotten *)
(* the connection.                                                         *)
THEOREM AlwaysClosedOnce == Spec => []ClosedOnce
<1>1. IInv => ClosedOnce
  BY DEF IInv, Closer, ClosedOnce
<1> QED
  BY <1>1, Invariance, PTL

-----------------------------------------------------------------------------
(* The send queue implements MessageChannel: every step of the threads of  *)
(* one connection is a step of the channel or none.                        *)

(* Where a thread carries the message at the front.                        *)
CarrierPcs == {"register", "sendLen", "replace", "sendBody"}

(* InFlight and Pending of any state.                                      *)
InFlightOf(p, h, out) ==
    IF \E t \in Threads : p[t] \in CarrierPcs
    THEN <<h[CHOOSE t \in Threads : p[t] \in CarrierPcs]>>
    ELSE IF out # None /\ p[Epoll] # "deregister" THEN <<out.msg>>
    ELSE <<>>

PendingOf(q, flight) ==
    IF q = NoQueue THEN flight
    ELSE IF q # <<>> /\ Head(q) = Moved THEN flight \o Tail(q)
    ELSE q

Up == ~broken /\ ~closing

(* A step of the channel, or none.                                         *)
ChannelStep == [Channel!Next]_(Channel!chan)

LEMMA Unfolded ==
    /\ InFlight = InFlightOf(pc, held, outAct)
    /\ InFlight' = InFlightOf(pc', held', outAct')
    /\ Pending = PendingOf(queue, InFlight)
    /\ Pending' = PendingOf(queue', InFlight')
BY DEF InFlight, InFlightOf, Pending, PendingOf, CarrierPcs

LEMMA FlightOfThread ==
    ASSUME NEW p, NEW h, NEW out, NEW t \in Threads, p[t] \in CarrierPcs,
           \A u \in Threads : p[u] \in CarrierPcs => u = t
    PROVE  InFlightOf(p, h, out) = <<h[t]>>
<1>1. (CHOOSE u \in Threads : p[u] \in CarrierPcs) = t
  OBVIOUS
<1> QED
  BY <1>1 DEF InFlightOf

LEMMA FlightOfAction ==
    ASSUME NEW p, NEW h, NEW out, \A u \in Threads : p[u] \notin CarrierPcs
    PROVE  InFlightOf(p, h, out) = IF out # None /\ p[Epoll] # "deregister" THEN <<out.msg>>
                                   ELSE <<>>
BY DEF InFlightOf

-----------------------------------------------------------------------------
(* The channel in terms of the connection, and what steps that leave the   *)
(* queue alone have in common.                                             *)

LEMMA Steps ==
    /\ ChannelStep <=>
         \/ Channel!Next
         \/ /\ accepted' = accepted /\ Pending' = Pending /\ wire' = wire
            /\ unsent' = unsent /\ (Up' <=> Up)
    /\ Channel!Next <=>
         \/ \E m \in Msgs : /\ accepted' = Append(accepted, m)
                            /\ Pending' = Append(Pending, m)
                            /\ wire' = wire /\ unsent' = unsent /\ (Up' <=> Up)
         \/ /\ Pending # <<>>
            /\ wire' = Append(wire, Head(Pending)) /\ Pending' = Tail(Pending)
            /\ accepted' = accepted /\ unsent' = unsent /\ (Up' <=> Up)
         \/ /\ ~Up' /\ accepted' = accepted /\ Pending' = Pending
            /\ wire' = wire /\ unsent' = unsent
         \/ /\ Pending # <<>>
            /\ unsent' = Append(unsent, Head(Pending)) /\ Pending' = Tail(Pending)
            /\ accepted' = accepted /\ wire' = wire /\ (Up' <=> Up)
         \/ /\ Pending # <<>> /\ Pending' = Tail(Pending) /\ ~Up'
            /\ accepted' = accepted /\ wire' = wire /\ unsent' = unsent
         \/ /\ ~Up /\ (Pending' = <<>> \/ (Pending # <<>> /\ Pending' = <<Head(Pending)>>))
            /\ accepted' = accepted /\ wire' = wire /\ unsent' = unsent /\ (Up' <=> Up)
BY DEF ChannelStep, Up, Channel!Next, Channel!Accept, Channel!Transmit, Channel!Fail,
       Channel!GiveUp, Channel!Drop, Channel!Discard, Channel!chan

LEMMA Sequence ==
    ASSUME NEW q \in Seq(Nat), NEW m \in Nat
    PROVE  /\ <<m>> \o Tail(q) # <<>>
           /\ Head(<<m>> \o Tail(q)) = m
           /\ q # <<>> => Tail(<<m>> \o Tail(q)) = Tail(q)
           /\ q # <<>> => <<>> \o Tail(q) = Tail(q)
<1>1. CASE q = <<>>
  BY <1>1
<1>2. CASE q # <<>>
  BY <1>2
<1> QED
  BY <1>1, <1>2

(* The message in flight stays, perhaps the connection goes down.          *)
LEMMA Kept ==
    ASSUME queue' = queue, InFlight' = InFlight, accepted' = accepted, wire' = wire,
           unsent' = unsent, (Up' <=> Up) \/ ~Up'
    PROVE  ChannelStep
BY Unfolded, Steps

(* The message in flight is written, fails, or goes down with the          *)
(* connection.                                                             *)
LEMMA Leaves ==
    ASSUME IInv, NEW m \in Nat, InFlight = <<m>>, InFlight' = <<>>, queue' = queue,
           queue # NoQueue => queue # <<>> /\ queue[1] = Moved,
           accepted' = accepted,
           \/ ~Up' /\ wire' = wire /\ unsent' = unsent
           \/ (Up' <=> Up) /\ wire' = Append(wire, m) /\ unsent' = unsent
           \/ (Up' <=> Up) /\ unsent' = Append(unsent, m) /\ wire' = wire
    PROVE  ChannelStep
<1>1. Pending # <<>> /\ Head(Pending) = m /\ Tail(Pending) = Pending'
  <2>1. CASE queue = NoQueue
    <3>1. Pending = <<m>> /\ Pending' = <<>>
      BY <2>1, Unfolded DEF PendingOf
    <3> QED
      BY <3>1
  <2>2. CASE queue # NoQueue
    <3>1. queue \in Seq(Nat) /\ queue # <<>> /\ Head(queue) = Moved
      BY <2>2 DEF IInv, Data
    <3>2. Pending = <<m>> \o Tail(queue) /\ Pending' = <<>> \o Tail(queue)
      BY <2>2, <3>1, Unfolded DEF PendingOf
    <3> QED
      BY <3>1, <3>2, Sequence
  <2> QED
    BY <2>1, <2>2
<1> QED
  BY <1>1, Steps

LEMMA OneCarrier ==
    ASSUME IInv, NEW t \in Threads, pc[t] \in CarrierPcs
    PROVE  /\ \A u \in Threads : pc[u] \in CarrierPcs => u = t
           /\ InFlight = <<held[t]>>
           /\ held[t] \in Nat
           /\ queue # NoQueue => queue # <<>> /\ queue[1] = Moved
<1>1. \A u \in Threads : pc[u] \in CarrierPcs => u = t
  BY DEF IInv, Baton, Sending, SendPcs, CarrierPcs
<1>2. held[t] \in Nat /\ (queue # NoQueue => queue # <<>> /\ queue[1] = Moved)
  BY DEF IInv, Data, Front, Baton, Sending, SendPcs, CarrierPcs
<1> QED
  BY <1>1, <1>2, FlightOfThread, Unfolded

LEMMA FlightKept ==
    ASSUME IInv, outAct' = outAct,
           \A u \in Threads : /\ pc'[u] \in CarrierPcs <=> pc[u] \in CarrierPcs
                              /\ pc[u] \in CarrierPcs => held'[u] = held[u],
           pc'[Epoll] = "deregister" <=> pc[Epoll] = "deregister"
    PROVE  InFlight' = InFlight
<1>1. CASE \A u \in Threads : pc[u] \notin CarrierPcs
  BY <1>1, FlightOfAction, Unfolded
<1>2. ASSUME NEW t \in Threads, pc[t] \in CarrierPcs PROVE InFlight' = InFlight
  <2>1. InFlight' = <<held'[t]>>
    BY <1>2, OneCarrier, FlightOfThread, Unfolded, ZenonT(60)
  <2> QED
    BY <1>2, <2>1, OneCarrier
<1> QED
  BY <1>1, <1>2

-----------------------------------------------------------------------------
(* Sending.                                                                *)

(* A carrier that stops carrying without an operation that takes over.     *)
LEMMA CarrierStops ==
    ASSUME IInv, NEW t \in Threads, pc[t] \in CarrierPcs,
           pc'[t] \notin CarrierPcs,
           \A u \in Threads : u # t => pc'[u] = pc[u],
           outAct' = None \/ pc'[Epoll] = "deregister"
    PROVE  InFlight' = <<>>
<1>1. \A u \in Threads : pc'[u] \notin CarrierPcs
  BY OneCarrier
<1> QED
  BY <1>1, FlightOfAction, Unfolded

LEMMA RegisterChannel ==
    ASSUME IInv, NEW t \in Threads, Register(t) PROVE ChannelStep
<1>1. pc[t] = "register" /\ pc[t] \in CarrierPcs
  BY DEF Register, CarrierPcs
<1>2. UNCHANGED <<queue, accepted, wire>> /\ (Up' <=> Up)
  BY DEF Register, tables, Up
<1>3. CASE outAct = None /\ fdOpen
  <2>1. /\ outAct' = [msg |-> held[t], stage |-> "len"]
        /\ pc' = [pc EXCEPT ![t] = "idle"]
    BY <1>3 DEF Register, Return
  <2>2. outAct' # None /\ outAct'.msg = held[t]
    BY <1>1, <2>1, OneCarrier, NoneDiffers DEF Operations
  <2>3. (\A u \in Threads : pc'[u] \notin CarrierPcs) /\ pc'[Epoll] # "deregister"
    <3>1. \A u \in Threads : u # t => pc[u] \notin CarrierPcs /\ pc[u] # "deregister"
      BY <1>1 DEF IInv, Baton, Sending, SendPcs, CarrierPcs
    <3> QED
      BY <2>1, <3>1 DEF IInv, Control, CarrierPcs, Threads
  <2>4. InFlight' = <<held[t]>> /\ unsent' = unsent
    BY <1>3, <2>2, <2>3, FlightOfAction, Unfolded DEF Register
  <2> QED
    BY <1>1, <1>2, <2>4, OneCarrier, Kept
<1>4. CASE ~(outAct = None /\ fdOpen)
  <2>1. outAct' = outAct /\ outAct = None /\ ~fdOpen /\ pc' = [pc EXCEPT ![t] = "checkActive"]
    BY <1>1, <1>4 DEF Register, Goto, IInv, Baton, Sending, SendPcs, CallbackPcs
  <2>2. InFlight' = <<>>
    BY <1>1, <2>1, CarrierStops DEF IInv, Control, CarrierPcs
  <2>3. PICK m \in Nat : InFlight = <<m>> /\ held[t] = m
    BY <1>1, OneCarrier
  <2>4. unsent' = Append(unsent, m)
    BY <1>4, <2>3 DEF Register, FailSend
  <2> QED
    BY <1>1, <1>2, <2>2, <2>3, <2>4, OneCarrier, Leaves
<1> QED
  BY <1>3, <1>4

(* send() wrote a part, or the length is done and the body follows.        *)
LEMMA PartChannel ==
    ASSUME IInv, NEW t \in Threads, SendPart(t) \/ (Replace(t) /\ outAct # None)
    PROVE ChannelStep
<1>1. pc[t] \in CarrierPcs /\ pc[t] \in {"sendLen", "replace", "sendBody"} /\ t = Epoll
  BY DEF SendPart, Replace, CarrierPcs, IInv, Baton, CallbackPcs
<1>2. UNCHANGED <<queue, accepted, wire, unsent>> /\ (Up' <=> Up)
  BY DEF SendPart, Replace, tables, history, Up
<1>3. pc' = [pc EXCEPT ![t] = "idle"]
  BY DEF SendPart, Replace, Return
<1>4. (\A u \in Threads : pc'[u] \notin CarrierPcs) /\ pc'[Epoll] # "deregister"
  BY <1>1, <1>3, OneCarrier DEF IInv, Control, CarrierPcs, Threads
<1>5. CASE outAct # None
  <2>1. outAct' # None /\ outAct'.msg = outAct.msg
    BY <1>5, NoneDiffers DEF SendPart, Replace, actions, IInv, Data, Operations
  <2>2. InFlight' = <<held[t]>>
    BY <1>1, <1>4, <1>5, <2>1, FlightOfAction, Unfolded DEF IInv, Carried
  <2> QED
    BY <1>1, <1>2, <2>2, OneCarrier, Kept
<1>6. CASE outAct = None
  <2>1. outAct' = None
    BY <1>6 DEF SendPart, actions
  <2>2. InFlight' = <<>>
    BY <1>4, <2>1, FlightOfAction, Unfolded
  <2>3. ~Up
    BY <1>1, <1>6 DEF IInv, Wakeup, Up
  <2>4. PICK m \in Nat : InFlight = <<m>>
    BY <1>1, OneCarrier
  <2> QED
    BY <1>1, <1>2, <2>2, <2>3, <2>4, OneCarrier, Leaves
<1> QED
  BY <1>5, <1>6

LEMMA SendLengthChannel ==
    ASSUME IInv, NEW t \in Threads, SendLength(t) PROVE ChannelStep
<1>1. pc[t] = "sendLen" /\ pc[t] \in CarrierPcs /\ t = Epoll
  BY DEF SendLength, CarrierPcs, IInv, Baton, CallbackPcs
<1>2. UNCHANGED <<held, outAct, queue, accepted, wire>> /\ (Up' <=> Up)
  BY DEF SendLength, tables, actions, Up
<1>3. CASE pc' = [pc EXCEPT ![t] = "replace"] /\ unsent' = unsent
  <2>1. InFlight' = InFlight
    BY <1>1, <1>2, <1>3, FlightKept DEF IInv, Control, CarrierPcs
  <2> QED
    BY <1>2, <1>3, <2>1, Kept
<1>4. CASE pc' = [pc EXCEPT ![t] = "deregister"] /\ unsent' = Append(unsent, held[t])
  <2>1. InFlight' = <<>>
    BY <1>1, <1>4, CarrierStops DEF IInv, Control, CarrierPcs, Threads
  <2>2. PICK m \in Nat : InFlight = <<m>> /\ held[t] = m
    BY <1>1, OneCarrier
  <2> QED
    BY <1>1, <1>2, <1>4, <2>1, <2>2, OneCarrier, Leaves
<1> QED
  BY <1>3, <1>4 DEF SendLength, Goto, FailSend

LEMMA ReplaceChannel ==
    ASSUME IInv, NEW t \in Threads, Replace(t), outAct = None PROVE ChannelStep
<1>1. pc[t] = "replace" /\ pc[t] \in CarrierPcs /\ t = Epoll
  BY DEF Replace, CarrierPcs, IInv, Baton, CallbackPcs
<1>2. UNCHANGED <<queue, accepted, wire>> /\ (Up' <=> Up)
  BY DEF Replace, tables, Up
<1>3. pc' = [pc EXCEPT ![t] = "deregister"] /\ unsent' = Append(unsent, held[t])
  BY DEF Replace, Goto, FailSend
<1>4. InFlight' = <<>>
  BY <1>1, <1>3, CarrierStops DEF IInv, Control, CarrierPcs, Threads
<1>5. PICK m \in Nat : InFlight = <<m>> /\ held[t] = m
  BY <1>1, OneCarrier
<1> QED
  BY <1>1, <1>2, <1>3, <1>4, <1>5, OneCarrier, Leaves

(* The only step that transmits.                                           *)
LEMMA SendBodyChannel ==
    ASSUME IInv, NEW t \in Threads, SendBody(t) PROVE ChannelStep
<1>1. pc[t] = "sendBody" /\ pc[t] \in CarrierPcs /\ t = Epoll
  BY DEF SendBody, CarrierPcs, IInv, Baton, CallbackPcs
<1>2. /\ UNCHANGED <<queue, accepted>> /\ (Up' <=> Up)
      /\ pc' = [pc EXCEPT ![t] = "deregister"]
  BY DEF SendBody, tables, Up, Goto
<1>3. InFlight' = <<>>
  BY <1>1, <1>2, CarrierStops DEF IInv, Control, CarrierPcs, Threads
<1>4. PICK m \in Nat : InFlight = <<m>> /\ held[t] = m
  BY <1>1, OneCarrier
<1>5. \/ wire' = Append(wire, m) /\ unsent' = unsent
      \/ wire' = wire /\ unsent' = Append(unsent, m)
  BY <1>4 DEF SendBody, FailSend
<1> QED
  BY <1>1, <1>2, <1>3, <1>4, <1>5, OneCarrier, Leaves

(* An operation is registered and no callback runs it.                     *)
LEMMA Registered ==
    ASSUME IInv, outAct # None, pc[Epoll] \notin CallbackPcs
    PROVE  /\ \A u \in Threads : pc[u] \notin SendPcs
           /\ InFlight = <<outAct.msg>>
           /\ outAct.msg \in Nat
           /\ queue # NoQueue => queue # <<>> /\ queue[1] = Moved
<1>1. \A u \in Threads : pc[u] \notin SendPcs
  BY DEF IInv, Baton, Sending
<1>2. InFlight = <<outAct.msg>>
  BY <1>1, FlightOfAction, Unfolded DEF SendPcs, CarrierPcs, CallbackPcs
<1> QED
  BY <1>1, <1>2 DEF IInv, Data, Operations, Front, Baton

LEMMA RunOutChannel == ASSUME IInv, RunOutCallback PROVE ChannelStep
<1>1. UNCHANGED <<outAct, queue, accepted, wire>> /\ (Up' <=> Up) /\ pc[Epoll] = "idle"
  BY DEF RunOutCallback, tables, actions, Up
<1>2. CASE outAct = None
  <2>1. UNCHANGED <<pc, held, unsent>>
    BY <1>2 DEF RunOutCallback
  <2> QED
    BY <1>1, <2>1, FlightKept, Kept
<1>3. CASE outAct # None
  <2>1. /\ \A u \in Threads : pc[u] \notin SendPcs
        /\ InFlight = <<outAct.msg>> /\ outAct.msg \in Nat
        /\ queue # NoQueue => queue # <<>> /\ queue[1] = Moved
    BY <1>1, <1>3, Registered DEF CallbackPcs
  <2>2. Epoll \in Threads /\ held'[Epoll] = outAct.msg /\ \A u \in Threads : u # Epoll => pc'[u] = pc[u]
    BY <1>3 DEF RunOutCallback, IInv, Control, Data, Threads
  <2>3. CASE event = "errOut"
    <3>1. pc'[Epoll] = "deregister"
      BY <1>3, <2>3 DEF RunOutCallback, IInv, Control, Threads
    <3>2. InFlight' = <<>>
      BY <2>1, <2>2, <3>1, FlightOfAction, Unfolded DEF SendPcs, CarrierPcs
    <3>3. PICK m \in Nat : InFlight = <<m>> /\ outAct.msg = m
      BY <2>1
    <3>4. unsent' = Append(unsent, m)
      BY <1>3, <2>3, <3>3 DEF RunOutCallback
    <3> QED
      BY <1>1, <2>1, <3>2, <3>3, <3>4, Leaves
  <2>4. CASE event # "errOut"
    <3>1. pc'[Epoll] \in CarrierPcs
      BY <1>3, <2>4 DEF RunOutCallback, IInv, Control, Threads, CarrierPcs
    <3>2. \A u \in Threads : pc'[u] \in CarrierPcs => u = Epoll
      BY <2>1, <2>2 DEF SendPcs, CarrierPcs
    <3>3. InFlight' = <<held'[Epoll]>>
      BY <2>2, <3>1, <3>2, FlightOfThread, Unfolded
    <3>4. unsent' = unsent
      BY <1>3, <2>4 DEF RunOutCallback
    <3> QED
      BY <1>1, <2>1, <2>2, <3>3, <3>4, Kept
  <2> QED
    BY <2>3, <2>4
<1> QED
  BY <1>2, <1>3

LEMMA DeregisterChannel ==
    ASSUME IInv, NEW t \in Threads, Deregister(t) PROVE ChannelStep
<1>1. pc[t] = "deregister" /\ t = Epoll
  BY DEF Deregister, IInv, Baton, CallbackPcs
<1>2. /\ UNCHANGED <<queue, accepted, wire, unsent>> /\ (Up' <=> Up)
      /\ pc' = [pc EXCEPT ![t] = "checkActive"] /\ outAct' = None
  BY DEF Deregister, tables, history, Up, Goto
<1>3. \A u \in Threads : pc[u] \notin CarrierPcs /\ pc'[u] \notin CarrierPcs
  BY <1>1, <1>2 DEF IInv, Control, Baton, Sending, SendPcs, CarrierPcs
<1>4. InFlight = <<>> /\ InFlight' = <<>>
  BY <1>1, <1>2, <1>3, FlightOfAction, Unfolded
<1> QED
  BY <1>2, <1>4, Kept

(* CloseFD takes the operation away from under a callback or from epoll.   *)
LEMMA DeregisterFdChannel ==
    ASSUME IInv, NEW t \in Threads, DeregisterFd(t) PROVE ChannelStep
<1>1. /\ UNCHANGED <<held, queue, accepted, wire, unsent>> /\ ~Up'
      /\ pc[t] = "deregisterFd" /\ pc' = [pc EXCEPT ![t] = "closeFd"] /\ outAct' = None
  BY DEF DeregisterFd, tables, Up, Goto
<1>2. \A u \in Threads : pc'[u] \in CarrierPcs <=> pc[u] \in CarrierPcs
  BY <1>1 DEF IInv, Control, CarrierPcs
<1>3. ASSUME NEW c \in Threads, pc[c] \in CarrierPcs PROVE ChannelStep
  <2>1. pc'[c] \in CarrierPcs /\ \A u \in Threads : pc'[u] \in CarrierPcs => u = c
    BY <1>2, <1>3, OneCarrier
  <2>2. InFlight' = <<held'[c]>>
    BY <2>1, FlightOfThread, Unfolded
  <2> QED
    BY <1>1, <1>3, <2>2, OneCarrier, Kept
<1>4. CASE \A c \in Threads : pc[c] \notin CarrierPcs
  <2>1. InFlight' = <<>>
    BY <1>1, <1>2, <1>4, FlightOfAction, Unfolded
  <2>2. CASE outAct # None /\ pc[Epoll] # "deregister"
    <3>1. pc[Epoll] \notin CallbackPcs
      BY <1>4, <2>2 DEF CarrierPcs, CallbackPcs, Threads
    <3>2. PICK m \in Nat : InFlight = <<m>>
      BY <2>2, <3>1, Registered
    <3> QED
      BY <1>1, <2>1, <2>2, <3>1, <3>2, Registered, Leaves
  <2>3. CASE outAct = None \/ pc[Epoll] = "deregister"
    <3>1. InFlight = <<>>
      BY <1>4, <2>3, FlightOfAction, Unfolded
    <3> QED
      BY <1>1, <2>1, <3>1, Kept
  <2> QED
    BY <2>2, <2>3
<1> QED
  BY <1>3, <1>4

-----------------------------------------------------------------------------
(* The steps that change the queue.                                        *)

LEMMA FlightTyped == ASSUME IInv PROVE InFlight \in Seq(Nat)
<1>1. ASSUME NEW t \in Threads, pc[t] \in CarrierPcs PROVE InFlight \in Seq(Nat)
  <2>1. PICK m \in Nat : InFlight = <<m>>
    BY <1>1, OneCarrier
  <2> QED
    BY <2>1
<1>2. CASE \A t \in Threads : pc[t] \notin CarrierPcs
  <2>1. outAct # None => outAct.msg \in Nat
    BY DEF IInv, Data, Operations
  <2>2. InFlight = <<>> \/ \E m \in Nat : InFlight = <<m>>
    BY <1>2, <2>1, FlightOfAction, Unfolded
  <2>3. ASSUME NEW m \in Nat, InFlight = <<m>> PROVE InFlight \in Seq(Nat)
    BY <2>3
  <2>4. CASE InFlight = <<>>
    BY <2>4
  <2> QED
    BY <2>2, <2>3, <2>4
<1> QED
  BY <1>1, <1>2

LEMMA AppendMoved ==
    ASSUME NEW q \in Seq(Nat), q # <<>>, NEW f \in Seq(Nat), NEW m \in Nat
    PROVE  /\ f \o Tail(Append(q, m)) = Append(f \o Tail(q), m)
           /\ Head(Append(q, m)) = Head(q)
<1>1. Tail(Append(q, m)) = Append(Tail(q), m)
  OBVIOUS
<1>2. Tail(q) \in Seq(Nat)
  OBVIOUS
<1>3. \A s \in Seq(Nat) : f \o Append(s, m) = Append(f \o s, m)
  OBVIOUS
<1>4. Head(Append(q, m)) = Head(q)
  OBVIOUS
<1> QED
  BY <1>1, <1>2, <1>3, <1>4

LEMMA EnqueueChannel ==
    ASSUME IInv, NEW t \in Threads, Enqueue(t) PROVE ChannelStep
<1>1. /\ pc[t] = "enqueue" /\ UNCHANGED <<held, outAct, wire, unsent>> /\ (Up' <=> Up)
      /\ pc'[t] \in {"idle", "take"} /\ \A u \in Threads : u # t => pc'[u] = pc[u]
  BY DEF Enqueue, actions, Up, Goto, Return, IInv, Control
<1>2. InFlight' = InFlight
  BY <1>1, FlightKept DEF CarrierPcs, Threads
<1>3. CASE queue = NoQueue
  BY <1>1, <1>2, <1>3, Kept DEF Enqueue
<1>4. CASE queue # NoQueue
  <2>1. PICK m \in Msgs : held[t] = m
    BY <1>1 DEF IInv, Front
  <2>2. m \in Nat /\ m # Moved
    BY <2>1 DEF Msgs, Moved
  <2>3. queue' = Append(queue, m) /\ accepted' = Append(accepted, m)
    BY <1>4, <2>1 DEF Enqueue
  <2>4. queue \in Seq(Nat)
    BY <1>4 DEF IInv, Data
  <2>5. queue' \in Seq(Nat) /\ queue' # <<>> /\ queue' # NoQueue
    BY <2>2, <2>3, <2>4, Pushed, NoneDiffers DEF NoQueue
  <2>6. Pending' = Append(Pending, m)
    <3>1. CASE queue = <<>>
      <4>1. Pending = queue /\ Head(queue') = m
        BY <1>4, <2>3, <3>1, Unfolded DEF PendingOf
      <4> QED
        BY <2>2, <2>3, <2>5, <4>1, Unfolded DEF PendingOf
    <3>2. CASE queue # <<>>
      <4>1. Head(queue') = Head(queue)
        BY <2>2, <2>3, <2>4, <3>2, AppendMoved, FlightTyped
      <4>2. InFlight \o Tail(queue') = Append(InFlight \o Tail(queue), m)
        BY <2>2, <2>3, <2>4, <3>2, AppendMoved, FlightTyped
      <4> QED
        BY <1>2, <1>4, <2>3, <2>5, <3>2, <4>1, <4>2, Unfolded DEF PendingOf
    <3> QED
      BY <3>1, <3>2
  <2> QED
    BY <1>1, <2>3, <2>6, Steps
<1> QED
  BY <1>3, <1>4

LEMMA FrontTaken ==
    ASSUME NEW q \in Seq(Nat), q # <<>>
    PROVE  <<q[1]>> \o Tail([q EXCEPT ![1] = Moved]) = q
<1> DEFINE r == [q EXCEPT ![1] = Moved]
<1>1. /\ r \in Seq(Nat) /\ r # <<>> /\ Len(r) = Len(q)
      /\ \A i \in 2 .. Len(q) : r[i] = q[i]
  BY FrontMoved
<1> HIDE DEF r
<1>2. /\ Tail(r) \in Seq(Nat) /\ Len(Tail(r)) = Len(q) - 1
      /\ \A i \in 1 .. Len(q) - 1 : Tail(r)[i] = r[i + 1]
  BY <1>1, Popped
<1>3. q[1] \in Nat /\ Len(q) \in Nat \ {0}
  OBVIOUS
<1>4. <<q[1]>> \o Tail(r) \in Seq(Nat) /\ Len(<<q[1]>> \o Tail(r)) = Len(q)
  BY <1>2, <1>3
<1>5. \A i \in 1 .. Len(q) : (<<q[1]>> \o Tail(r))[i] = q[i]
  BY <1>1, <1>2, <1>3
<1>6. <<q[1]>> \o Tail(r) = q
  BY <1>4, <1>5
<1> QED
  BY <1>6 DEF r

LEMMA TakeChannel ==
    ASSUME IInv, NEW t \in Threads, Take(t) PROVE ChannelStep
<1>1. /\ pc[t] = "take" /\ queue # <<>> /\ outAct = None
      /\ \A u \in Threads : pc[u] \in SendPcs => u = t
      /\ UNCHANGED <<outAct, accepted, wire, unsent>> /\ (Up' <=> Up)
  BY DEF Take, IInv, Baton, Sending, SendPcs, CallbackPcs, actions, history, Up
<1>2. CASE queue = NoQueue
  <2>1. UNCHANGED <<queue, held>> /\ pc' = [pc EXCEPT ![t] = "idle"]
    BY <1>1, <1>2 DEF Take, Return
  <2> QED
    BY <1>1, <2>1, FlightKept, Kept DEF IInv, Control, CarrierPcs
<1>3. CASE queue # NoQueue
  <2>1. queue \in Seq(Nat) /\ queue[1] \in Msgs /\ Head(queue) = queue[1]
    BY <1>1, <1>3 DEF IInv, Data, Front
  <2>2. /\ held' = [held EXCEPT ![t] = queue[1]]
        /\ queue' = [queue EXCEPT ![1] = Moved]
        /\ pc' = [pc EXCEPT ![t] = "register"]
    BY <1>1, <1>3, <2>1 DEF Take, Goto, NoQueue
  <2>3. InFlight' = <<queue[1]>>
    <3>1. /\ pc'[t] \in CarrierPcs /\ held'[t] = queue[1]
          /\ \A u \in Threads : pc'[u] \in CarrierPcs => u = t
      BY <1>1, <2>2 DEF IInv, Control, Data, CarrierPcs, SendPcs
    <3> QED
      BY <3>1, FlightOfThread, Unfolded
  <2>4. queue' \in Seq(Nat) /\ queue' # <<>> /\ queue' # NoQueue /\ Head(queue') = Moved
    BY <1>1, <2>1, <2>2, FrontMoved, NoneDiffers DEF NoQueue
  <2>5. Pending' = queue
    BY <1>1, <2>1, <2>2, <2>3, <2>4, FrontTaken, Unfolded DEF PendingOf
  <2>6. Pending = queue
    BY <1>1, <1>3, <2>1, Unfolded DEF PendingOf, Msgs, Moved
  <2> QED
    BY <1>1, <2>5, <2>6, Steps
<1> QED
  BY <1>2, <1>3

LEMMA PopChannel ==
    ASSUME IInv, IInv', NEW t \in Threads, Pop(t) PROVE ChannelStep
<1>1. /\ pc[t] = "pop" /\ queue # <<>> /\ outAct = None
      /\ \A u \in Threads : pc[u] \in SendPcs => u = t
      /\ UNCHANGED <<held, outAct, accepted, wire, unsent>> /\ (Up' <=> Up)
  BY DEF Pop, IInv, Baton, Sending, SendPcs, CallbackPcs, actions, history, Up
<1>2. pc'[t] \in {"idle", "take"} /\ \A u \in Threads : u # t => pc'[u] = pc[u]
  BY DEF Pop, Goto, Return, IInv, Control
<1>3. \A u \in Threads : pc[u] \notin CarrierPcs /\ pc'[u] \notin CarrierPcs
  BY <1>1, <1>2 DEF SendPcs, CarrierPcs
<1>4. InFlight = <<>> /\ InFlight' = <<>>
  BY <1>1, <1>3, FlightOfAction, Unfolded
<1>5. CASE queue = NoQueue
  BY <1>1, <1>4, <1>5, Kept DEF Pop
<1>6. CASE queue # NoQueue
  <2>1. queue \in Seq(Nat) /\ Head(queue) = Moved /\ queue' = Tail(queue)
    BY <1>1, <1>6 DEF IInv, Data, Front, SendPcs, Pop
  <2>2. Pending = queue'
    BY <1>1, <1>4, <1>6, <2>1, Sequence, Unfolded DEF PendingOf, Moved
  <2>3. queue' \in Seq(Nat) /\ queue' # NoQueue
    BY <1>1, <2>1, NoneDiffers, SMTT(30) DEF NoQueue
  <2>4. queue' # <<>> => Head(queue') # Moved
    <3>1. queue' # <<>> => pc'[t] = "take"
      BY <1>6 DEF Pop, Goto, IInv, Control
    <3>2. queue' # <<>> => Head(queue') = queue'[1]
      BY <2>3
    <3> QED
      BY <2>3, <3>1, <3>2 DEF IInv, Front, Msgs, Moved
  <2>5. Pending' = queue'
    BY <2>3, <2>4, Unfolded DEF PendingOf
  <2> QED
    BY <1>1, <2>2, <2>5, Steps
<1> QED
  BY <1>5, <1>6

(* What is under way has left an empty Message at the front.               *)
LEMMA OneInFlight ==
    ASSUME IInv, InFlight # <<>>
    PROVE  /\ \E m \in Nat : InFlight = <<m>>
           /\ queue # NoQueue => queue # <<>> /\ queue[1] = Moved
<1>1. CASE \E t \in Threads : pc[t] \in CarrierPcs
  BY <1>1, OneCarrier
<1>2. CASE \A t \in Threads : pc[t] \notin CarrierPcs
  <2>1. outAct # None /\ pc[Epoll] # "deregister"
    BY <1>2, FlightOfAction, Unfolded
  <2>2. pc[Epoll] \notin CallbackPcs
    BY <1>2, <2>1 DEF CarrierPcs, CallbackPcs, Threads
  <2> QED
    BY <2>1, <2>2, Registered
<1> QED
  BY <1>1, <1>2

LEMMA DropQueueChannel ==
    ASSUME IInv, NEW t \in Threads, DropQueue(t) PROVE ChannelStep
<1>1. /\ UNCHANGED <<held, outAct, accepted, wire, unsent>> /\ (Up' <=> Up)
      /\ queue' = NoQueue /\ ~Up
      /\ pc[t] = "dropQueue" /\ pc' = [pc EXCEPT ![t] = "tell"]
  BY DEF DropQueue, Goto, actions, history, Up, IInv, Wakeup, CloserPcs
<1>2. InFlight' = InFlight
  BY <1>1, FlightKept DEF IInv, Control, CarrierPcs
<1>3. Pending' = InFlight
  BY <1>1, <1>2, Unfolded DEF PendingOf
<1>4. CASE InFlight = <<>>
  BY <1>1, <1>3, <1>4, Steps
<1>5. CASE queue = NoQueue
  BY <1>1, <1>3, <1>5, Steps, Unfolded DEF PendingOf
<1>6. CASE InFlight # <<>> /\ queue # NoQueue
  <2>1. PICK m \in Nat : InFlight = <<m>>
    BY <1>6, OneInFlight
  <2>2. queue # <<>> /\ queue[1] = Moved
    BY <1>6, OneInFlight
  <2>3. queue \in Seq(Nat)
    BY <1>6 DEF IInv, Data
  <2>4. Head(queue) = Moved /\ Tail(queue) \in Seq(Nat)
    BY <2>2, <2>3
  <2>5. Pending = <<m>> \o Tail(queue)
    BY <1>6, <2>1, <2>2, <2>4, Unfolded DEF PendingOf
  <2>6. Pending # <<>> /\ Head(Pending) = m
    BY <2>3, <2>5, Sequence
  <2> QED
    BY <1>1, <1>3, <2>1, <2>6, Steps
<1> QED
  BY <1>4, <1>5, <1>6

-----------------------------------------------------------------------------
(* The steps of which the channel sees at most that the connection breaks. *)

LEMMA QuietStep ==
    ASSUME IInv, UNCHANGED <<outAct, queue, accepted, wire, unsent>>, (Up' <=> Up) \/ ~Up',
           \/ pc' = pc /\ held' = held
           \/ \E t \in Threads :
                /\ \A u \in Threads : u # t => pc'[u] = pc[u] /\ held'[u] = held[u]
                /\ pc[t] \notin CarrierPcs \cup {"deregister"}
                /\ pc'[t] \notin CarrierPcs \cup {"deregister"}
    PROVE  ChannelStep
<1>1. InFlight' = InFlight
  <2>1. CASE pc' = pc /\ held' = held
    BY <2>1, FlightKept
  <2>2. ASSUME NEW t \in Threads,
               \A u \in Threads : u # t => pc'[u] = pc[u] /\ held'[u] = held[u],
               pc[t] \notin CarrierPcs \cup {"deregister"},
               pc'[t] \notin CarrierPcs \cup {"deregister"}
        PROVE  InFlight' = InFlight
    BY <2>2, FlightKept DEF Threads
  <2> QED
    BY <2>1, <2>2
<1> QED
  BY <1>1, Kept

LEMMA QuietSteps ==
    ASSUME IInv, NEW t \in Threads,
           \/ SendMessage(t) \/ CloseSession(t) \/ Lookup(t) \/ CheckActive(t) \/ Read(t)
           \/ FindFd(t) \/ CloseFd(t) \/ Unlist(t) \/ Unmap(t) \/ Tell(t)
    PROVE  ChannelStep
<1> USE DEF Goto, Return, tables, actions, history, Up, IInv, Control, Data, CarrierPcs
<1>1. CASE SendMessage(t)
  BY <1>1, QuietStep DEF SendMessage
<1>2. CASE CloseSession(t)
  BY <1>2, QuietStep DEF CloseSession
<1>3. CASE Lookup(t)
  BY <1>3, QuietStep DEF Lookup
<1>4. CASE CheckActive(t)
  BY <1>4, QuietStep DEF CheckActive
<1>5. CASE Recv(t)
  BY <1>5, QuietStep DEF Recv
<1>6. CASE ReadDone(t)
  BY <1>6, QuietStep DEF ReadDone
<1>7. CASE ReadAgain(t)
  BY <1>7, QuietStep DEF ReadAgain
<1>8. CASE FindFd(t)
  BY <1>8, QuietStep DEF FindFd
<1>9. CASE CloseFd(t)
  BY <1>9, QuietStep DEF CloseFd
<1>10. CASE Unlist(t)
  BY <1>10, QuietStep DEF Unlist
<1>11. CASE Unmap(t)
  BY <1>11, QuietStep DEF Unmap
<1>12. CASE Tell(t)
  BY <1>12, QuietStep DEF Tell
<1> QED
  BY <1>1, <1>2, <1>3, <1>4, <1>5, <1>6, <1>7, <1>8, <1>9, <1>10, <1>11, <1>12 DEF Read

LEMMA NetworkSteps ==
    ASSUME IInv, EpollWait \/ RunInCallback \/ Break \/ UNCHANGED vars
    PROVE  ChannelStep
<1> USE DEF local, tables, actions, history, Up
<1>1. CASE EpollWait
  BY <1>1, QuietStep DEF EpollWait
<1>2. CASE Break
  BY <1>2, QuietStep DEF Break
<1>3. CASE UNCHANGED vars
  BY <1>3, QuietStep DEF vars
<1>4. CASE RunInCallback
  BY <1>4, QuietStep DEF RunInCallback, IInv, Control, CarrierPcs, Threads
<1> QED
  BY <1>1, <1>2, <1>3, <1>4

-----------------------------------------------------------------------------
(* SendMessage and its completion, whatever the threads do and whichever   *)
(* sends fail: the messages reach the stream in the order in which they    *)
(* were pushed, each at most once, and as long as the connection is up     *)
(* each is waiting, written, or the send of it has failed.                 *)
THEOREM ImplementsChannel == Spec => RefinesChannel
<1>1. Init => Channel!Init
  <2>1. ASSUME Init PROVE Pending = <<>>
    BY <2>1, FlightOfAction, Unfolded DEF Init, PendingOf, CarrierPcs, NoQueue
  <2> QED
    BY <2>1 DEF Init, Channel!Init
<1>2. ASSUME IInv, IInv', [Next]_vars PROVE ChannelStep
  <2>1. ASSUME NEW t \in Threads, Send(t) PROVE ChannelStep
    BY <1>2, <2>1, QuietSteps, EnqueueChannel, TakeChannel, RegisterChannel, PartChannel,
       SendLengthChannel, ReplaceChannel, SendBodyChannel, DeregisterChannel, PopChannel DEF Send
  <2>2. ASSUME NEW t \in Threads, Close(t) PROVE ChannelStep
    BY <1>2, <2>2, QuietSteps, DeregisterFdChannel, DropQueueChannel DEF Close
  <2> QED
    BY <1>2, <2>1, <2>2, QuietSteps, NetworkSteps, RunOutChannel DEF Next
<1> QED
  BY <1>1, <1>2, Invariance, PTL DEF Spec, RefinesChannel, Channel!Spec, ChannelStep
=============================================================================

------------------------------ MODULE AsyncFd ------------------------------
(***************************************************************************)
(* Messages over TCP byte streams: SendMessage, RecvMessage and ProcData   *)
(* of async_fd.h at both ends of every connection.                         *)
(*                                                                         *)
(* A connection between a and b that a dialled is two streams, <<a, b, a>> *)
(* and <<b, a, a>>; the triple <<a, b, a>> also names a's end of it.  Two  *)
(* nodes may have dialled each other.  A message is preceded by its length *)
(* in LenSize bytes.  Both are transferred piece by piece through a kernel *)
(* buffer, as epoll reports room and data.  A node that dialled has a      *)
(* non-blocking socket; accept_client leaves the accepted socket blocking, *)
(* so that send() keeps the epoll thread of that node, and with it all the *)
(* connections of the node, until all of its bytes are taken.              *)
(***************************************************************************)
EXTENDS Integers, Sequences, SequencesExt

CONSTANTS
    Nodes,
    Dialled,      \* <<a, b>>: a has opened a connection to b
    Plan,         \* bound: for each message of a stream, the lengths it may have
    LenSize,      \* sizeof(uint32_t)
    Lengths,      \* lengths of messages
    Capacity,     \* bytes a stream holds between send() and recv(), of each stream
    WriteFaults,  \* may send() fail on a connection that stays up
    None

Writer(s) == s[1]
Reader(s) == s[2]
Dialler(s) == s[3]
Rev(s) == <<Reader(s), Writer(s), Dialler(s)>>
Streams == {<<d[1], d[2], d[1]>> : d \in Dialled} \cup {<<d[2], d[1], d[1]>> : d \in Dialled}

ASSUME AsyncFdAssumption ==
    /\ Dialled \subseteq {d \in Nodes \X Nodes : d[1] # d[2]}
    /\ {LenSize} \cup Lengths \subseteq Nat \ {0}
    /\ Capacity \in [Streams -> Nat \ {0}]
    /\ Plan \in [Streams -> Seq(SUBSET Lengths)]
    /\ WriteFaults \in BOOLEAN
    /\ None \notin Nodes \X Nodes \X Nodes

VARIABLES
    open,       \* the ends that are not closed
    sending,    \* the writer's operation: what is sent and what is left
    buf,        \* the bytes under way
    receiving,  \* the reader's operation: the size and the bytes read
    inSend,     \* the stream on which the epoll thread of a node blocks
    calls,      \* calls of SendMessage
    sent,       \* history: messages accepted, without those that failed
    got,        \* history: messages received
    failed      \* history: how sends failed although the stream was up

vars == <<open, sending, buf, receiving, inSend, calls, sent, got, failed>>

Messages == [id : Nat, len : Lengths]

(* The bytes of a message and of its length; memcpy of a uint32_t.         *)
Body(m) == [i \in 1 .. m.len |-> <<"body", m.id, i>>]
Encode(len) == [i \in 1 .. LenSize |-> <<"len", len, i>>]

(* What memcpy makes of LenSize bytes: bytes that do not belong together   *)
(* may come out as any length.                                             *)
Decode(bytes) ==
    IF \E len \in Lengths : Encode(len) = bytes
    THEN {len \in Lengths : Encode(len) = bytes}
    ELSE Lengths

Idle == [part |-> "idle"]
SendLen(m) == [part |-> "len", msg |-> m, left |-> LenSize]
SendBody(m) == [part |-> "body", msg |-> m, left |-> m.len]
RecvLen == [part |-> "len", size |-> LenSize, data |-> <<>>]
RecvBody(len) == [part |-> "body", size |-> len, data |-> <<>>]

TypeOK ==
    /\ open \subseteq Streams
    /\ \A s \in Streams :
         /\ \/ sending[s] = Idle
            \/ /\ sending[s].part \in {"len", "body"}
               /\ sending[s].msg \in Messages
               /\ sending[s].left \in
                    1 .. (IF sending[s].part = "len" THEN LenSize ELSE sending[s].msg.len)
         /\ Len(buf[s]) <= Capacity[s]
         /\ receiving[s].part \in {"len", "body"}
         /\ receiving[s].size - Len(receiving[s].data) > 0
         /\ calls[s] \in 0 .. Len(Plan[s])
         /\ sent[s] \in Seq(Messages)
    /\ inSend \in [Nodes -> Streams \cup {None}]
    /\ failed \in [Streams -> {"no", "whole", "torn"}]

Init ==
    /\ open = Streams
    /\ sending = [s \in Streams |-> Idle]
    /\ buf = [s \in Streams |-> <<>>]
    /\ receiving = [s \in Streams |-> RecvLen]
    /\ inSend = [n \in Nodes |-> None]
    /\ calls = [s \in Streams |-> 0]
    /\ sent = [s \in Streams |-> <<>>]
    /\ got = [s \in Streams |-> <<>>]
    /\ failed = [s \in Streams |-> "no"]

-----------------------------------------------------------------------------
(* Sending.                                                                *)

(* create_tcp_socket sets SOCK_NONBLOCK; accept_client sets O_NONBLOCK on  *)
(* the listening socket instead of the accepted one.                       *)
NonBlocking(s) == Writer(s) = Dialler(s)

(* SendMessage: the length comes first.                                    *)
SendMessage(s, len) ==
    LET m == [id |-> calls[s] + 1, len |-> len]
    IN  /\ s \in open
        /\ sending[s] = Idle
        /\ calls[s] < Len(Plan[s]) /\ len \in Plan[s][calls[s] + 1]
        /\ calls' = [calls EXCEPT ![s] = @ + 1]
        /\ sent' = [sent EXCEPT ![s] = Append(@, m)]
        /\ sending' = [sending EXCEPT ![s] = SendLen(m)]
        /\ UNCHANGED <<open, buf, receiving, inSend, got, failed>>

(* Mutant: every piece starts at the front of the data.                    *)
Piece_FromStart(op, k) ==
    SubSeq(IF op.part = "len" THEN Encode(op.msg.len) ELSE Body(op.msg), 1, k)

(* data + (size - left_size), k bytes of it.                               *)
Piece(op, k) ==
    LET data == IF op.part = "len" THEN Encode(op.msg.len) ELSE Body(op.msg)
        done == Len(data) - op.left
    IN  SubSeq(data, done + 1, done + k)

(* Mutant: what is written to the last byte goes on with nothing left.     *)
Wrote_NeverDone(op, k) ==
    IF op.left >= k THEN [op EXCEPT !.left = @ - k]
    ELSE IF op.part = "len" THEN SendBody(op.msg) ELSE Idle

(* left_size -= length; the length is followed by the body, the body by    *)
(* the completion.                                                         *)
Wrote(op, k) ==
    IF op.left > k THEN [op EXCEPT !.left = @ - k]
    ELSE IF op.part = "len" THEN SendBody(op.msg) ELSE Idle

Room(s) == Capacity[s] - Len(buf[s])

(* k bytes of the operation go into the stream.                            *)
Transfer(s, k) ==
    /\ buf' = [buf EXCEPT ![s] = @ \o Piece(sending[s], k)]
    /\ sending' = [sending EXCEPT ![s] = Wrote(@, k)]

MayCallSend(s) ==
    /\ sending[s] # Idle
    /\ inSend[Writer(s)] = None
    /\ Room(s) > 0

(* The ProcData callback on a non-blocking socket: send() takes a part.    *)
WriteSome(s) ==
    /\ NonBlocking(s)
    /\ MayCallSend(s)
    /\ \E k \in 1 .. Room(s) : k <= sending[s].left /\ Transfer(s, k)
    /\ UNCHANGED <<open, receiving, inSend, calls, sent, got, failed>>

(* The same on a blocking socket: the thread enters send() ...             *)
EnterSend(s) ==
    /\ ~NonBlocking(s)
    /\ MayCallSend(s)
    /\ inSend' = [inSend EXCEPT ![Writer(s)] = s]
    /\ UNCHANGED <<open, sending, buf, receiving, calls, sent, got, failed>>

(* ... and leaves it when the last byte is taken.                          *)
BlockedSend(s) ==
    /\ inSend[Writer(s)] = s
    /\ \E k \in 1 .. Room(s) :
         /\ k <= sending[s].left
         /\ Transfer(s, k)
         /\ inSend' = IF k = sending[s].left THEN [inSend EXCEPT ![Writer(s)] = None]
                      ELSE inSend
    /\ UNCHANGED <<open, receiving, calls, sent, got, failed>>

(* send() or epoll reports an error and the operation completes with it.   *)
(* SendMessageFd goes on with the next message all the same, even if a     *)
(* part of this one is in the stream.                                      *)
SendError(s) ==
    /\ sending[s] # Idle
    /\ sending' = [sending EXCEPT ![s] = Idle]
    /\ sent' = [sent EXCEPT ![s] = Front(@)]
    /\ inSend' = [inSend EXCEPT ![Writer(s)] = None]
    /\ UNCHANGED <<open, buf, receiving, calls, got>>

(* The other end is closed.                                                *)
SendFails(s) ==
    /\ Rev(s) \notin open
    /\ inSend[Writer(s)] \in {None, s}
    /\ SendError(s)
    /\ UNCHANGED failed

(* send() on a non-blocking socket returns -1 for want of memory (EAGAIN,  *)
(* which ProcData treats as an error when it sends).                       *)
SendFault(s) ==
    /\ WriteFaults
    /\ NonBlocking(s)
    /\ inSend[Writer(s)] = None
    /\ Rev(s) \in open
    /\ SendError(s)
    /\ failed' = [failed EXCEPT ![s] =
                    IF sending[s] # SendLen(sending[s].msg) \/ @ = "torn" THEN "torn" ELSE "whole"]

-----------------------------------------------------------------------------
(* Receiving.                                                              *)

(* recv(fd, data + (size - left_size), left_size) returns one of these.    *)
Readable(s) ==
    {k \in 1 .. Len(buf[s]) : Len(receiving[s].data) + k <= receiving[s].size}

(* The ProcData callback of RecvMessage: recv() has a part of what is left. *)
(* A whole length starts the body; a whole body is the message, which is   *)
(* handed over, and ReadMessage waits for the next one.                    *)
ReadSome(s) ==
    /\ Rev(s) \in open
    /\ inSend[Reader(s)] = None
    /\ \E k \in Readable(s) :
         LET op == receiving[s]
             data == op.data \o SubSeq(buf[s], 1, k)
         IN  /\ buf' = [buf EXCEPT ![s] = SubSeq(@, k + 1, Len(@))]
             /\ \/ /\ Len(data) # op.size
                   /\ receiving' = [receiving EXCEPT ![s].data = data]
                   /\ UNCHANGED got
                \/ /\ Len(data) = op.size /\ op.part = "len"
                   /\ \E len \in Decode(data) :
                        receiving' = [receiving EXCEPT ![s] = RecvBody(len)]
                   /\ UNCHANGED got
                \/ /\ Len(data) = op.size /\ op.part = "body"
                   /\ got' = [got EXCEPT ![s] = Append(@, data)]
                   /\ receiving' = [receiving EXCEPT ![s] = RecvLen]
    /\ UNCHANGED <<open, sending, inSend, calls, sent, failed>>

(* CloseFD: both operations of the end go, and what it has not read.       *)
Close(e) ==
    /\ e \in open
    /\ inSend[Writer(e)] = None
    /\ open' = open \ {e}
    /\ sending' = [sending EXCEPT ![e] = Idle]
    /\ receiving' = [receiving EXCEPT ![Rev(e)] = RecvLen]
    /\ buf' = [buf EXCEPT ![Rev(e)] = <<>>]
    /\ UNCHANGED <<inSend, calls, sent, got, failed>>

(* Mutant: recv() that returns 0 is taken for progress; only the reset that *)
(* a send provokes is noticed.                                             *)
ReadFails_IgnoresEof(s) ==
    /\ s \notin open
    /\ sending[Rev(s)] # Idle
    /\ Close(Rev(s))

(* recv() returns 0, or epoll reports EPOLLHUP or EPOLLERR, whatever may   *)
(* still be in the buffer: the reader closes.                              *)
ReadFails(s) ==
    /\ s \notin open
    /\ Close(Rev(s))

(* CloseSession, or this end is the first to see the connection broken.    *)
CloseSession(e) ==
    /\ Rev(e) \in open
    /\ Close(e)

Send(s) == WriteSome(s) \/ EnterSend(s) \/ BlockedSend(s) \/ SendFails(s)
Receive(s) == ReadSome(s) \/ ReadFails(s)

Next ==
    \E s \in Streams :
        \/ \E len \in Lengths : SendMessage(s, len)
        \/ Send(s)
        \/ SendFault(s)
        \/ Receive(s)
        \/ CloseSession(s)

(* The epoll threads run: a stream that has room or data is reported, and  *)
(* send() and recv() move at least a byte.                                 *)
Fairness == \A s \in Streams : WF_vars(Send(s)) /\ WF_vars(Receive(s))

Spec == Init /\ [][Next]_vars

FairSpec == Spec /\ Fairness

-----------------------------------------------------------------------------
(* Properties.                                                             *)

(* RecvMessage: whatever pieces send() and recv() make of the stream, and  *)
(* wherever connections break, what the reader hands over is the messages  *)
(* that were sent, whole, in order and none twice, unless a send failed in *)
(* the middle of a message on a stream that stayed up.                     *)
FramesIntact ==
    \A s \in Streams :
        failed[s] # "torn" =>
            IsPrefix(got[s], [i \in 1 .. Len(sent[s]) |-> Body(sent[s][i])])

Alive(s) == s \in open /\ Rev(s) \in open /\ failed[s] = "no"

(* A node that is caught: its epoll thread waits in send() for a node that *)
(* is caught as well.  None of them reads, so none of them ever leaves.    *)
Caught(n) ==
    \E S \in SUBSET Nodes :
        /\ n \in S
        /\ \A x \in S : /\ inSend[x] # None
                        /\ Rev(inSend[x]) \in open
                        /\ Room(inSend[x]) = 0
                        /\ Reader(inSend[x]) \in S

(* Although an accepted socket makes its epoll thread wait in send(), and  *)
(* that thread reads nothing meanwhile, every message arrives or its       *)
(* connection is closed, unless nodes wait for each other in a circle.     *)
MessagesArrive ==
    \A s \in Streams : \A i \in DOMAIN Plan[s] :
        Len(sent[s]) >= i
          ~> (Len(got[s]) >= i \/ ~Alive(s) \/ Caught(Writer(s)) \/ Caught(Reader(s)))

(* An end whose other end is gone is closed: no thread stays in send(), no *)
(* operation waits on a dead connection, again but for a circle.           *)
HalfOpenIsClosed ==
    \A s \in Streams : (s \notin open) ~> (Rev(s) \notin open \/ Caught(Reader(s)))
=============================================================================
